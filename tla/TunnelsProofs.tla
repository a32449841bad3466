----------------------------- MODULE TunnelsProofs -----------------------------
(***************************************************************************)
(* Theorems about tunnels on both sides.  Tunnels, the panel's: its type   *)
(* invariant, and that a public port leads to one tunnel and the node      *)
(* agrees with the table when requests take turns, for any number of       *)
(* requests, instances, users, lines and ports.  FrpManager, the node's:   *)
(* what calls answered holds and no frpc is lost when calls take turns,    *)
(* for any number of tunnels, callers, frpcs and ends of the daemon; and   *)
(* that its callers then see the table of TunnelTable.                     *)
(***************************************************************************)
EXTENDS Tunnels, FrpManager, TLAPS, FiniteSetTheorems, WellFoundedInduction

\* A request that sends a tunnel to the node knows the tunnel's id.
SentTunnels == \A r \in Requests :
  req[r].pc \in {"insert", "apply", "confirm", "failed"} => req[r].tid \in TunnelIds

Inserting(r, l) == req[r].pc = "insert" /\ req[r].line = l

\* Taking turns, at most one request is about to insert a row on a line, and the port
\* it chose is still free.
ChosenPorts ==
  \A l \in Own, r \in Requests : Inserting(r, l) =>
    /\ req[r].port \in FreePorts(l)
    /\ \A s \in Requests : Inserting(s, l) => s = r

IInv == TypeOK /\ SentTunnels /\ (Serial => ChosenPorts /\ PortsAreExclusive)

-----------------------------------------------------------------------------
(* Ports and rows *)

LEMMA LowestPort ==
  ASSUME NEW S, S \subseteq Nat, S # {}
  PROVE  Min(S) \in S
<1> DEFINE Below == {1..p : p \in S}
<1>1. Below \subseteq FiniteSubsetsOf(Nat) /\ Below # {}
  <2>1. \A p \in S : IsFiniteSet(1..p) /\ 1..p \subseteq Nat
    BY FS_Interval
  <2> QED
    BY <2>1 DEF FiniteSubsetsOf
<1>2. PICK b \in Below : \A c \in Below : <<c, b>> \notin StrictSubsetOrdering(Nat)
  BY <1>1, FS_StrictSubsetOrderingWellFounded, WFMin
<1>3. PICK p \in S : b = 1..p
  BY <1>2
<1>4. ASSUME NEW q \in S PROVE p <= q
  <2>1. 1..q \in Below /\ 1..q \subseteq Nat /\ 1..p \subseteq Nat
    OBVIOUS
  <2>2. ~(1..q \subseteq 1..p /\ 1..q # 1..p)
    BY <1>2, <1>3, <2>1 DEF StrictSubsetOrdering
  <2>3. SUFFICES ASSUME q < p PROVE FALSE
    OBVIOUS
  <2>4. 1..q \subseteq 1..p /\ p \in 1..p /\ p \notin 1..q
    BY <2>3
  <2> QED
    BY <2>2, <2>4
<1> QED
  BY <1>4 DEF Min

\* allocRemotePortAvoiding returns a free port of the line.
LEMMA ChosenPortIsFree ==
  ASSUME NEW l \in Lines, FreePorts(l) # {}
  PROVE  ChosenPort(l) \in FreePorts(l) /\ ChosenPort(l) \in Segment \cup {0}
<1>1. FreePorts(l) \subseteq Segment \cup {0} /\ Segment \cup {0} \subseteq Nat
  BY TunnelsAssumption DEF FreePorts, PortsOf
<1> DEFINE good == FreePorts(l) \ Avoided(l)
           S == IF good # {} THEN good ELSE FreePorts(l)
<1>2. S \subseteq FreePorts(l) /\ S # {}
  OBVIOUS
<1>3. Min(S) \in S
  BY <1>1, <1>2, LowestPort
<1>4. ChosenPort(l) = Min(S)
  BY DEF ChosenPort
<1> HIDE DEF S
<1> QED
  BY <1>1, <1>2, <1>3, <1>4

\* Rows that keep their line and their port, whichever others go.
KeepsPorts == Rows' \subseteq Rows /\ \A t \in Rows' : rows'[t].line = rows[t].line
                                                  /\ rows'[t].port = rows[t].port

\* No request is about to insert a row that was not before.
NoneChooses == \A r \in Requests, l \in Own :
  Inserting(r, l)' => Inserting(r, l) /\ req'[r].port = req[r].port

LEMMA FewerRows ==
  ASSUME ChosenPorts, PortsAreExclusive, KeepsPorts, NoneChooses
  PROVE  ChosenPorts' /\ PortsAreExclusive'
<1>1. \A l \in Own : FreePorts(l) \subseteq FreePorts(l)'
  BY DEF FreePorts, UsedPorts, RowsOf, PortsOf, KeepsPorts
<1>2. ChosenPorts'
  <2> SUFFICES ASSUME NEW l \in Own, NEW r \in Requests, Inserting(r, l)'
               PROVE  /\ req'[r].port \in FreePorts(l)'
                      /\ \A s \in Requests : Inserting(s, l)' => s = r
    BY DEF ChosenPorts
  <2> QED
    BY <1>1 DEF ChosenPorts, NoneChooses
<1>3. PortsAreExclusive'
  BY DEF PortsAreExclusive, KeepsPorts
<1> QED
  BY <1>2, <1>3

\* What the handlers do to the table and to their own place.
LEMMA RowsKeepPorts ==
  ASSUME TypeOK
  PROVE  /\ UNCHANGED rows => KeepsPorts
         /\ \A T : rows' = Without(T) => KeepsPorts
         /\ \A t, s : rows' = [rows EXCEPT ![t].status = s] => KeepsPorts
         /\ \A t, p : rows' = [rows EXCEPT ![t].local = p] => KeepsPorts
         /\ \A t, i, s : rows' = [rows EXCEPT ![t].inst = i, ![t].status = s] => KeepsPorts
         /\ \A t, i, p, s : rows' = [rows EXCEPT ![t].inst = i, ![t].local = p, ![t].status = s]
                              => KeepsPorts
<1>1. \A t \in Rows : rows[t] \in Row
  BY DEF TypeOK
<1>2. /\ UNCHANGED rows => KeepsPorts
      /\ \A T : rows' = Without(T) => KeepsPorts
  BY DEF KeepsPorts, Rows, Without
<1>3. ASSUME NEW t, NEW row,
             rows' = [rows EXCEPT ![t] = row],
             t \in Rows => row.line = rows[t].line /\ row.port = rows[t].port
      PROVE  KeepsPorts
  BY <1>3 DEF KeepsPorts, Rows
<1>4. ASSUME NEW t, NEW s, rows' = [rows EXCEPT ![t].status = s] PROVE KeepsPorts
  <2>1. rows' = [rows EXCEPT ![t] = [rows[t] EXCEPT !.status = s]]
    BY <1>4
  <2> QED
    BY <1>1, <1>3, <2>1 DEF Row
<1>5. ASSUME NEW t, NEW p, rows' = [rows EXCEPT ![t].local = p] PROVE KeepsPorts
  <2>1. rows' = [rows EXCEPT ![t] = [rows[t] EXCEPT !.local = p]]
    BY <1>5
  <2> QED
    BY <1>1, <1>3, <2>1 DEF Row
<1>6. ASSUME NEW t, NEW i, NEW s, rows' = [rows EXCEPT ![t].inst = i, ![t].status = s]
      PROVE  KeepsPorts
  <2>1. rows' = [rows EXCEPT ![t] = [rows[t] EXCEPT !.inst = i, !.status = s]]
    BY <1>6
  <2> QED
    BY <1>1, <1>3, <2>1 DEF Row
<1>7. ASSUME NEW t, NEW i, NEW p, NEW s,
             rows' = [rows EXCEPT ![t].inst = i, ![t].local = p, ![t].status = s]
      PROVE  KeepsPorts
  <2>1. rows' = [rows EXCEPT ![t] = [rows[t] EXCEPT !.inst = i, !.local = p, !.status = s]]
    BY <1>7
  <2> QED
    BY <1>1, <1>3, <2>1 DEF Row
<1> QED
  BY <1>2, <1>4, <1>5, <1>6, <1>7

LEMMA PlaceHasPc ==
  ASSUME TypeOK, NEW r \in Requests
  PROVE  \A pc : [req[r] EXCEPT !.pc = pc].pc = pc
BY DEF TypeOK, Places, Serving, Deleting, Removing

LEMMA RequestMoves ==
  ASSUME TypeOK, NEW r \in Requests
  PROVE  /\ UNCHANGED req => NoneChooses
         /\ \A v : v.pc # "insert" /\ req' = [req EXCEPT ![r] = v] => NoneChooses
         /\ \A pc : pc # "insert" /\ Goto(r, pc) => NoneChooses
         /\ Finish(r) => NoneChooses
<1>1. UNCHANGED req => NoneChooses
  BY DEF NoneChooses, Inserting
<1>2. ASSUME NEW v, v.pc # "insert", req' = [req EXCEPT ![r] = v] PROVE NoneChooses
  BY <1>2 DEF NoneChooses, Inserting, TypeOK
<1>3. ASSUME NEW pc, pc # "insert", Goto(r, pc) PROVE NoneChooses
  <2>1. req' = [req EXCEPT ![r] = [req[r] EXCEPT !.pc = pc]]
    BY <1>3 DEF Goto
  <2> QED
    BY <1>2, <1>3, <2>1, PlaceHasPc
<1>4. Finish(r) => NoneChooses
  BY <1>2 DEF Finish
<1> QED
  BY <1>1, <1>2, <1>3, <1>4

\* A request that has chosen a free port of a line on which nobody else has.
LEMMA PortChosen ==
  ASSUME TypeOK, ChosenPorts, PortsAreExclusive, NEW r \in Requests, NEW v,
         req' = [req EXCEPT ![r] = v], UNCHANGED rows,
         v.line \in Own => v.port \in FreePorts(v.line) /\ ~Choosing(v.line)
  PROVE  ChosenPorts' /\ PortsAreExclusive'
<1>1. PortsAreExclusive'
  BY DEF PortsAreExclusive, Rows
<1>2. \A s \in Requests : req'[s] = IF s = r THEN v ELSE req[s]
  BY DEF TypeOK
<1>3. \A l : FreePorts(l)' = FreePorts(l)
  BY DEF FreePorts, UsedPorts, RowsOf, PortsOf, Rows
<1>4. ChosenPorts'
  <2> SUFFICES ASSUME NEW l \in Own, NEW s \in Requests, Inserting(s, l)'
               PROVE  /\ req'[s].port \in FreePorts(l)
                      /\ \A q \in Requests : Inserting(q, l)' => q = s
    BY <1>3 DEF ChosenPorts
  <2>1. CASE v.line = l /\ s = r
    BY <1>2, <2>1 DEF Choosing, Inserting
  <2>2. CASE v.line = l /\ s # r
    BY <1>2, <2>2 DEF Choosing, Inserting
  <2>3. CASE v.line # l
    BY <1>2, <2>3 DEF ChosenPorts, Inserting
  <2> QED
    BY <2>1, <2>2, <2>3
<1> QED
  BY <1>1, <1>4

\* The row that is inserted takes the port that was chosen for it.
LEMMA RowInserted ==
  ASSUME TypeOK, ChosenPorts, PortsAreExclusive, NEW r \in Requests, NEW row, NEW v,
         req[r].pc = "insert", req[r].tid \notin Rows,
         rows' = With(req[r].tid, row), row.line = req[r].line, row.port = req[r].port,
         v.pc # "insert", req' = [req EXCEPT ![r] = v]
  PROVE  ChosenPorts' /\ PortsAreExclusive'
<1> DEFINE t == req[r].tid
           k == req[r].line
<1>1. /\ Rows' = Rows \cup {t} /\ rows'[t] = row
      /\ \A u \in Rows : rows'[u] = rows[u] /\ u # t
  BY DEF With, Rows
<1>2. \A s \in Requests : req'[s] = IF s = r THEN v ELSE req[s]
  BY DEF TypeOK
<1>3. k \in Own => \A u \in Rows : rows[u].line = k => rows[u].port # row.port
  BY DEF ChosenPorts, Inserting, FreePorts, UsedPorts, RowsOf
<1>4. PortsAreExclusive'
  BY <1>1, <1>3 DEF PortsAreExclusive
<1>5. \A l \in Own : l # k => FreePorts(l)' = FreePorts(l)
  BY <1>1 DEF FreePorts, UsedPorts, RowsOf, PortsOf
<1>6. ChosenPorts'
  BY <1>2, <1>5 DEF ChosenPorts, Inserting
<1> QED
  BY <1>4, <1>6

-----------------------------------------------------------------------------
(* Preservation *)

LEMMA PortsPreserved == IInv /\ Serial /\ [Next]_vars => ChosenPorts' /\ PortsAreExclusive'
<1> SUFFICES ASSUME IInv, Serial, [Next]_vars PROVE ChosenPorts' /\ PortsAreExclusive'
  OBVIOUS
<1> DEFINE Safe == ChosenPorts' /\ PortsAreExclusive'
<1>0. TypeOK /\ SentTunnels /\ ChosenPorts /\ PortsAreExclusive
  BY DEF IInv
<1>1. KeepsPorts /\ NoneChooses => Safe
  BY <1>0, FewerRows
<1> HIDE DEF Safe
\* A handler that has been sent on, with a table as before or smaller.
<1>2. ASSUME NEW r \in Requests, NEW i, NEW l, NEW t, NEW p, BindTunnel(r, i, l, p) PROVE Safe
  <2>1. PICK u \in RowsOf(l) :
          /\ rows' = [rows EXCEPT ![u].inst = i, ![u].local = p, ![u].status = "pending"]
          /\ Begin(r, "bind", "apply", i, l, u, p)
    BY <1>2 DEF BindTunnel
  <2> QED
    BY <1>0, <1>1, <2>1, RowsKeepPorts, RequestMoves DEF Begin
<1>3. ASSUME NEW r \in Requests, NEW op, NEW i, NEW l, NEW port, NEW p, Choose(r, op, i, l, port, p),
             l \in Own => port \in FreePorts(l)
      PROVE  Safe
  <2> DEFINE v == [op |-> op, pc |-> "insert", inst |-> i, line |-> l,
                   tid |-> TunnelId(i, port), port |-> port, local |-> p,
                   todo |-> {}, want |-> 0, who |-> Admin, by |-> r]
  <2>1. req' = [req EXCEPT ![r] = v] /\ UNCHANGED rows /\ ~Choosing(l)
    BY <1>3 DEF Choose, MayChoose, table
  <2>2. v.line = l /\ v.port = port
    OBVIOUS
  <2> HIDE DEF v
  <2> QED
    BY <1>0, <1>3, <2>1, <2>2, PortChosen DEF Safe
<1>4. ASSUME NEW r \in Requests, CreateTunnel(r) \/ AddInstancePort(r) PROVE Safe
  <2>1. PICK i \in Insts, l \in Lines, p \in LocalPorts :
          \/ BindTunnel(r, i, l, p)
          \/ l \in Direct /\ \E op : Choose(r, op, i, l, p, p)
          \/ l \in Own /\ \E op : \E port \in FreePorts(l) : Choose(r, op, i, l, port, p)
    BY <1>4, ChosenPortIsFree DEF CreateTunnel, AddInstancePort
  <2>2. l \in Direct => l \notin Own
    BY TunnelsAssumption
  <2> QED
    BY <1>2, <1>3, <2>1, <2>2
<1>5. ASSUME NEW r \in Requests, InsertRow(r) PROVE Safe
  <2> DEFINE q == req[r]
             sent == q.op # "create" \/ q.line \notin Direct
             row == [inst |-> q.inst, line |-> q.line, port |-> q.port,
                     local |-> q.local, by |-> r,
                     status |-> IF sent THEN "pending" ELSE "direct"]
  <2>1. q.pc = "insert"
    BY <1>5 DEF InsertRow
  <2>2. CASE q.tid \in Rows
    <3>1. UNCHANGED rows /\ (Goto(r, "provision") \/ Finish(r))
      BY <1>5, <2>2 DEF InsertRow
    <3> QED
      BY <1>0, <1>1, <3>1, RowsKeepPorts, RequestMoves
  <2>3. CASE q.tid \notin Rows
    <3>1. rows' = With(q.tid, row) /\ (Goto(r, "apply") \/ Finish(r))
      BY <1>5, <2>3 DEF InsertRow
    <3>2. row.line = q.line /\ row.port = q.port
      OBVIOUS
    <3>3. PICK v : v.pc # "insert" /\ req' = [req EXCEPT ![r] = v]
      <4>1. Goto(r, "apply") => req' = [req EXCEPT ![r] = [req[r] EXCEPT !.pc = "apply"]]
        BY DEF Goto
      <4>2. [req[r] EXCEPT !.pc = "apply"].pc = "apply"
        BY <1>0, PlaceHasPc
      <4>3. Finish(r) => req' = [req EXCEPT ![r] = [pc |-> "done"]]
        BY DEF Finish
      <4> QED
        BY <3>1, <4>1, <4>2, <4>3
    <3> HIDE DEF row
    <3> QED
      BY <1>0, <2>1, <2>3, <3>1, <3>2, <3>3, RowInserted DEF Safe
  <2> QED
    BY <2>2, <2>3
<1>6. ASSUME NEW r \in Requests, ReapplyTunnel(r) \/ UpdateInstancePort(r) PROVE Safe
  <2>1. PICK t \in Rows : \E op, p :
          /\ UNCHANGED rows \/ rows' = [rows EXCEPT ![t].local = p]
          /\ Begin(r, op, "apply", rows[t].inst, rows[t].line, t, p)
    BY <1>6 DEF ReapplyTunnel, UpdateInstancePort, table
  <2>2. PICK op, p :
          /\ UNCHANGED rows \/ rows' = [rows EXCEPT ![t].local = p]
          /\ Begin(r, op, "apply", rows[t].inst, rows[t].line, t, p)
    BY <2>1
  <2> QED
    BY <1>0, <1>1, <2>2, RowsKeepPorts, RequestMoves DEF Begin
<1>7. ASSUME NEW r \in Requests, ApplyOnNode(r) PROVE Safe
  <2>1. UNCHANGED rows /\ (Goto(r, "confirm") \/ Goto(r, "failed"))
    BY <1>7 DEF ApplyOnNode, table
  <2> QED
    BY <1>0, <1>1, <2>1, RowsKeepPorts, RequestMoves
<1>8. ASSUME NEW r \in Requests, StoreStatus(r) PROVE Safe
  <2>1. /\ UNCHANGED rows \/ \E t, s : rows' = [rows EXCEPT ![t].status = s]
        /\ Goto(r, "provision") \/ Finish(r)
    BY <1>8 DEF StoreStatus
  <2> QED
    BY <1>0, <1>1, <2>1, RowsKeepPorts, RequestMoves
<1>9. ASSUME NEW r \in Requests, CloseInstancePort(r) PROVE Safe
  <2>1. PICK t \in Rows :
          /\ \/ rows' = [rows EXCEPT ![t].inst = Unbound, ![t].status = "imported"]
             \/ rows' = Without({t})
          /\ req' = [req EXCEPT ![r] = [op |-> "close", pc |-> "remove", inst |-> rows[t].inst,
                                        line |-> rows[t].line, tid |-> t,
                                        todo |-> {<<rows[t].inst, t>>}]]
    BY <1>9 DEF CloseInstancePort
  <2> QED
    BY <1>0, <1>1, <2>1, RowsKeepPorts, RequestMoves
<1>10. ASSUME NEW r \in Requests, DeleteTunnel(r) \/ DeleteFrps(r) \/ CreateInstance(r) PROVE Safe
  <2>1. UNCHANGED rows
    BY <1>10 DEF DeleteTunnel, DeleteFrps, CreateInstance, table
  <2>2. \E v : v.pc # "insert" /\ req' = [req EXCEPT ![r] = v]
    <3>1. CASE DeleteTunnel(r)
      BY <3>1 DEF DeleteTunnel
    <3>2. CASE DeleteFrps(r)
      BY <3>2 DEF DeleteFrps
    <3>3. CASE CreateInstance(r)
      BY <3>3 DEF CreateInstance
    <3> QED
      BY <1>10, <3>1, <3>2, <3>3
  <2> QED
    BY <1>0, <1>1, <2>1, <2>2, RowsKeepPorts, RequestMoves
<1>11. ASSUME NEW r \in Requests, RemoveOnNode(r) PROVE Safe
  <2>1. UNCHANGED rows /\ req[r].pc = "remove"
    BY <1>11 DEF RemoveOnNode, table
  <2>2. PICK T : req' = [req EXCEPT ![r] = [req[r] EXCEPT !.todo = T]]
    BY <1>11 DEF RemoveOnNode
  <2>3. [req[r] EXCEPT !.todo = T].pc = "remove"
    BY <2>1
  <2> QED
    BY <1>0, <1>1, <2>1, <2>2, <2>3, RowsKeepPorts, RequestMoves
<1>12. ASSUME NEW r \in Requests, DeleteRows(r) PROVE Safe
  <2>1. req[r].op \in {"close", "delete", "delete_frps"}
    BY <1>0, <1>12 DEF DeleteRows, TypeOK, Places, Serving, Deleting, Removing
  <2>2. Finish(r) /\ (UNCHANGED rows \/ \E T : rows' = Without(T))
    BY <1>12, <2>1 DEF DeleteRows
  <2> QED
    BY <1>0, <1>1, <2>2, RowsKeepPorts, RequestMoves
<1>13. ASSUME NEW r \in Requests,
              \/ CreateOnNode(r) \/ EnlistInstance(r) \/ UnregisterOnNode(r) \/ SetPortGrant(r)
              \/ SetAssignment(r)
       PROVE Safe
  <2>1. UNCHANGED rows /\ \/ Goto(r, "enlist") \/ Goto(r, "provision") \/ Goto(r, "forget")
                          \/ Finish(r)
    BY <1>13 DEF CreateOnNode, EnlistInstance, UnregisterOnNode, SetPortGrant, SetAssignment, table
  <2> QED
    BY <1>0, <1>1, <2>1, RowsKeepPorts, RequestMoves
<1>14. ASSUME NEW r \in Requests, ProvisionPort(r) PROVE Safe
  <2> DEFINE q == req[r]
             w == [q EXCEPT !.want = @ - 1]
             v == [q EXCEPT !.want = @ - 1, !.pc = "insert", !.port = ChosenPort(q.line),
                            !.tid = TunnelId(q.inst, ChosenPort(q.line))]
  <2>1. q.pc = "provision" /\ UNCHANGED rows
    BY <1>14 DEF ProvisionPort, table
  <2>2. q \in Serving
    BY <1>0, <2>1 DEF TypeOK, Places, Deleting, Removing
  <2>3. \/ Finish(r)
        \/ req' = [req EXCEPT ![r] = w]
        \/ /\ FreePorts(q.line) # {} /\ ~Choosing(q.line)
           /\ req' = [req EXCEPT ![r] = v]
    BY <1>14 DEF ProvisionPort, MayChoose
  <2>4. w.pc = "provision" /\ v.line = q.line /\ v.port = ChosenPort(q.line) /\ q.line \in Lines
    BY <2>1, <2>2 DEF Serving
  <2>5. CASE Finish(r) \/ req' = [req EXCEPT ![r] = w]
    BY <1>0, <1>1, <2>1, <2>4, <2>5, RowsKeepPorts, RequestMoves
  <2>6. CASE FreePorts(q.line) # {} /\ ~Choosing(q.line) /\ req' = [req EXCEPT ![r] = v]
    <3>1. v.port \in FreePorts(v.line) /\ ~Choosing(v.line)
      BY <2>4, <2>6, ChosenPortIsFree
    <3> HIDE DEF v
    <3> QED
      BY <1>0, <2>1, <2>6, <3>1, PortChosen DEF Safe
  <2> QED
    BY <2>3, <2>5, <2>6
<1>15. ASSUME NEW r \in Requests, DeleteInstance(r) PROVE Safe
  <2>1. UNCHANGED rows /\ \E i : Begin(r, "delete_instance", "unregister", i, <<>>, <<>>, 0)
    BY <1>15 DEF DeleteInstance, table
  <2> QED
    BY <1>0, <1>1, <2>1, RowsKeepPorts, RequestMoves DEF Begin
<1>16. ASSUME NEW r \in Requests, ForgetInstance(r) PROVE Safe
  <2>1. Finish(r) /\ \E T : rows' = Without(T)
    BY <1>16 DEF ForgetInstance
  <2> QED
    BY <1>0, <1>1, <2>1, RowsKeepPorts, RequestMoves
<1>17. ASSUME NEW l \in Lines, CreateFrps(l) PROVE Safe
  <2>1. UNCHANGED rows /\ UNCHANGED req
    BY <1>17 DEF CreateFrps
  <2> QED
    BY <1>0, <1>1, <2>1, RowsKeepPorts DEF NoneChooses, Inserting
\* An imported line is none of the operator's.
<1>18. ASSUME NEW l \in Lines, ImportFrps(l) PROVE Safe
  <2> DEFINE t == ImportedId(l)
  <2>1. l \notin Own /\ UNCHANGED req
    BY <1>18, TunnelsAssumption DEF ImportFrps
  <2>2. Rows' = Rows \cup {t} /\ rows'[t].line = l /\ \A u \in Rows \ {t} : rows'[u] = rows[u]
    BY <1>18 DEF ImportFrps, With, Rows
  <2>3. PortsAreExclusive'
    BY <1>0, <2>1, <2>2 DEF PortsAreExclusive
  <2>4. \A k \in Own : FreePorts(k) \subseteq FreePorts(k)'
    BY <2>1, <2>2 DEF FreePorts, UsedPorts, RowsOf, PortsOf
  <2>5. ChosenPorts'
    BY <1>0, <2>1, <2>4 DEF ChosenPorts, Inserting
  <2> QED
    BY <2>3, <2>5 DEF Safe
<1>19. ASSUME UNCHANGED vars PROVE Safe
  <2>1. UNCHANGED rows /\ UNCHANGED req
    BY <1>19 DEF vars, table
  <2> QED
    BY <1>0, <1>1, <2>1, RowsKeepPorts DEF NoneChooses, Inserting
<1>20. ASSUME NEW r \in Requests, Handler(r) PROVE Safe
  BY <1>4, <1>5, <1>6, <1>7, <1>8, <1>9, <1>10, <1>11, <1>12, <1>13, <1>14, <1>15, <1>16, <1>20
  DEF Handler
<1>21. Safe
  BY <1>17, <1>18, <1>19, <1>20 DEF Next
<1> QED
  BY <1>21 DEF Safe

-----------------------------------------------------------------------------
(* Types *)

RowsOK == Rows \subseteq TunnelIds /\ rows \in [Rows -> Row]
PlacesOK == req \in [Requests -> Places] /\ SentTunnels
OthersOK ==
  /\ lines \in [Lines -> {"none", "up", "gone"}]
  /\ listed \in [Insts -> {NoRow, Admin} \cup Users]
  /\ quota \in [Users \X Own -> 0..MaxQuota]
  /\ hosted \subseteq Insts
  /\ carried \in [Insts -> SUBSET [tid : TunnelIds, local : LocalPorts]]
  /\ stray \subseteq Insts \X TunnelIds

LEMMA TypeParts == TypeOK /\ SentTunnels <=> RowsOK /\ PlacesOK /\ OthersOK
BY DEF TypeOK, RowsOK, PlacesOK, OthersOK

LEMMA RowsStayOK ==
  ASSUME RowsOK
  PROVE  /\ UNCHANGED rows => RowsOK'
         /\ \A T : rows' = Without(T) => RowsOK'
         /\ \A t \in TunnelIds, row \in Row : rows' = With(t, row) => RowsOK'
         /\ \A t \in Rows, row \in Row : rows' = [rows EXCEPT ![t] = row] => RowsOK'
<1>1. UNCHANGED rows => RowsOK'
  BY DEF RowsOK, Rows
<1>2. ASSUME NEW T, rows' = Without(T) PROVE RowsOK'
  BY <1>2 DEF RowsOK, Rows, Without
<1>3. ASSUME NEW t \in TunnelIds, NEW row \in Row, rows' = With(t, row) PROVE RowsOK'
  BY <1>3 DEF RowsOK, Rows, With
<1>4. ASSUME NEW t \in Rows, NEW row \in Row, rows' = [rows EXCEPT ![t] = row] PROVE RowsOK'
  BY <1>4 DEF RowsOK, Rows
<1> QED
  BY <1>1, <1>2, <1>3, <1>4

SentPcs == {"insert", "apply", "confirm", "failed"}

LEMMA PlaceTaken ==
  ASSUME PlacesOK, NEW r \in Requests, NEW v \in Places,
         v.pc \in SentPcs => v.tid \in TunnelIds, req' = [req EXCEPT ![r] = v]
  PROVE  PlacesOK'
<1>1. req' \in [Requests -> Places] /\ \A s \in Requests : req'[s] = IF s = r THEN v ELSE req[s]
  BY DEF PlacesOK
<1> QED
  BY <1>1 DEF PlacesOK, SentTunnels, SentPcs

LEMMA RequestEnds ==
  ASSUME PlacesOK, NEW r \in Requests, Finish(r)
  PROVE  PlacesOK'
<1>1. [pc |-> "done"] \in Places /\ [pc |-> "done"].pc \notin SentPcs
  BY DEF Places, SentPcs
<1> QED
  BY <1>1, PlaceTaken DEF Finish

\* A request that serves a tunnel goes on serving it.
LEMMA ServingGoesOn ==
  ASSUME PlacesOK, NEW r \in Requests, req[r] \in Serving,
         NEW pc \in {"enlist", "provision", "apply", "confirm", "failed"},
         pc \in SentPcs => req[r].pc \in SentPcs, Goto(r, pc)
  PROVE  PlacesOK'
<1> DEFINE v == [req[r] EXCEPT !.pc = pc]
<1>1. v \in Serving /\ v.pc = pc /\ v.tid = req[r].tid
  BY DEF Serving
<1>2. v \in Places
  BY <1>1 DEF Places
<1>3. pc \in SentPcs => v.tid \in TunnelIds
  BY <1>1 DEF PlacesOK, SentTunnels, SentPcs
<1>4. req' = [req EXCEPT ![r] = v]
  BY DEF Goto
<1> HIDE DEF v
<1> QED
  BY <1>1, <1>2, <1>3, <1>4, PlaceTaken

\* Where a request stands tells what it serves.
LEMMA WhoServes ==
  ASSUME PlacesOK, NEW r \in Requests
  PROVE  /\ req[r].pc \in {"create", "enlist", "provision", "insert", "apply", "confirm", "failed"}
              => req[r] \in Serving
         /\ req[r].pc \in SentPcs => req[r].tid \in TunnelIds
         /\ req[r].pc \in {"unregister", "forget"} => req[r] \in Deleting
         /\ req[r].pc = "remove" => req[r] \in Removing
<1>1. req[r] \in Places
  BY DEF PlacesOK
<1>2. req[r] \in [pc : {"new", "done"}] => req[r].pc \in {"new", "done"}
  OBVIOUS
<1>3. req[r] \in Serving
        => req[r].pc \in {"create", "enlist", "provision", "insert", "apply", "confirm", "failed"}
  BY DEF Serving
<1>4. req[r] \in Deleting => req[r].pc \in {"unregister", "forget"}
  BY DEF Deleting
<1>5. req[r] \in Removing => req[r].pc = "remove"
  BY DEF Removing
<1>6. req[r].pc \in SentPcs => req[r].tid \in TunnelIds
  BY DEF PlacesOK, SentTunnels, SentPcs
<1> QED
  BY <1>1, <1>2, <1>3, <1>4, <1>5, <1>6 DEF Places

LEMMA TunnelIdIsOne ==
  ASSUME NEW i \in Insts, NEW p \in Segment \cup LocalPorts \cup {0}
  PROVE  TunnelId(i, p) \in TunnelIds
BY DEF TunnelIds

\* A request that starts to serve a tunnel of the table.
LEMMA ServingBegins ==
  ASSUME PlacesOK, RowsOK, NEW r \in Requests, NEW i \in Insts, NEW t \in Rows, NEW p \in LocalPorts,
         NEW op \in {"bind", "reapply", "update"}, Begin(r, op, "apply", i, rows[t].line, t, p)
  PROVE  PlacesOK'
<1> DEFINE v == [op |-> op, pc |-> "apply", inst |-> i, line |-> rows[t].line, tid |-> t, port |-> 0,
                 local |-> p, todo |-> {}, want |-> 0, who |-> Admin,
                 by |-> IF t \in Rows THEN rows[t].by ELSE r]
<1>1. rows[t] \in Row /\ t \in TunnelIds
  BY DEF RowsOK
<1>2. rows[t].line \in Lines /\ rows[t].by \in Requests \cup {"import"}
  BY <1>1 DEF Row
<1>3. v \in Serving
  BY <1>1, <1>2, TunnelsAssumption DEF Serving, Ports
<1>4. v \in Places /\ v.tid \in TunnelIds
  BY <1>1, <1>3 DEF Places
<1>5. req' = [req EXCEPT ![r] = v]
  BY DEF Begin
<1> HIDE DEF v
<1> QED
  BY <1>4, <1>5, PlaceTaken

LEMMA TypePreserved == TypeOK /\ SentTunnels /\ [Next]_vars => TypeOK' /\ SentTunnels'
<1> SUFFICES ASSUME TypeOK, SentTunnels, [Next]_vars PROVE TypeOK' /\ SentTunnels'
  OBVIOUS
<1>0. RowsOK /\ PlacesOK /\ OthersOK
  BY TypeParts
<1> DEFINE Good == RowsOK' /\ PlacesOK' /\ OthersOK'
<1>1. SUFFICES Good
  BY DEF TypeOK, RowsOK, PlacesOK, OthersOK
<1>2. ASSUME UNCHANGED <<lines, listed, quota, node, stray>> PROVE OthersOK'
  BY <1>0, <1>2 DEF OthersOK, node
<1>3. ASSUME UNCHANGED rows PROVE RowsOK'
  BY <1>0, <1>3, RowsStayOK
<1>4. ASSUME NEW r \in Requests, NEW i \in Insts, NEW l \in Lines, NEW p \in LocalPorts,
             BindTunnel(r, i, l, p)
      PROVE  Good
  <2>1. PICK t \in RowsOf(l) :
          /\ rows' = [rows EXCEPT ![t].inst = i, ![t].local = p, ![t].status = "pending"]
          /\ Begin(r, "bind", "apply", i, l, t, p)
          /\ stray' = stray \cup ({rows[t].inst} \ {i, Unbound}) \X {t}
          /\ UNCHANGED <<lines, listed, quota, node>>
    BY <1>4 DEF BindTunnel
  <2> DEFINE row == [rows[t] EXCEPT !.inst = i, !.local = p, !.status = "pending"]
  <2>2. t \in Rows /\ rows[t].line = l /\ rows[t] \in Row /\ t \in TunnelIds
    BY <1>0 DEF RowsOf, RowsOK
  <2>3. row \in Row /\ rows[t].inst \in Insts \cup {Unbound}
    BY <2>2 DEF Row, Statuses
  <2>4. rows' = [rows EXCEPT ![t] = row]
    BY <2>1
  <2>5. RowsOK'
    <3> HIDE DEF row
    <3> QED
      BY <1>0, <2>2, <2>3, <2>4, RowsStayOK
  <2>6. PlacesOK'
    BY <1>0, <2>1, <2>2, ServingBegins
  <2>7. stray' \subseteq Insts \X TunnelIds
    BY <1>0, <2>1, <2>2, <2>3 DEF OthersOK
  <2>8. OthersOK'
    BY <1>0, <2>1, <2>7 DEF OthersOK, node
  <2> QED
    BY <2>5, <2>6, <2>8
<1>5. ASSUME NEW r \in Requests, NEW op \in {"create", "add"}, NEW i \in Insts, NEW l \in Lines,
             NEW port \in Segment \cup LocalPorts \cup {0}, NEW p \in LocalPorts,
             Choose(r, op, i, l, port, p)
      PROVE  Good
  <2> DEFINE v == [op |-> op, pc |-> "insert", inst |-> i, line |-> l,
                   tid |-> TunnelId(i, port), port |-> port, local |-> p,
                   todo |-> {}, want |-> 0, who |-> Admin, by |-> r]
  <2>1. req' = [req EXCEPT ![r] = v] /\ UNCHANGED <<table, node, stray>>
    BY <1>5 DEF Choose
  <2>2. v \in Serving /\ v.tid \in TunnelIds
    BY TunnelIdIsOne, TunnelsAssumption DEF Serving, Ports
  <2>3. PlacesOK'
    <3>1. v \in Places
      BY <2>2 DEF Places
    <3> HIDE DEF v
    <3> QED
      BY <1>0, <2>1, <2>2, <3>1, PlaceTaken
  <2> QED
    BY <1>2, <1>3, <2>1, <2>3 DEF table
<1>6. ASSUME NEW r \in Requests, CreateTunnel(r) \/ AddInstancePort(r) PROVE Good
  <2>1. PICK i \in Insts, l \in Lines, p \in LocalPorts :
          \/ BindTunnel(r, i, l, p)
          \/ \E op \in {"create", "add"} : Choose(r, op, i, l, p, p)
          \/ \E op \in {"create", "add"}, port \in Segment \cup {0} : Choose(r, op, i, l, port, p)
    <3>1. \A l \in Lines : FreePorts(l) \subseteq Segment \cup {0}
      BY DEF FreePorts, PortsOf
    <3> QED
      BY <1>6, <3>1, ChosenPortIsFree DEF CreateTunnel, AddInstancePort
  <2> QED
    BY <1>4, <1>5, <2>1
<1>7. ASSUME NEW r \in Requests, InsertRow(r) PROVE Good
  <2> DEFINE q == req[r]
             sent == q.op # "create" \/ q.line \notin Direct
             row == [inst |-> q.inst, line |-> q.line, port |-> q.port,
                     local |-> q.local, by |-> r,
                     status |-> IF sent THEN "pending" ELSE "direct"]
  <2>1. q.pc = "insert" /\ q \in Serving /\ q.tid \in TunnelIds
    BY <1>0, <1>7, WhoServes DEF InsertRow, SentPcs
  <2>2. row \in Row
    BY <2>1 DEF Serving, Row, Statuses
  <2>3. \/ UNCHANGED rows
        \/ rows' = With(q.tid, row)
    BY <1>7 DEF InsertRow
  <2>4. RowsOK'
    <3> HIDE DEF row
    <3> QED
      BY <1>0, <2>1, <2>2, <2>3, RowsStayOK
  <2>5. Goto(r, "provision") \/ Goto(r, "apply") \/ Finish(r)
    BY <1>7 DEF InsertRow
  <2>6. PlacesOK'
    BY <1>0, <2>1, <2>5, ServingGoesOn, RequestEnds DEF SentPcs
  <2> QED
    BY <1>2, <1>7, <2>4, <2>6 DEF InsertRow
<1>8. ASSUME NEW r \in Requests, ReapplyTunnel(r) PROVE Good
  <2>1. PICK t \in Rows :
          /\ rows[t].inst # Unbound
          /\ Begin(r, "reapply", "apply", rows[t].inst, rows[t].line, t, rows[t].local)
    BY <1>8 DEF ReapplyTunnel
  <2>2. rows[t].inst \in Insts /\ rows[t].local \in LocalPorts
    BY <1>0, <2>1 DEF RowsOK, Row
  <2>3. PlacesOK'
    BY <1>0, <2>1, <2>2, ServingBegins
  <2> QED
    BY <1>2, <1>3, <1>8, <2>3 DEF ReapplyTunnel, table
<1>9. ASSUME NEW r \in Requests, UpdateInstancePort(r) PROVE Good
  <2>1. PICK t \in Rows, p \in LocalPorts :
          /\ rows[t].inst # Unbound
          /\ rows' = [rows EXCEPT ![t].local = p]
          /\ Begin(r, "update", "apply", rows[t].inst, rows[t].line, t, p)
    BY <1>9 DEF UpdateInstancePort
  <2> DEFINE row == [rows[t] EXCEPT !.local = p]
  <2>2. rows[t].inst \in Insts /\ row \in Row
    BY <1>0, <2>1 DEF RowsOK, Row
  <2>3. rows' = [rows EXCEPT ![t] = row]
    BY <2>1
  <2>4. RowsOK'
    <3> HIDE DEF row
    <3> QED
      BY <1>0, <2>2, <2>3, RowsStayOK
  <2>5. PlacesOK'
    BY <1>0, <2>1, <2>2, ServingBegins
  <2> QED
    BY <1>2, <1>9, <2>4, <2>5 DEF UpdateInstancePort
<1>10. ASSUME NEW r \in Requests, ApplyOnNode(r) PROVE Good
  <2> DEFINE q == req[r]
             after == [carried EXCEPT ![q.inst] = {c \in @ : c.tid # q.tid}
                                                    \cup {[tid |-> q.tid, local |-> q.local]}]
  <2>1. q.pc = "apply" /\ q \in Serving /\ q.tid \in TunnelIds
    BY <1>0, <1>10, WhoServes DEF ApplyOnNode, SentPcs
  <2>2. q.inst \in Insts /\ q.local \in LocalPorts
    BY <2>1 DEF Serving
  <2>3. /\ carried' = carried \/ carried' = after
        /\ Goto(r, "confirm") \/ Goto(r, "failed")
        /\ UNCHANGED <<table, hosted, stray>>
    BY <1>10 DEF ApplyOnNode
  <2>4. carried' \in [Insts -> SUBSET [tid : TunnelIds, local : LocalPorts]]
    BY <1>0, <2>1, <2>2, <2>3 DEF OthersOK
  <2>5. PlacesOK'
    BY <1>0, <2>1, <2>3, ServingGoesOn DEF SentPcs
  <2>6. OthersOK'
    BY <1>0, <2>3, <2>4 DEF OthersOK, table
  <2> QED
    BY <1>3, <2>3, <2>5, <2>6 DEF table
<1>11. ASSUME NEW r \in Requests, StoreStatus(r) PROVE Good
  <2> DEFINE q == req[r]
  <2>1. q.pc \in {"confirm", "failed"} /\ q \in Serving /\ q.tid \in TunnelIds
    BY <1>0, <1>11, WhoServes DEF StoreStatus, SentPcs
  <2>2. \/ UNCHANGED rows
        \/ q.tid \in Rows /\ \E s \in Statuses : rows' = [rows EXCEPT ![q.tid].status = s]
    <3> DEFINE found == q.tid \in Rows /\ (q.op \in {"create", "reapply"} => rows[q.tid].by = q.by)
               lists == listed[q.inst] # NoRow /\ \E c \in carried[q.inst] : c.tid = q.tid
               S == IF q.pc = "failed" THEN {"error"}
                    ELSE {"unknown"} \cup (IF lists THEN {"live"} ELSE {})
    <3>1. \E s \in S : rows' = IF found THEN [rows EXCEPT ![q.tid].status = s] ELSE rows
      BY <1>11 DEF StoreStatus
    <3> HIDE DEF lists
    <3>2. S \subseteq Statuses
      BY DEF Statuses
    <3>3. found => q.tid \in Rows
      OBVIOUS
    <3> HIDE DEF S, found
    <3> QED
      BY <3>1, <3>2, <3>3
  <2>3. ASSUME q.tid \in Rows, NEW s \in Statuses, rows' = [rows EXCEPT ![q.tid].status = s]
        PROVE  RowsOK'
    <3> DEFINE row == [rows[q.tid] EXCEPT !.status = s]
    <3>1. row \in Row
      BY <1>0, <2>3 DEF RowsOK, Row
    <3>2. rows' = [rows EXCEPT ![q.tid] = row]
      BY <2>3
    <3> HIDE DEF row
    <3> QED
      BY <1>0, <2>3, <3>1, <3>2, RowsStayOK
  <2>4. Goto(r, "provision") \/ Finish(r)
    BY <1>11 DEF StoreStatus
  <2>5. PlacesOK'
    BY <1>0, <2>1, <2>4, ServingGoesOn, RequestEnds DEF SentPcs
  <2> QED
    BY <1>2, <1>3, <1>11, <2>2, <2>3, <2>5 DEF StoreStatus
<1>12. ASSUME NEW r \in Requests, CloseInstancePort(r) PROVE Good
  <2>1. PICK t \in Rows :
          /\ rows[t].inst # Unbound
          /\ \/ rows' = [rows EXCEPT ![t].inst = Unbound, ![t].status = "imported"]
             \/ rows' = Without({t})
          /\ req' = [req EXCEPT ![r] = [op |-> "close", pc |-> "remove", inst |-> rows[t].inst,
                                        line |-> rows[t].line, tid |-> t,
                                        todo |-> {<<rows[t].inst, t>>}]]
    BY <1>12 DEF CloseInstancePort
  <2> DEFINE row == [rows[t] EXCEPT !.inst = Unbound, !.status = "imported"]
             v == [op |-> "close", pc |-> "remove", inst |-> rows[t].inst,
                   line |-> rows[t].line, tid |-> t, todo |-> {<<rows[t].inst, t>>}]
  <2>2. rows[t] \in Row /\ t \in TunnelIds /\ rows[t].inst \in Insts /\ rows[t].line \in Lines
    BY <1>0, <2>1 DEF RowsOK, Row
  <2>3. row \in Row
    BY <2>2 DEF Row, Statuses
  <2>4. rows' = [rows EXCEPT ![t] = row] \/ rows' = Without({t})
    BY <2>1
  <2>5. RowsOK'
    <3> HIDE DEF row
    <3> QED
      BY <1>0, <2>3, <2>4, RowsStayOK
  <2>6. v \in Removing /\ v.pc \notin SentPcs
    BY <2>2 DEF Removing, Sendings, SentPcs
  <2>7. PlacesOK'
    <3>1. v \in Places
      BY <2>6 DEF Places
    <3> HIDE DEF v
    <3>2. req' = [req EXCEPT ![r] = v]
      BY <2>1 DEF v
    <3> QED
      BY <1>0, <2>6, <3>1, <3>2, PlaceTaken
  <2> QED
    BY <1>2, <1>12, <2>5, <2>7 DEF CloseInstancePort
<1>13. ASSUME NEW r \in Requests, DeleteTunnel(r) PROVE Good
  <2>1. PICK t \in Rows :
          req' = [req EXCEPT ![r] = [op |-> "delete", pc |-> "remove", inst |-> rows[t].inst,
                                     line |-> rows[t].line, tid |-> t, by |-> rows[t].by,
                                     todo |-> {<<rows[t].inst, t>>}]]
    BY <1>13 DEF DeleteTunnel
  <2> DEFINE v == [op |-> "delete", pc |-> "remove", inst |-> rows[t].inst,
                   line |-> rows[t].line, tid |-> t, by |-> rows[t].by,
                   todo |-> {<<rows[t].inst, t>>}]
  <2>2. rows[t] \in Row /\ t \in TunnelIds
    BY <1>0, <2>1 DEF RowsOK
  <2>3. v \in Removing /\ v.pc \notin SentPcs
    BY <2>2 DEF Row, Removing, Sendings, SentPcs
  <2>4. v \in Places /\ req' = [req EXCEPT ![r] = v]
    BY <2>1, <2>3 DEF Places
  <2> HIDE DEF v
  <2>5. PlacesOK'
    BY <1>0, <2>3, <2>4, PlaceTaken
  <2> QED
    BY <1>2, <1>3, <1>13, <2>5 DEF DeleteTunnel, table
<1>14. ASSUME NEW r \in Requests, DeleteFrps(r) PROVE Good
  <2>1. PICK l \in Lines :
          req' = [req EXCEPT ![r] = [op |-> "delete_frps", pc |-> "remove", inst |-> Unbound,
                                     line |-> l, tid |-> <<>>,
                                     todo |-> {<<rows[t].inst, t>> : t \in RowsOf(l)}]]
    BY <1>14 DEF DeleteFrps
  <2> DEFINE S == {<<rows[t].inst, t>> : t \in RowsOf(l)}
             v == [op |-> "delete_frps", pc |-> "remove", inst |-> Unbound, line |-> l,
                   tid |-> <<>>, todo |-> S]
  <2>2. S \in Sendings
    BY <1>0 DEF RowsOf, RowsOK, Row, Sendings
  <2>3. v \in Removing /\ v.pc \notin SentPcs
    BY <2>2 DEF Removing, SentPcs
  <2>4. v \in Places /\ req' = [req EXCEPT ![r] = v]
    BY <2>1, <2>3 DEF Places
  <2> HIDE DEF v
  <2>5. PlacesOK'
    BY <1>0, <2>3, <2>4, PlaceTaken
  <2> QED
    BY <1>2, <1>3, <1>14, <2>5 DEF DeleteFrps, table
<1>15. ASSUME NEW r \in Requests, RemoveOnNode(r) PROVE Good
  <2>1. req[r] \in Removing
    BY <1>0, <1>15, WhoServes DEF RemoveOnNode
  <2>2. PICK x \in req[r].todo :
          /\ req' = [req EXCEPT ![r].todo = @ \ {x}]
          /\ \/ x[1] # Unbound /\ carried' = [carried EXCEPT ![x[1]] = {c \in @ : c.tid # x[2]}]
                /\ stray' = stray
             \/ x[1] # Unbound /\ carried' = carried /\ stray' = stray \cup {<<x[1], x[2]>>}
             \/ UNCHANGED <<carried, stray>>
    BY <1>15 DEF RemoveOnNode
  <2>3. req[r].todo \in Sendings
    BY <2>1 DEF Removing
  <2>4. x[1] \in Insts \cup {Unbound} /\ x[2] \in TunnelIds
    BY <2>3 DEF Sendings
  <2> DEFINE T == req[r].todo \ {x}
             v == [req[r] EXCEPT !.todo = T]
  <2>5. T \in Sendings
    BY <2>3 DEF Sendings
  <2> HIDE DEF T
  <2>6. v \in Removing /\ v.pc \notin SentPcs
    BY <2>1, <2>5 DEF Removing, SentPcs
  <2>7. v \in Places /\ req' = [req EXCEPT ![r] = v]
    BY <2>2, <2>6 DEF Places, T
  <2>8. PlacesOK'
    <3> HIDE DEF v
    <3> QED
      BY <1>0, <2>6, <2>7, PlaceTaken
  <2>9. /\ carried' \in [Insts -> SUBSET [tid : TunnelIds, local : LocalPorts]]
        /\ stray' \subseteq Insts \X TunnelIds
    BY <1>0, <2>2, <2>4 DEF OthersOK
  <2>10. UNCHANGED <<table, hosted>>
    BY <1>15 DEF RemoveOnNode
  <2>11. OthersOK'
    BY <1>0, <2>9, <2>10 DEF OthersOK, table
  <2> QED
    BY <1>3, <2>8, <2>10, <2>11 DEF table
<1>16. ASSUME NEW r \in Requests, DeleteRows(r) PROVE Good
  <2>1. req[r] \in Removing
    BY <1>0, <1>16, WhoServes DEF DeleteRows
  <2>2. req[r].op \in {"close", "delete", "delete_frps"} /\ req[r].line \in Lines
    BY <2>1 DEF Removing
  <2>3. /\ UNCHANGED rows \/ \E T : rows' = Without(T)
        /\ lines' = [lines EXCEPT ![req[r].line] = "gone"] \/ lines' = lines
        /\ Finish(r) /\ UNCHANGED <<listed, quota, node, stray>>
    BY <1>16, <2>2 DEF DeleteRows
  <2>4. lines' \in [Lines -> {"none", "up", "gone"}]
    BY <1>0, <2>2, <2>3 DEF OthersOK
  <2>5. OthersOK'
    BY <1>0, <2>3, <2>4 DEF OthersOK, node
  <2> QED
    BY <1>0, <2>3, <2>5, RowsStayOK, RequestEnds
<1>17. ASSUME NEW r \in Requests, CreateInstance(r) PROVE Good
  <2>1. PICK i \in Insts, l \in Lines, n \in 0..MaxWant, who \in Users \cup {Admin} :
          req' = [req EXCEPT ![r] = [op |-> "create_instance", pc |-> "create", inst |-> i,
                                     line |-> l, tid |-> <<>>, port |-> 0, local |-> GamePort[i],
                                     todo |-> {}, want |-> n, who |-> who, by |-> r]]
    BY <1>17 DEF CreateInstance
  <2> DEFINE v == [op |-> "create_instance", pc |-> "create", inst |-> i, line |-> l, tid |-> <<>>,
                   port |-> 0, local |-> GamePort[i], todo |-> {}, want |-> n, who |-> who, by |-> r]
  <2>2. v \in Serving /\ v.pc \notin SentPcs
    BY TunnelsAssumption DEF Serving, Ports, SentPcs
  <2>3. v \in Places /\ req' = [req EXCEPT ![r] = v]
    BY <2>1, <2>2 DEF Places
  <2> HIDE DEF v
  <2>4. PlacesOK'
    BY <1>0, <2>2, <2>3, PlaceTaken
  <2> QED
    BY <1>2, <1>3, <1>17, <2>4 DEF CreateInstance, table
<1>18. ASSUME NEW r \in Requests, CreateOnNode(r) PROVE Good
  <2>1. req[r] \in Serving
    BY <1>0, <1>18, WhoServes DEF CreateOnNode
  <2>2. /\ hosted' = hosted \cup {req[r].inst} \/ hosted' = hosted
        /\ Goto(r, "enlist") \/ Finish(r)
        /\ UNCHANGED <<table, carried, stray>>
    BY <1>18 DEF CreateOnNode
  <2>3. hosted' \subseteq Insts
    BY <1>0, <2>1, <2>2 DEF Serving, OthersOK
  <2>4. PlacesOK'
    BY <1>0, <2>1, <2>2, ServingGoesOn, RequestEnds DEF SentPcs
  <2>5. OthersOK'
    BY <1>0, <2>2, <2>3 DEF OthersOK, table
  <2> QED
    BY <1>3, <2>2, <2>4, <2>5 DEF table
<1>19. ASSUME NEW r \in Requests, EnlistInstance(r) PROVE Good
  <2>1. req[r] \in Serving
    BY <1>0, <1>19, WhoServes DEF EnlistInstance
  <2>2. /\ listed' = [listed EXCEPT ![req[r].inst] = req[r].who] \/ listed' = listed
        /\ Goto(r, "provision") \/ Finish(r)
        /\ UNCHANGED <<lines, quota, rows, node, stray>>
    BY <1>19 DEF EnlistInstance
  <2>3. listed' \in [Insts -> {NoRow, Admin} \cup Users]
    BY <1>0, <2>1, <2>2 DEF Serving, OthersOK
  <2>4. PlacesOK'
    BY <1>0, <2>1, <2>2, ServingGoesOn, RequestEnds DEF SentPcs
  <2>5. OthersOK'
    BY <1>0, <2>2, <2>3 DEF OthersOK, node
  <2> QED
    BY <1>3, <2>2, <2>4, <2>5
<1>20. ASSUME NEW r \in Requests, ProvisionPort(r) PROVE Good
  <2> DEFINE q == req[r]
             c == ChosenPort(q.line)
             w == [q EXCEPT !.want = @ - 1]
             v == [q EXCEPT !.want = @ - 1, !.pc = "insert", !.port = c, !.tid = TunnelId(q.inst, c)]
  <2>1. q \in Serving /\ q.pc = "provision"
    BY <1>0, <1>20, WhoServes DEF ProvisionPort
  <2>2. \/ Finish(r)
        \/ q.want # 0 /\ req' = [req EXCEPT ![r] = w]
        \/ q.want # 0 /\ FreePorts(q.line) # {} /\ req' = [req EXCEPT ![r] = v]
    BY <1>20 DEF ProvisionPort
  <2>3. q.want \in 0..MaxWant /\ q.line \in Lines /\ q.inst \in Insts /\ MaxWant \in Nat
    BY <2>1, TunnelsAssumption DEF Serving
  <2>4. ASSUME q.want # 0, req' = [req EXCEPT ![r] = w] PROVE PlacesOK'
    <3>1. q.want - 1 \in 0..MaxWant
      BY <2>3, <2>4
    <3>2. w \in Serving /\ w.pc \notin SentPcs
      BY <2>1, <3>1 DEF Serving, SentPcs
    <3>3. w \in Places
      BY <3>2 DEF Places
    <3> HIDE DEF w
    <3> QED
      BY <1>0, <2>4, <3>2, <3>3, PlaceTaken
  <2>5. ASSUME q.want # 0, FreePorts(q.line) # {}, req' = [req EXCEPT ![r] = v] PROVE PlacesOK'
    <3>1. q.want - 1 \in 0..MaxWant
      BY <2>3, <2>5
    <3>2. c \in Segment \cup {0}
      BY <2>3, <2>5, ChosenPortIsFree
    <3>3. TunnelId(q.inst, c) \in TunnelIds
      BY <2>3, <3>2, TunnelIdIsOne
    <3> HIDE DEF c
    <3>4. v \in Serving /\ v.tid \in TunnelIds
      BY <2>1, <3>1, <3>2, <3>3 DEF Serving, Ports
    <3>5. v \in Places
      BY <3>4 DEF Places
    <3> HIDE DEF v
    <3> QED
      BY <1>0, <2>5, <3>4, <3>5, PlaceTaken
  <2>6. PlacesOK'
    BY <1>0, <2>2, <2>4, <2>5, RequestEnds
  <2> QED
    BY <1>2, <1>3, <1>20, <2>6 DEF ProvisionPort, table
<1>21. ASSUME NEW r \in Requests, DeleteInstance(r) PROVE Good
  <2>1. PICK i \in Insts : Begin(r, "delete_instance", "unregister", i, <<>>, <<>>, 0)
    BY <1>21 DEF DeleteInstance
  <2> DEFINE v == [op |-> "delete_instance", pc |-> "unregister", inst |-> i, line |-> <<>>,
                   tid |-> <<>>, port |-> 0, local |-> 0, todo |-> {}, want |-> 0, who |-> Admin,
                   by |-> r]
  <2>2. <<>> \notin Rows
    BY <1>0 DEF RowsOK, TunnelIds, TunnelId, ImportedId
  <2>3. req' = [req EXCEPT ![r] = v]
    BY <2>1, <2>2 DEF Begin
  <2>4. v \in Deleting /\ v.pc \notin SentPcs
    BY DEF Deleting, SentPcs
  <2>5. v \in Places
    BY <2>4 DEF Places
  <2> HIDE DEF v
  <2>6. PlacesOK'
    BY <1>0, <2>3, <2>4, <2>5, PlaceTaken
  <2> QED
    BY <1>2, <1>3, <1>21, <2>6 DEF DeleteInstance, table
<1>22. ASSUME NEW r \in Requests, UnregisterOnNode(r) PROVE Good
  <2> DEFINE q == req[r]
             v == [q EXCEPT !.pc = "forget"]
  <2>1. q \in Deleting
    BY <1>0, <1>22, WhoServes DEF UnregisterOnNode
  <2>2. /\ \/ hosted' = hosted \ {q.inst} /\ carried' = [carried EXCEPT ![q.inst] = {}]
           \/ UNCHANGED node
        /\ req' = [req EXCEPT ![r] = v] \/ Finish(r)
        /\ UNCHANGED <<table, stray>>
    BY <1>22 DEF UnregisterOnNode, Goto
  <2>3. v \in Deleting /\ v.pc \notin SentPcs
    BY <2>1 DEF Deleting, SentPcs
  <2>4. v \in Places
    BY <2>3 DEF Places
  <2>5. PlacesOK'
    <3> HIDE DEF v
    <3> QED
      BY <1>0, <2>2, <2>3, <2>4, PlaceTaken, RequestEnds
  <2>6. OthersOK'
    <3>1. hosted' \subseteq Insts
      BY <1>0, <2>2 DEF OthersOK, node
    <3>2. carried' \in [Insts -> SUBSET [tid : TunnelIds, local : LocalPorts]]
      BY <1>0, <2>2 DEF OthersOK, node
    <3> QED
      BY <1>0, <2>2, <3>1, <3>2 DEF OthersOK, table
  <2> QED
    BY <1>3, <2>2, <2>5, <2>6 DEF table
<1>23. ASSUME NEW r \in Requests, ForgetInstance(r) PROVE Good
  <2>1. /\ listed' = [listed EXCEPT ![req[r].inst] = NoRow]
        /\ \E T : rows' = Without(T)
        /\ Finish(r) /\ UNCHANGED <<lines, quota, node, stray>>
    BY <1>23 DEF ForgetInstance
  <2>2. listed' \in [Insts -> {NoRow, Admin} \cup Users]
    BY <1>0, <2>1 DEF OthersOK
  <2>3. OthersOK'
    BY <1>0, <2>1, <2>2 DEF OthersOK, node
  <2> QED
    BY <1>0, <2>1, <2>3, RowsStayOK, RequestEnds
<1>24. ASSUME NEW r \in Requests, SetPortGrant(r) PROVE Good
  <2>1. PICK u \in Users, l \in Own, n \in 0..MaxQuota : quota' = [quota EXCEPT ![<<u, l>>] = n]
    BY <1>24 DEF SetPortGrant
  <2>2. quota' \in [Users \X Own -> 0..MaxQuota]
    BY <1>0, <2>1 DEF OthersOK
  <2>3. OthersOK'
    BY <1>0, <1>24, <2>2 DEF OthersOK, SetPortGrant, node
  <2> QED
    BY <1>0, <1>3, <1>24, <2>3, RequestEnds DEF SetPortGrant
<1>25. ASSUME NEW r \in Requests, SetAssignment(r) PROVE Good
  <2>1. PICK i \in Insts, u \in Users \cup {Admin} : listed' = [listed EXCEPT ![i] = u]
    BY <1>25 DEF SetAssignment
  <2>2. listed' \in [Insts -> {NoRow, Admin} \cup Users]
    BY <1>0, <2>1 DEF OthersOK
  <2>3. OthersOK'
    BY <1>0, <1>25, <2>2 DEF OthersOK, SetAssignment, node
  <2> QED
    BY <1>0, <1>3, <1>25, <2>3, RequestEnds DEF SetAssignment
<1>26. ASSUME UNCHANGED req PROVE PlacesOK'
  BY <1>0, <1>26 DEF PlacesOK, SentTunnels
<1>27. ASSUME NEW l \in Lines, CreateFrps(l) PROVE Good
  <2>1. lines' = [lines EXCEPT ![l] = "up"] /\ UNCHANGED <<listed, quota, rows, node, req, stray>>
    BY <1>27 DEF CreateFrps
  <2>2. OthersOK'
    BY <1>0, <2>1 DEF OthersOK, node
  <2> QED
    BY <1>3, <1>26, <2>1, <2>2
<1>28. ASSUME NEW l \in Lines, ImportFrps(l) PROVE Good
  <2> DEFINE row == [inst |-> Unbound, line |-> l, port |-> ProviderPort,
                     local |-> Min(LocalPorts), by |-> "import", status |-> "imported"]
  <2>1. /\ lines' = [lines EXCEPT ![l] = "up"] /\ rows' = With(ImportedId(l), row)
        /\ l \in Third /\ UNCHANGED <<listed, quota, node, req, stray>>
    BY <1>28 DEF ImportFrps
  <2>2. Min(LocalPorts) \in LocalPorts
    <3>1. LocalPorts \subseteq Nat /\ LocalPorts # {}
      BY TunnelsAssumption
    <3> QED
      BY <3>1, LowestPort
  <2>3. row \in Row
    BY <2>2 DEF Row, Statuses, Ports
  <2>4. ImportedId(l) \in TunnelIds
    BY <2>1 DEF TunnelIds
  <2>5. RowsOK'
    <3> HIDE DEF row
    <3> QED
      BY <1>0, <2>1, <2>3, <2>4, RowsStayOK
  <2>6. OthersOK'
    BY <1>0, <2>1 DEF OthersOK, node
  <2> QED
    BY <1>26, <2>1, <2>5, <2>6
<1>29. ASSUME UNCHANGED vars PROVE Good
  BY <1>2, <1>3, <1>26, <1>29 DEF vars, table
<1> HIDE DEF Good
<1>30. ASSUME NEW r \in Requests, Handler(r) PROVE Good
  BY <1>6, <1>7, <1>8, <1>9, <1>10, <1>11, <1>12, <1>13, <1>14, <1>15, <1>16, <1>17, <1>18, <1>19,
     <1>20, <1>21, <1>22, <1>23, <1>24, <1>25, <1>30
  DEF Handler
<1> QED
  BY <1>27, <1>28, <1>29, <1>30 DEF Next

-----------------------------------------------------------------------------
(* Theorems *)

LEMMA InitIInv == Init => IInv
<1> SUFFICES ASSUME Init PROVE IInv
  OBVIOUS
<1> USE DEF Init
<1>1. Rows = {} /\ rows \in [Rows -> Row]
  BY DEF Rows
<1>2. req \in [Requests -> Places] /\ \A r \in Requests : req[r].pc = "new"
  BY DEF Places
<1>3. quota \in [Users \X Own -> 0..MaxQuota]
  BY TunnelsAssumption
<1>4. TypeOK
  BY <1>1, <1>2, <1>3 DEF TypeOK
<1>5. SentTunnels /\ ChosenPorts /\ PortsAreExclusive
  BY <1>1, <1>2 DEF SentTunnels, ChosenPorts, PortsAreExclusive, Inserting
<1> QED
  BY <1>4, <1>5 DEF IInv

LEMMA Inductive == Spec => []IInv
<1>1. IInv /\ [Next]_vars => IInv'
  <2> SUFFICES ASSUME IInv, [Next]_vars PROVE IInv'
    OBVIOUS
  <2>1. TypeOK' /\ SentTunnels'
    BY TypePreserved DEF IInv
  <2>2. Serial => ChosenPorts' /\ PortsAreExclusive'
    BY PortsPreserved
  <2> QED
    BY <2>1, <2>2 DEF IInv
<1> QED
  BY <1>1, InitIInv, PTL DEF Spec

\* The tables, what the node keeps and the places of the requests have their types.
THEOREM TypeCorrect == Spec => []TypeOK
<1>1. IInv => TypeOK
  BY DEF IInv
<1> QED
  BY <1>1, Inductive, PTL

\* When requests take turns, a public port of an own line leads to one tunnel, although
\* a port is chosen in one step and inserted in another (allocRemotePortAvoiding).
THEOREM PortsExclusive ==
  ASSUME Serial
  PROVE  Spec => []PortsAreExclusive
<1>1. IInv => PortsAreExclusive
  BY DEF IInv
<1> QED
  BY <1>1, Inductive, PTL

-----------------------------------------------------------------------------
(* The node and the table *)

Sending == {"apply", "confirm", "failed"}
Using == Sending \cup {"remove"}

\* Requests that take turns: while one deletes a line it is alone, no two work on one
\* instance, and no two send or remove one tunnel.
TakesTurns ==
  \A r, s \in Requests : r # s /\ Active(r) /\ Active(s) =>
    /\ req[r].op # "delete_frps"
    /\ req[r].inst # req[s].inst
    /\ req[r].pc \in Using /\ req[s].pc \in Using => req[r].tid # req[s].tid

\* A row leads to an instance of the panel over a line that was once made.  Its tunnel_id
\* names its line when it was imported and its instance otherwise, and a tunnel of a
\* provider that was not imported has no port, so that nobody can bind it.
RowNamesOwner(t) ==
  /\ rows[t].inst # Unbound => listed[rows[t].inst] # NoRow
  /\ lines[rows[t].line] # "none"
  /\ \/ \E l \in Third : t = ImportedId(l) /\ rows[t].line = l
     \/ /\ t[1] \in Insts /\ rows[t].inst \in {t[1], Unbound}
        /\ rows[t].line \in Third => rows[t].port = 0

\* What a request relies on where it stands.
ListedPlace(r) ==
  LET q == req[r] IN
  /\ q.pc \in {"create", "enlist"} => listed[q.inst] = NoRow
  /\ q.pc \in {"provision", "insert"} \cup Sending => listed[q.inst] # NoRow
  /\ q.pc \in {"create", "enlist", "provision", "insert"} => q.by = r
  /\ q.pc \in Sending /\ q.op = "create_instance" => q.by = r
  /\ q.pc = "forget" => carried[q.inst] = {}

InsertPlace(r) ==
  LET q == req[r] IN
  q.pc = "insert" =>
    /\ q.tid = TunnelId(q.inst, q.port) /\ lines[q.line] # "none"
    /\ q.line \in Third => q.port = 0

SendingPlace(r) ==
  LET q == req[r] IN
  /\ q.pc \in Sending =>
       q.tid \in Rows /\ rows[q.tid].inst = q.inst /\ rows[q.tid].local = q.local /\ rows[q.tid].by = q.by
  /\ q.pc = "confirm" => [tid |-> q.tid, local |-> q.local] \in carried[q.inst]

RemovingPlace(r) ==
  LET q == req[r] IN
  q.pc = "remove" =>
    /\ \A x \in q.todo : x[1] # Unbound => listed[x[1]] # NoRow
    /\ q.op \in {"close", "delete"} => q.todo \subseteq {<<q.inst, q.tid>>}
    /\ q.op = "close" => /\ q.tid[1] = q.inst \/ q.tid[1] \in Third
                         /\ q.tid \in Rows => rows[q.tid].inst = Unbound
    /\ q.op = "delete" => q.tid \in Rows /\ rows[q.tid].inst = q.inst /\ rows[q.tid].by = q.by
    /\ q.op = "delete_frps" => /\ \A x \in q.todo : x[2] \in RowsOf(q.line)
                               /\ lines[q.line] # "none"

PlaceOf(r) == ListedPlace(r) /\ InsertPlace(r) /\ SendingPlace(r) /\ RemovingPlace(r)

\* A request is about to delete the row of tunnel t once the node was told.
Dooms(r, t) ==
  /\ req[r].pc = "remove"
  /\ \/ req[r].op = "delete" /\ req[r].tid = t
     \/ req[r].op = "delete_frps" /\ t \in RowsOf(req[r].line)
Doomed(t) == \E r \in Requests : Dooms(r, t)

\* A request has yet to tell the node that tunnel t of instance i is to go.
ToTell(i, t) == \E r \in Requests : req[r].pc = "remove" /\ <<i, t>> \in req[r].todo

\* What the node keeps stays in the table, is about to be removed, or was reported lost.
KnownTunnel(i, t) ==
  \/ t \in Rows /\ rows[t].inst = i /\ ~Doomed(t)
  \/ <<i, t>> \in stray
  \/ ToTell(i, t)

\* A live tunnel is on the node unless a request sends it or is about to delete it.
ServedTunnel(t) ==
  rows[t].status = "live" /\ rows[t].inst \in hosted /\ ~Doomed(t)
    /\ (\A r \in Requests : req[r].pc \in Sending => req[r].tid # t)
  => [tid |-> t, local |-> rows[t].local] \in carried[rows[t].inst]

Agreement ==
  /\ TakesTurns
  /\ \A t \in Rows : RowNamesOwner(t)
  /\ \A r \in Requests : PlaceOf(r)
  /\ \A i \in Insts : \A c \in carried[i] : KnownTunnel(i, c.tid)
  /\ \A t \in Rows : ServedTunnel(t)

\* Request s works neither on instance i nor on tunnel t; request r, if it works, on these.
Apart(s, i, t) ==
  /\ req[s].op # "delete_frps" /\ req[s].inst # i
  /\ req[s].pc \in Using => req[s].tid # t
Here(r, i, t) == Active(r) =>
  /\ req[r].op # "delete_frps" /\ req[r].inst = i
  /\ req[r].pc \in Using => req[r].tid = t

\* A step that concerns instance i and tunnel t leaves the rest as it was; the rows of the
\* instance may go when the node keeps nothing of it.
Elsewhere(i, t) ==
  /\ \A u \in Rows' : u # t => u \in Rows /\ rows'[u] = rows[u]
  /\ \A u \in Rows : u # t => u \in Rows' \/ (rows[u].inst = i /\ i \in Insts /\ carried'[i] = {})
  /\ \A j \in Insts : j # i => carried'[j] = carried[j] /\ (listed'[j] = NoRow <=> listed[j] = NoRow)
  /\ \A j \in Insts : j = i =>
       /\ \A c \in carried'[j] : c.tid # t => c \in carried[j]
       /\ \A c \in carried[j] : c.tid # t => c \in carried'[j] \/ j \notin hosted'
       /\ j \in hosted' \ hosted \/ listed'[j] = NoRow => \A u \in Rows' : rows'[u].inst # j
  /\ hosted' \subseteq Insts \cap (hosted \cup {i}) /\ stray \subseteq stray'
  /\ \A l \in Lines : lines[l] # "none" => lines'[l] # "none"

LEMMA OthersStand ==
  ASSUME TypeOK, SentTunnels, Agreement, NEW i, NEW t, Elsewhere(i, t),
         NEW s \in Requests, req'[s] = req[s], Active(s) => Apart(s, i, t)
  PROVE  PlaceOf(s)'
<1> DEFINE q == req[s]
<1>0. RowsOK /\ PlacesOK /\ PlaceOf(s) /\ \A u \in Rows : rows[u] \in Row
  BY TypeParts DEF Agreement, TypeOK
<1>1. CASE ~Active(s)
  BY <1>1 DEF Active, PlaceOf, ListedPlace, InsertPlace, SendingPlace, RemovingPlace, Sending
<1>2. CASE Active(s)
  <2>1. Apart(s, i, t)
    BY <1>2
  <2>2. \A j \in Insts : q.inst = j
           => carried'[j] = carried[j] /\ (listed'[j] = NoRow <=> listed[j] = NoRow)
    BY <2>1 DEF Apart, Elsewhere
  <2>3. q.pc \in {"create", "enlist", "provision", "insert", "apply", "confirm", "failed"}
          => q.inst \in Insts /\ q.line \in Lines
    BY <1>0, WhoServes DEF Serving
  <2>4. q.pc = "forget" => q.inst \in Insts
    BY <1>0, WhoServes DEF Deleting
  <2>5. ListedPlace(s)'
    BY <1>0, <2>2, <2>3, <2>4 DEF PlaceOf, ListedPlace, Sending
  <2>6. InsertPlace(s)'
    BY <1>0, <2>3 DEF PlaceOf, InsertPlace, Elsewhere
  <2>7. SendingPlace(s)'
    <3>1. q.pc \in Sending => q.tid \in Rows' /\ rows'[q.tid] = rows[q.tid]
      BY <1>0, <2>1 DEF PlaceOf, SendingPlace, Apart, Elsewhere, Using
    <3>2. q.pc \in Sending => carried'[q.inst] = carried[q.inst]
      BY <2>2, <2>3 DEF Sending
    <3> QED
      BY <1>0, <3>1, <3>2 DEF PlaceOf, SendingPlace, Sending
  <2>8. RemovingPlace(s)'
    <3> SUFFICES ASSUME q.pc = "remove" PROVE RemovingPlace(s)'
      BY DEF RemovingPlace
    <3>1. q \in Removing /\ q.tid # t /\ q.op \in {"close", "delete"} /\ q.inst \in Insts \cup {Unbound}
      BY <1>0, <2>1, WhoServes DEF Apart, Using, Removing
    <3>2. /\ \A x \in q.todo : x[1] # Unbound => listed[x[1]] # NoRow
          /\ q.todo \subseteq {<<q.inst, q.tid>>}
      BY <1>0, <3>1 DEF PlaceOf, RemovingPlace
    <3>3. \A x \in q.todo : x[1] # Unbound => listed'[x[1]] # NoRow
      BY <2>2, <3>1, <3>2
    <3>4. CASE q.op = "close"
      <4>1. q.tid[1] = q.inst \/ q.tid[1] \in Third
        BY <1>0, <3>4 DEF PlaceOf, RemovingPlace
      <4>2. q.tid \in Rows' => q.tid \in Rows /\ rows'[q.tid] = rows[q.tid]
        BY <3>1 DEF Elsewhere
      <4>3. q.tid \in Rows => rows[q.tid].inst = Unbound
        BY <1>0, <3>4 DEF PlaceOf, RemovingPlace
      <4> QED
        BY <3>2, <3>3, <3>4, <4>1, <4>2, <4>3 DEF RemovingPlace
    <3>5. CASE q.op = "delete"
      <4>1. q.tid \in Rows /\ rows[q.tid].inst = q.inst /\ rows[q.tid].by = q.by
        BY <1>0, <3>5 DEF PlaceOf, RemovingPlace
      <4>2. q.tid \in Rows' /\ rows'[q.tid] = rows[q.tid]
        BY <2>1, <3>1, <4>1 DEF Elsewhere, Apart
      <4> QED
        BY <3>2, <3>3, <3>5, <4>1, <4>2 DEF RemovingPlace
    <3> QED
      BY <3>1, <3>4, <3>5
  <2> QED
    BY <2>5, <2>6, <2>7, <2>8 DEF PlaceOf
<1> QED
  BY <1>1, <1>2

\* A step of request r that concerns instance i and tunnel t, while nobody else works on them.
LEMMA StepKeepsAgreement ==
  ASSUME TypeOK, SentTunnels, Agreement, NEW r \in Requests, NEW i, NEW t, Elsewhere(i, t),
         \A s \in Requests \ {r} : req'[s] = req[s] /\ (Active(s) => Apart(s, i, t)),
         Here(r, i, t), Here(r, i, t)', PlaceOf(r)',
         t \in Rows' => RowNamesOwner(t)' /\ ServedTunnel(t)',
         \A j \in Insts : \A c \in carried'[j] : c.tid = t => KnownTunnel(j, t)'
  PROVE  Agreement'
<1>0. RowsOK /\ PlacesOK /\ OthersOK /\ \A u \in Rows : rows[u] \in Row
  BY TypeParts DEF TypeOK
<1>1. \A s \in Requests : PlaceOf(s)'
  BY OthersStand
<1>2. TakesTurns'
  <2> SUFFICES ASSUME NEW p \in Requests, NEW s \in Requests, p # s, Active(p)', Active(s)'
               PROVE  /\ req'[p].op # "delete_frps"
                      /\ req'[p].inst # req'[s].inst
                      /\ req'[p].pc \in Using /\ req'[s].pc \in Using => req'[p].tid # req'[s].tid
    BY DEF TakesTurns
  <2>1. CASE p # r /\ s # r
    BY <2>1 DEF TakesTurns, Agreement, Active
  <2>2. CASE p = r
    BY <2>2 DEF Here, Apart, Active
  <2>3. CASE s = r
    BY <2>3 DEF Here, Apart, Active
  <2> QED
    BY <2>1, <2>2, <2>3
<1>3. \A u \in Rows' : RowNamesOwner(u)'
  <2> SUFFICES ASSUME NEW u \in Rows', u # t PROVE RowNamesOwner(u)'
    OBVIOUS
  <2>1. u \in Rows /\ rows'[u] = rows[u] /\ RowNamesOwner(u)
    BY DEF Elsewhere, Agreement
  <2>2. rows[u].inst \in Insts \cup {Unbound} /\ rows[u].line \in Lines
    BY <1>0, <2>1 DEF Row
  <2>3. rows'[u].inst # Unbound => listed'[rows'[u].inst] # NoRow
    BY <2>1, <2>2 DEF Elsewhere, RowNamesOwner
  <2>4. lines'[rows'[u].line] # "none"
    BY <2>1, <2>2 DEF Elsewhere, RowNamesOwner
  <2> QED
    BY <2>1, <2>3, <2>4 DEF RowNamesOwner
<1>4. \A s \in Requests : \A u : u # t => (Dooms(s, u)' <=> Dooms(s, u))
  <2> SUFFICES ASSUME NEW s \in Requests, NEW u, u # t PROVE Dooms(s, u)' <=> Dooms(s, u)
    OBVIOUS
  <2>1. CASE s = r
    BY <2>1 DEF Dooms, Here, Active, Using
  <2>2. CASE s # r
    BY <2>2 DEF Dooms, Apart, Active
  <2> QED
    BY <2>1, <2>2
<1>5. \A u : u # t => (Doomed(u)' <=> Doomed(u))
  BY <1>4 DEF Doomed
<1>6. \A j, u : u # t /\ ToTell(j, u) => ToTell(j, u)'
  <2> SUFFICES ASSUME NEW j, NEW u, u # t,
                      NEW s \in Requests, req[s].pc = "remove", <<j, u>> \in req[s].todo
               PROVE  s # r
    BY DEF ToTell
  <2> SUFFICES ASSUME s = r PROVE FALSE
    OBVIOUS
  <2>1. req[r].tid = t /\ req[r].op \in {"close", "delete"}
    BY <1>0, WhoServes DEF Here, Active, Using, Removing
  <2>2. req[r].todo \subseteq {<<req[r].inst, req[r].tid>>}
    BY <2>1 DEF Agreement, PlaceOf, RemovingPlace
  <2> QED
    BY <2>1, <2>2
<1>7. ASSUME NEW j \in Insts, NEW c \in carried'[j] PROVE KnownTunnel(j, c.tid)'
  <2> DEFINE u == c.tid
  <2>1. CASE u = t
    BY <2>1
  <2>2. CASE u # t
    <3>1. c \in carried[j] /\ KnownTunnel(j, u)
      BY <1>7, <2>2 DEF Elsewhere, Agreement
    <3>2. u \in Rows /\ rows[u].inst = j => u \in Rows' /\ rows'[u] = rows[u]
      BY <1>7, <2>2 DEF Elsewhere
    <3>3. <<j, u>> \in stray => <<j, u>> \in stray'
      BY DEF Elsewhere
    <3> QED
      BY <1>5, <1>6, <2>2, <3>1, <3>2, <3>3 DEF KnownTunnel
  <2> QED
    BY <2>1, <2>2
<1>8. ASSUME NEW u \in Rows', u # t PROVE ServedTunnel(u)'
  <2> SUFFICES ASSUME rows'[u].status = "live", rows'[u].inst \in hosted', ~Doomed(u)',
                      \A s \in Requests : req'[s].pc \in Sending => req'[s].tid # u
               PROVE  [tid |-> u, local |-> rows'[u].local] \in carried'[rows'[u].inst]
    BY DEF ServedTunnel
  <2>1. u \in Rows /\ rows'[u] = rows[u] /\ ServedTunnel(u) /\ rows[u].inst \in Insts
    BY <1>0, <1>8 DEF Elsewhere, Agreement, Row, TypeOK, OthersOK
  <2>2. rows[u].inst \in hosted /\ ~Doomed(u)
    BY <1>5, <1>8, <2>1 DEF Elsewhere
  <2>3. \A s \in Requests : req[s].pc \in Sending => req[s].tid # u
    BY <1>8 DEF Here, Active, Sending, Using
  <2>4. [tid |-> u, local |-> rows[u].local] \in carried[rows[u].inst]
    BY <2>1, <2>2, <2>3 DEF ServedTunnel
  <2> QED
    BY <1>8, <2>1, <2>4 DEF Elsewhere
<1> QED
  BY <1>1, <1>2, <1>3, <1>7, <1>8 DEF Agreement

\* What the discipline of Serial gives a request: nobody else works on what it concerns.
LEMMA TurnMeansApart ==
  ASSUME Serial, TypeOK, SentTunnels, NEW i, NEW t \in TunnelIds \cup {<<>>}, Turn(i, t),
         NEW s \in Requests, Active(s)
  PROVE  Apart(s, i, t) /\ Apart(s, i, <<>>)
<1>1. ~WorksOn(s, i, t)
  BY DEF Turn
<1>2. \A u \in TunnelIds : u # <<>>
  BY DEF TunnelIds, TunnelId, ImportedId
<1>3. req[s].op # "delete_frps" /\ req[s].inst # i /\ (t # <<>> => req[s].tid # t)
  BY <1>1 DEF WorksOn
<1>4. req[s].pc \in Using => req[s].tid \in TunnelIds
  BY <1>3, TypeParts, WhoServes DEF Using, Sending, SentPcs, Removing
<1> QED
  BY <1>2, <1>3, <1>4 DEF Apart

LEMMA OthersAreApart ==
  ASSUME TypeOK, SentTunnels, Agreement, NEW r \in Requests, Active(r), req[r].op # "delete_frps",
         NEW s \in Requests \ {r}, Active(s)
  PROVE  /\ Apart(s, req[r].inst, <<>>)
         /\ req[r].pc \in Using => Apart(s, req[r].inst, req[r].tid)
<1>1. /\ req[s].op # "delete_frps" /\ req[s].inst # req[r].inst
      /\ req[s].pc \in Using /\ req[r].pc \in Using => req[s].tid # req[r].tid
  BY DEF Agreement, TakesTurns
<1>2. \A u \in TunnelIds : u # <<>>
  BY DEF TunnelIds, TunnelId, ImportedId
<1>3. req[s].pc \in Using => req[s].tid \in TunnelIds
  BY <1>1, TypeParts, WhoServes DEF Using, Sending, SentPcs, Removing
<1> QED
  BY <1>1, <1>2, <1>3 DEF Apart

\* Nobody else works on the tunnel a request is about to insert.
LEMMA InsertIsApart ==
  ASSUME TypeOK, SentTunnels, Agreement, NEW r \in Requests, req[r].pc = "insert", req[r].tid \notin Rows,
         NEW s \in Requests \ {r}, Active(s)
  PROVE  Apart(s, req[r].inst, req[r].tid)
<1>1. req[r] \in Serving /\ Active(r) /\ req[r].op # "delete_frps"
  <2>1. req[r] \in Serving
    BY TypeParts, WhoServes
  <2> QED
    BY <2>1 DEF Serving, Active
<1>2. req[r].tid = TunnelId(req[r].inst, req[r].port) /\ req[r].inst \in Insts
  BY <1>1 DEF Agreement, PlaceOf, InsertPlace, Serving
<1>3. Apart(s, req[r].inst, <<>>)
  BY <1>1, OthersAreApart
<1>4. SUFFICES ASSUME req[s].pc \in Using, req[s].tid = req[r].tid PROVE FALSE
  BY <1>3 DEF Apart
<1>5. PlaceOf(s)
  BY DEF Agreement
<1>6. req[s].pc = "remove"
  BY <1>4, <1>5 DEF PlaceOf, SendingPlace, Using
<1>7. req[s].op = "close"
  <2>1. req[s] \in Removing
    BY <1>6, TypeParts, WhoServes
  <2>2. req[s].op # "delete"
    BY <1>4, <1>5, <1>6 DEF PlaceOf, RemovingPlace
  <2> QED
    BY <1>3, <2>1, <2>2 DEF Apart, Removing
<1>8. req[s].tid[1] = req[s].inst \/ req[s].tid[1] \in Third
  BY <1>5, <1>6, <1>7 DEF PlaceOf, RemovingPlace
<1>9. req[s].tid[1] = req[r].inst
  BY <1>2, <1>4 DEF TunnelId
<1> QED
  BY <1>2, <1>3, <1>8, <1>9, TunnelsAssumption DEF Apart

\* A step that leaves the tables and the node alone leaves everything as it was.
LEMMA NothingTouched ==
  ASSUME TypeOK, Agreement, UNCHANGED <<table, node, stray>>, NEW i, NEW t
  PROVE  Elsewhere(i, t)
<1>1. \A j \in Insts : listed[j] = NoRow => \A u \in Rows : rows[u].inst # j
  BY TunnelsAssumption DEF Agreement, RowNamesOwner
<1> QED
  BY <1>1 DEF Elsewhere, table, node, Rows, TypeOK

\* A step that concerns an instance and none of its tunnels.
LEMMA NoTunnelConcerned ==
  ASSUME TypeOK, SentTunnels, Agreement, TypeOK', NEW r \in Requests, NEW i, Elsewhere(i, <<>>),
         \A s \in Requests \ {r} : req'[s] = req[s] /\ (Active(s) => Apart(s, i, <<>>)),
         Here(r, i, <<>>), Here(r, i, <<>>)', PlaceOf(r)'
  PROVE  Agreement'
<1>1. \A u \in TunnelIds : u # <<>>
  BY DEF TunnelIds, TunnelId, ImportedId
<1>2. <<>> \notin Rows' /\ \A j \in Insts : \A c \in carried'[j] : c.tid # <<>>
  BY <1>1 DEF TypeOK
<1> QED
  BY <1>2, StepKeepsAgreement

\* What the node keeps of the concerned tunnel stays known while no request removes it.
LEMMA StaysKnown ==
  ASSUME TypeOK, SentTunnels, Agreement, NEW r \in Requests, NEW i, NEW t,
         \A s \in Requests \ {r} : req'[s] = req[s] /\ (Active(s) => Apart(s, i, t)),
         req[r].pc # "remove", req'[r].pc # "remove", stray \subseteq stray',
         NEW j \in Insts, NEW c \in carried[j], c.tid = t,
         t \in Rows /\ rows[t].inst = j =>
           (t \in Rows' /\ rows'[t].inst = j) \/ <<j, t>> \in stray'
  PROVE  KnownTunnel(j, t)'
<1>1. KnownTunnel(j, t)
  BY DEF Agreement
<1>2. ToTell(j, t) => ToTell(j, t)'
  BY DEF ToTell
<1>3. ~Doomed(t)'
  <2> SUFFICES ASSUME NEW s \in Requests, Dooms(s, t)' PROVE FALSE
    BY DEF Doomed
  <2>1. s # r /\ req[s].pc = "remove" /\ req'[s] = req[s]
    BY DEF Dooms
  <2>2. Apart(s, i, t)
    BY <2>1 DEF Active
  <2> QED
    BY <2>1, <2>2 DEF Dooms, Apart, Using
<1> QED
  BY <1>1, <1>2, <1>3 DEF KnownTunnel

\* A request that begins without a tunnel, or with one it has only chosen.
LEMMA BeginsQuietly ==
  ASSUME Serial, TypeOK, SentTunnels, Agreement, TypeOK', NEW r \in Requests, New(r),
         NEW i, NEW t \in TunnelIds \cup {<<>>}, Turn(i, t), NEW v, req' = [req EXCEPT ![r] = v],
         v.inst = i, v.pc \notin Using, v.op # "delete_frps", UNCHANGED <<table, node, stray>>,
         PlaceOf(r)'
  PROVE  Agreement'
<1>1. req'[r] = v /\ \A s \in Requests \ {r} : req'[s] = req[s]
  BY DEF TypeOK
<1>2. \A s \in Requests : Active(s) => Apart(s, i, <<>>)
  BY TurnMeansApart
<1>3. Here(r, i, <<>>) /\ Here(r, i, <<>>)'
  BY <1>1 DEF Here, New, Active
<1>4. Elsewhere(i, <<>>)
  BY NothingTouched
<1> QED
  BY <1>1, <1>2, <1>3, <1>4, NoTunnelConcerned

LEMMA ChooseKeeps ==
  ASSUME Serial, TypeOK, SentTunnels, Agreement, TypeOK', NEW r \in Requests, New(r),
         NEW op \in {"create", "add"}, NEW i \in Insts, NEW l \in Lines \ Third,
         NEW port \in Segment \cup LocalPorts \cup {0}, NEW p \in LocalPorts,
         listed[i] # NoRow, lines[l] = "up", Choose(r, op, i, l, port, p)
  PROVE  Agreement'
<1> DEFINE v == [op |-> op, pc |-> "insert", inst |-> i, line |-> l,
                 tid |-> TunnelId(i, port), port |-> port, local |-> p,
                 todo |-> {}, want |-> 0, who |-> Admin, by |-> r]
<1>1. /\ req' = [req EXCEPT ![r] = v] /\ UNCHANGED <<table, node, stray>>
      /\ Turn(i, TunnelId(i, port))
  BY DEF Choose
<1>2. req'[r] = v
  BY <1>1 DEF TypeOK
<1>3. PlaceOf(r)'
  BY <1>1, <1>2 DEF PlaceOf, ListedPlace, InsertPlace, SendingPlace, RemovingPlace, Sending, table
<1>4. v.inst = i /\ v.pc \notin Using /\ v.op # "delete_frps"
  BY DEF Using, Sending
<1>5. TunnelId(i, port) \in TunnelIds
  BY TunnelIdIsOne
<1> HIDE DEF v
<1> QED
  BY <1>1, <1>3, <1>4, <1>5, BeginsQuietly

LEMMA CreateInstanceKeeps ==
  ASSUME Serial, TypeOK, SentTunnels, Agreement, TypeOK', NEW r \in Requests, CreateInstance(r)
  PROVE  Agreement'
<1>1. PICK i \in Insts, l \in Lines, n \in 0..MaxWant, who \in Users \cup {Admin} :
        /\ listed[i] = NoRow /\ Turn(i, <<>>)
        /\ req' = [req EXCEPT ![r] = [op |-> "create_instance", pc |-> "create", inst |-> i,
                                      line |-> l, tid |-> <<>>, port |-> 0, local |-> GamePort[i],
                                      todo |-> {}, want |-> n, who |-> who, by |-> r]]
  BY DEF CreateInstance
<1> DEFINE v == [op |-> "create_instance", pc |-> "create", inst |-> i, line |-> l, tid |-> <<>>,
                 port |-> 0, local |-> GamePort[i], todo |-> {}, want |-> n, who |-> who, by |-> r]
<1>2. req' = [req EXCEPT ![r] = v] /\ UNCHANGED <<table, node, stray>> /\ New(r)
  BY <1>1 DEF CreateInstance
<1>3. req'[r] = v
  BY <1>2 DEF TypeOK
<1>4. PlaceOf(r)'
  BY <1>1, <1>2, <1>3
  DEF PlaceOf, ListedPlace, InsertPlace, SendingPlace, RemovingPlace, Sending, table
<1>5. v.inst = i /\ v.pc \notin Using /\ v.op # "delete_frps"
  BY DEF Using, Sending
<1> HIDE DEF v
<1> QED
  BY <1>1, <1>2, <1>4, <1>5, BeginsQuietly

LEMMA DeleteInstanceKeeps ==
  ASSUME Serial, TypeOK, SentTunnels, Agreement, TypeOK', NEW r \in Requests, DeleteInstance(r)
  PROVE  Agreement'
<1>1. PICK i \in Insts : Turn(i, <<>>) /\ Begin(r, "delete_instance", "unregister", i, <<>>, <<>>, 0)
  BY DEF DeleteInstance
<1> DEFINE v == [op |-> "delete_instance", pc |-> "unregister", inst |-> i, line |-> <<>>,
                 tid |-> <<>>, port |-> 0, local |-> 0, todo |-> {}, want |-> 0, who |-> Admin,
                 by |-> IF <<>> \in Rows THEN rows[<<>>].by ELSE r]
<1>2. req' = [req EXCEPT ![r] = v] /\ UNCHANGED <<table, node, stray>> /\ New(r)
  BY <1>1 DEF DeleteInstance, Begin
<1>3. req'[r] = v
  BY <1>2 DEF TypeOK
<1>4. PlaceOf(r)'
  BY <1>3 DEF PlaceOf, ListedPlace, InsertPlace, SendingPlace, RemovingPlace, Sending
<1>5. v.inst = i /\ v.pc \notin Using /\ v.op # "delete_frps"
  BY DEF Using, Sending
<1> HIDE DEF v
<1> QED
  BY <1>1, <1>2, <1>4, <1>5, BeginsQuietly

\* A request goes on with its instance, and with no tunnel.
LEMMA GoesOnQuietly ==
  ASSUME TypeOK, SentTunnels, Agreement, TypeOK', NEW r \in Requests, Active(r),
         req[r].op # "delete_frps", req[r].pc \notin Using, NEW v, req' = [req EXCEPT ![r] = v],
         v.pc = "done" \/ (v.inst = req[r].inst /\ v.op = req[r].op /\ v.pc \notin Using),
         Elsewhere(req[r].inst, <<>>), PlaceOf(r)'
  PROVE  Agreement'
<1>0. PICK i : i = req[r].inst
  OBVIOUS
<1>1. req'[r] = v /\ \A s \in Requests \ {r} : req'[s] = req[s]
  BY DEF TypeOK
<1>2. \A s \in Requests \ {r} : Active(s) => Apart(s, i, <<>>)
  BY <1>0, OthersAreApart
<1>3. Here(r, i, <<>>) /\ Here(r, i, <<>>)'
  BY <1>0, <1>1 DEF Here, Active
<1>4. Elsewhere(i, <<>>)
  BY <1>0
<1> QED
  BY <1>1, <1>2, <1>3, <1>4, NoTunnelConcerned

\* A request that is done, and one that only moves to another place.
LEMMA PlaceReached ==
  ASSUME TypeOK, NEW r \in Requests
  PROVE  /\ Finish(r) => PlaceOf(r)' /\ req'[r] = [pc |-> "done"]
         /\ \A pc : Goto(r, pc) /\ Active(r) => /\ req' = [req EXCEPT ![r] = [req[r] EXCEPT !.pc = pc]]
                                                /\ req'[r] = [req[r] EXCEPT !.pc = pc]
                                                /\ req'[r].pc = pc
<1>1. Finish(r) => req'[r] = [pc |-> "done"]
  BY DEF Finish, TypeOK
<1>2. req'[r] = [pc |-> "done"] => PlaceOf(r)'
  BY DEF PlaceOf, ListedPlace, InsertPlace, SendingPlace, RemovingPlace, Sending
<1>3. ASSUME NEW pc, Goto(r, pc)
      PROVE  /\ req' = [req EXCEPT ![r] = [req[r] EXCEPT !.pc = pc]]
             /\ req'[r] = [req[r] EXCEPT !.pc = pc]
             /\ req'[r].pc = pc
  BY <1>3, PlaceHasPc DEF Goto, TypeOK
<1> QED
  BY <1>1, <1>2, <1>3

\* Without its row in the table an instance has no tunnel there.
LEMMA NoRowNoTunnel ==
  ASSUME Agreement, NEW j \in Insts, listed[j] = NoRow
  PROVE  \A u \in Rows : rows[u].inst # j
BY TunnelsAssumption DEF Agreement, RowNamesOwner

\* What a request that creates or deletes an instance, or provisions it, is.
LEMMA ServesAnInstance ==
  ASSUME TypeOK, SentTunnels, NEW r \in Requests,
         req[r].pc \in {"create", "enlist", "provision", "unregister", "forget"}
  PROVE  /\ Active(r) /\ req[r].op # "delete_frps" /\ req[r].pc \notin Using /\ req[r].inst \in Insts
         /\ req[r].pc \in {"create", "enlist", "provision"} => req[r] \in Serving
         /\ req[r].pc \in {"unregister", "forget"} => req[r] \in Deleting
<1>1. /\ req[r].pc \in {"create", "enlist", "provision"} => req[r] \in Serving
      /\ req[r].pc \in {"unregister", "forget"} => req[r] \in Deleting
  BY TypeParts, WhoServes
<1>2. req[r].op # "delete_frps" /\ req[r].inst \in Insts
  BY <1>1 DEF Serving, Deleting
<1>3. Active(r) /\ req[r].pc \notin Using
  BY DEF Active, Using, Sending
<1> QED
  BY <1>1, <1>2, <1>3

LEMMA CreateOnNodeKeeps ==
  ASSUME TypeOK, SentTunnels, Agreement, TypeOK', NEW r \in Requests, CreateOnNode(r)
  PROVE  Agreement'
<1>1. PICK i : i = req[r].inst
  OBVIOUS
<1>2. req[r].pc = "create" /\ Active(r) /\ req[r].op # "delete_frps" /\ req[r].pc \notin Using
      /\ i \in Insts /\ req[r] \in Serving
  BY <1>1, ServesAnInstance DEF CreateOnNode
<1>3. /\ hosted' = hosted \/ hosted' = hosted \cup {i}
      /\ Goto(r, "enlist") \/ Finish(r)
      /\ UNCHANGED <<table, carried, stray>>
  BY <1>1 DEF CreateOnNode
<1>4. listed[i] = NoRow /\ req[r].by = r
  BY <1>1, <1>2 DEF Agreement, PlaceOf, ListedPlace
<1>5. Elsewhere(i, <<>>)
  <2>1. \A j \in Insts : listed[j] = NoRow => \A u \in Rows : rows[u].inst # j
    BY NoRowNoTunnel
  <2> QED
    BY <1>2, <1>3, <1>4, <2>1 DEF Elsewhere, table, Rows, TypeOK
<1>6. ASSUME Goto(r, "enlist") PROVE Agreement'
  <2> DEFINE v == [req[r] EXCEPT !.pc = "enlist"]
  <2>1. req' = [req EXCEPT ![r] = v] /\ req'[r] = v
    BY <1>2, <1>6, PlaceReached
  <2>2. v.pc = "enlist" /\ v.inst = i /\ v.op = req[r].op /\ v.by = r
    BY <1>1, <1>2, <1>4 DEF Serving
  <2>3. PlaceOf(r)'
    <3> HIDE DEF v
    <3> QED
      BY <1>3, <1>4, <2>1, <2>2
      DEF PlaceOf, ListedPlace, InsertPlace, SendingPlace, RemovingPlace, Sending, table
  <2>4. v.pc \notin Using
    BY <2>2 DEF Using, Sending
  <2>5. PICK w : w = v
    OBVIOUS
  <2> HIDE DEF v
  <2> QED
    BY <1>1, <1>2, <1>5, <2>1, <2>2, <2>3, <2>4, <2>5, GoesOnQuietly
<1>7. ASSUME Finish(r) PROVE Agreement'
  BY <1>1, <1>2, <1>5, <1>7, PlaceReached, GoesOnQuietly DEF Finish
<1> QED
  BY <1>3, <1>6, <1>7

LEMMA EnlistInstanceKeeps ==
  ASSUME TypeOK, SentTunnels, Agreement, TypeOK', NEW r \in Requests, EnlistInstance(r)
  PROVE  Agreement'
<1>1. PICK i, w : i = req[r].inst /\ w = [req[r] EXCEPT !.pc = "provision"]
  OBVIOUS
<1>2. req[r].pc = "enlist" /\ Active(r) /\ req[r].op # "delete_frps" /\ req[r].pc \notin Using
      /\ i \in Insts /\ req[r] \in Serving
  BY <1>1, ServesAnInstance DEF EnlistInstance
<1>3. listed[i] = NoRow /\ req[r].by = r /\ req[r].who \in Users \cup {Admin}
  BY <1>1, <1>2 DEF Agreement, PlaceOf, ListedPlace, Serving
<1>4. /\ listed' = [listed EXCEPT ![i] = req[r].who] /\ Goto(r, "provision")
      /\ UNCHANGED <<lines, quota, rows, node, stray>>
  BY <1>1, <1>3 DEF EnlistInstance
<1>5. listed'[i] # NoRow /\ \A j \in Insts : j # i => listed'[j] = listed[j]
  BY <1>2, <1>3, <1>4, TunnelsAssumption DEF TypeOK, NoRow, Admin
<1>6. Elsewhere(i, <<>>)
  BY <1>4, <1>5 DEF Elsewhere, node, Rows, TypeOK
<1>7. req' = [req EXCEPT ![r] = w] /\ req'[r] = w /\ w.pc = "provision"
      /\ w.inst = i /\ w.op = req[r].op /\ w.by = r
  BY <1>1, <1>2, <1>3, <1>4, PlaceReached DEF Serving
<1>8. PlaceOf(r)'
  BY <1>5, <1>7 DEF PlaceOf, ListedPlace, InsertPlace, SendingPlace, RemovingPlace, Sending
<1>9. w.pc \notin Using
  BY <1>7 DEF Using, Sending
<1> QED
  BY <1>1, <1>2, <1>6, <1>7, <1>8, <1>9, GoesOnQuietly

LEMMA ProvisionPortKeeps ==
  ASSUME TypeOK, SentTunnels, Agreement, TypeOK', NEW r \in Requests, ProvisionPort(r)
  PROVE  Agreement'
<1> DEFINE q == req[r]
           c == ChosenPort(q.line)
<1>1. PICK i, w, v : /\ i = q.inst /\ w = [q EXCEPT !.want = @ - 1]
                     /\ v = [q EXCEPT !.want = @ - 1, !.pc = "insert", !.port = c,
                                      !.tid = TunnelId(q.inst, c)]
  OBVIOUS
<1>2. q.pc = "provision" /\ Active(r) /\ q.op # "delete_frps" /\ q.pc \notin Using
      /\ i \in Insts /\ q \in Serving
  BY <1>1, ServesAnInstance DEF ProvisionPort
<1>3. listed[i] # NoRow /\ q.by = r
  BY <1>1, <1>2 DEF Agreement, PlaceOf, ListedPlace
<1>4. UNCHANGED <<table, node, stray>>
  BY DEF ProvisionPort
<1>5. Elsewhere(i, <<>>)
  BY <1>4, NothingTouched
<1>6. \/ Finish(r)
      \/ req' = [req EXCEPT ![r] = w]
      \/ lines[q.line] = "up" /\ FreePorts(q.line) # {} /\ req' = [req EXCEPT ![r] = v]
  BY <1>1 DEF ProvisionPort
<1>7. ASSUME Finish(r) PROVE Agreement'
  BY <1>1, <1>2, <1>5, <1>7, PlaceReached, GoesOnQuietly DEF Finish
<1>8. ASSUME req' = [req EXCEPT ![r] = w] PROVE Agreement'
  <2>1. req'[r] = w /\ w.pc = "provision" /\ w.inst = i /\ w.op = q.op /\ w.by = r
    BY <1>1, <1>2, <1>3, <1>8 DEF Serving, TypeOK
  <2>2. PlaceOf(r)'
    BY <1>3, <1>4, <2>1
    DEF PlaceOf, ListedPlace, InsertPlace, SendingPlace, RemovingPlace, Sending, table
  <2>3. w.pc \notin Using
    BY <2>1 DEF Using, Sending
  <2> QED
    BY <1>1, <1>2, <1>5, <1>8, <2>1, <2>2, <2>3, GoesOnQuietly
<1>9. ASSUME lines[q.line] = "up", FreePorts(q.line) # {}, req' = [req EXCEPT ![r] = v]
      PROVE  Agreement'
  <2>1. /\ req'[r] = v /\ v.pc = "insert" /\ v.inst = i /\ v.op = q.op /\ v.by = r
        /\ v.line = q.line /\ v.port = c /\ v.tid = TunnelId(i, c)
    BY <1>1, <1>2, <1>3, <1>9 DEF Serving, TypeOK
  <2>2. q.line \in Third => c = 0
    <3>1. q.line \in Lines
      BY <1>2 DEF Serving
    <3>2. c \in FreePorts(q.line)
      BY <1>9, <3>1, ChosenPortIsFree
    <3> QED
      BY <3>2, TunnelsAssumption DEF FreePorts, PortsOf
  <2>3. PlaceOf(r)'
    <3> HIDE DEF c
    <3> QED
      BY <1>3, <1>4, <1>9, <2>1, <2>2
      DEF PlaceOf, ListedPlace, InsertPlace, SendingPlace, RemovingPlace, Sending, table
  <2>4. v.pc \notin Using
    BY <2>1 DEF Using, Sending
  <2> QED
    BY <1>1, <1>2, <1>5, <1>9, <2>1, <2>3, <2>4, GoesOnQuietly
<1> QED
  BY <1>6, <1>7, <1>8, <1>9

LEMMA UnregisterOnNodeKeeps ==
  ASSUME TypeOK, SentTunnels, Agreement, TypeOK', NEW r \in Requests, UnregisterOnNode(r)
  PROVE  Agreement'
<1>1. PICK i, w : i = req[r].inst /\ w = [req[r] EXCEPT !.pc = "forget"]
  OBVIOUS
<1>2. req[r].pc = "unregister" /\ Active(r) /\ req[r].op # "delete_frps" /\ req[r].pc \notin Using
      /\ i \in Insts /\ req[r] \in Deleting
  BY <1>1, ServesAnInstance DEF UnregisterOnNode
<1>3. \/ /\ hosted' = hosted \ {i} /\ carried' = [carried EXCEPT ![i] = {}]
         /\ Goto(r, "forget") \/ Finish(r)
      \/ UNCHANGED node /\ Finish(r)
  BY <1>1 DEF UnregisterOnNode
<1>4. UNCHANGED <<table, stray>>
  BY DEF UnregisterOnNode
<1>5. UNCHANGED node \/ (hosted' = hosted \ {i} /\ carried' = [carried EXCEPT ![i] = {}])
        => Elsewhere(i, <<>>)
  <2>1. \A j \in Insts : listed[j] = NoRow => \A u \in Rows : rows[u].inst # j
    BY NoRowNoTunnel
  <2> QED
    BY <1>2, <1>4, <2>1 DEF Elsewhere, table, node, Rows, TypeOK
<1>6. ASSUME Finish(r) PROVE Agreement'
  BY <1>1, <1>2, <1>3, <1>5, <1>6, PlaceReached, GoesOnQuietly DEF Finish
<1>7. ASSUME carried' = [carried EXCEPT ![i] = {}], hosted' = hosted \ {i}, Goto(r, "forget")
      PROVE  Agreement'
  <2>1. req' = [req EXCEPT ![r] = w] /\ req'[r] = w /\ w.pc = "forget" /\ w.inst = i
        /\ w.op = req[r].op
    BY <1>1, <1>2, <1>7, PlaceReached DEF Deleting
  <2>2. carried'[i] = {}
    BY <1>2, <1>7 DEF TypeOK
  <2>3. PlaceOf(r)'
    BY <2>1, <2>2 DEF PlaceOf, ListedPlace, InsertPlace, SendingPlace, RemovingPlace, Sending
  <2>4. w.pc \notin Using
    BY <2>1 DEF Using, Sending
  <2> QED
    BY <1>1, <1>2, <1>5, <1>7, <2>1, <2>3, <2>4, GoesOnQuietly
<1> QED
  BY <1>3, <1>6, <1>7

LEMMA ForgetInstanceKeeps ==
  ASSUME TypeOK, SentTunnels, Agreement, TypeOK', NEW r \in Requests, ForgetInstance(r)
  PROVE  Agreement'
<1>1. PICK i : i = req[r].inst
  OBVIOUS
<1>2. req[r].pc = "forget" /\ Active(r) /\ req[r].op # "delete_frps" /\ req[r].pc \notin Using
      /\ i \in Insts
  BY <1>1, ServesAnInstance DEF ForgetInstance
<1>3. /\ listed' = [listed EXCEPT ![i] = NoRow]
      /\ rows' = Without({t \in Rows : rows[t].inst = i})
      /\ Finish(r) /\ UNCHANGED <<lines, quota, node, stray>>
  BY <1>1 DEF ForgetInstance
<1>4. carried[i] = {}
  BY <1>1, <1>2 DEF Agreement, PlaceOf, ListedPlace
<1>5. Rows' = {t \in Rows : rows[t].inst # i} /\ \A t \in Rows' : rows'[t] = rows[t]
  BY <1>3 DEF Without, Rows
<1>6. Elsewhere(i, <<>>)
  BY <1>2, <1>3, <1>4, <1>5 DEF Elsewhere, node, TypeOK
<1> QED
  BY <1>1, <1>2, <1>3, <1>6, PlaceReached, GoesOnQuietly DEF Finish

\* A request that begins by sending a tunnel of the table.
LEMMA BeginsToSend ==
  ASSUME Serial, TypeOK, SentTunnels, Agreement, TypeOK', NEW r \in Requests, New(r),
         NEW i \in Insts, NEW t \in Rows, NEW p \in LocalPorts, NEW op, op # "delete_frps",
         op # "create_instance", NEW l, NEW row, Turn(i, t), Begin(r, op, "apply", i, l, t, p),
         listed[i] # NoRow, rows' = [rows EXCEPT ![t] = row],
         row.inst = i, row.local = p, row.by = rows[t].by, row.line = rows[t].line,
         row.port = rows[t].port,
         rows[t].inst = i \/ (rows[t].line \in Third /\ rows[t].port # 0),
         stray \subseteq stray',
         rows[t].inst = i \/ rows[t].inst = Unbound \/ <<rows[t].inst, t>> \in stray',
         UNCHANGED <<lines, listed, quota, node>>
  PROVE  Agreement'
<1>1. PICK v : v = [op |-> op, pc |-> "apply", inst |-> i, line |-> l, tid |-> t, port |-> 0,
                    local |-> p, todo |-> {}, want |-> 0, who |-> Admin, by |-> rows[t].by]
  OBVIOUS
<1>2. req'[r] = v /\ \A s \in Requests \ {r} : req'[s] = req[s]
  BY <1>1 DEF Begin, TypeOK
<1>3. t \in TunnelIds /\ \A s \in Requests : Active(s) => Apart(s, i, t)
  BY TurnMeansApart DEF TypeOK
<1>4. Rows' = Rows /\ rows'[t] = row /\ \A u \in Rows : u # t => rows'[u] = rows[u]
  BY DEF Rows
<1>5. Elsewhere(i, t)
  <2>1. \A u \in Rows' : listed[rows'[u].inst] # NoRow \/ rows'[u].inst = Unbound
    BY <1>4 DEF Agreement, RowNamesOwner
  <2>2. \A j \in Insts : listed[j] = NoRow => \A u \in Rows' : rows'[u].inst # j
    BY <2>1, TunnelsAssumption
  <2> QED
    BY <1>4, <2>2 DEF Elsewhere, node, TypeOK
<1>6. Here(r, i, t) /\ Here(r, i, t)'
  BY <1>1, <1>2 DEF Here, New, Active
<1>7. PlaceOf(r)'
  BY <1>1, <1>2, <1>4
  DEF PlaceOf, ListedPlace, InsertPlace, SendingPlace, RemovingPlace, Sending
<1>8. RowNamesOwner(t)'
  <2>1. RowNamesOwner(t)
    BY DEF Agreement
  <2> QED
    BY <1>4, <2>1, TunnelsAssumption DEF RowNamesOwner
<1>9. ServedTunnel(t)'
  BY <1>1, <1>2 DEF ServedTunnel, Sending
<1>10. ASSUME NEW j \in Insts, NEW c \in carried'[j], c.tid = t PROVE KnownTunnel(j, t)'
  <2>1. req[r].pc # "remove" /\ req'[r].pc # "remove" /\ c \in carried[j]
    BY <1>1, <1>2, <1>10 DEF New, node
  <2>2. t \in Rows /\ rows[t].inst = j =>
          (t \in Rows' /\ rows'[t].inst = j) \/ <<j, t>> \in stray'
    BY <1>4, TunnelsAssumption
  <2> QED
    BY <1>2, <1>3, <1>10, <2>1, <2>2, StaysKnown
<1> QED
  BY <1>2, <1>3, <1>5, <1>6, <1>7, <1>8, <1>9, <1>10, StepKeepsAgreement

LEMMA BindTunnelKeeps ==
  ASSUME Serial, TypeOK, SentTunnels, Agreement, TypeOK', NEW r \in Requests, New(r),
         NEW i \in Insts, NEW l \in Third, NEW p \in LocalPorts, listed[i] # NoRow,
         BindTunnel(r, i, l, p)
  PROVE  Agreement'
<1>1. PICK t \in RowsOf(l) :
        /\ rows[t].port > 0 /\ Turn(i, t)
        /\ rows' = [rows EXCEPT ![t].inst = i, ![t].local = p, ![t].status = "pending"]
        /\ Begin(r, "bind", "apply", i, l, t, p)
        /\ stray' = stray \cup ({rows[t].inst} \ {i, Unbound}) \X {t}
        /\ UNCHANGED <<lines, listed, quota, node>>
  BY DEF BindTunnel
<1>2. PICK row : row = [rows[t] EXCEPT !.inst = i, !.local = p, !.status = "pending"]
  OBVIOUS
<1>3. t \in Rows /\ rows[t].line = l /\ rows[t] \in Row
  BY DEF RowsOf, TypeOK
<1>4. /\ row.inst = i /\ row.local = p /\ row.by = rows[t].by /\ row.line = rows[t].line
      /\ row.port = rows[t].port
  BY <1>2, <1>3 DEF Row
<1>5. rows' = [rows EXCEPT ![t] = row]
  BY <1>1, <1>2
<1>6. rows[t].port # 0
  BY <1>1
<1>7. /\ stray \subseteq stray'
      /\ rows[t].inst = i \/ rows[t].inst = Unbound \/ <<rows[t].inst, t>> \in stray'
  BY <1>1
<1> QED
  BY <1>1, <1>3, <1>4, <1>5, <1>6, <1>7, BeginsToSend

LEMMA ReapplyTunnelKeeps ==
  ASSUME Serial, TypeOK, SentTunnels, Agreement, TypeOK', NEW r \in Requests, ReapplyTunnel(r)
  PROVE  Agreement'
<1>1. PICK t \in Rows :
        /\ rows[t].inst # Unbound /\ Turn(rows[t].inst, t)
        /\ Begin(r, "reapply", "apply", rows[t].inst, rows[t].line, t, rows[t].local)
        /\ UNCHANGED <<table, node, stray>>
  BY DEF ReapplyTunnel
<1>2. PICK i, l, p, row : i = rows[t].inst /\ l = rows[t].line /\ p = rows[t].local /\ row = rows[t]
  OBVIOUS
<1>3. i \in Insts /\ p \in LocalPorts /\ listed[i] # NoRow
  BY <1>1, <1>2 DEF TypeOK, Row, Agreement, RowNamesOwner
<1>4. rows' = [rows EXCEPT ![t] = row] /\ UNCHANGED <<lines, listed, quota, node>> /\ stray' = stray
  BY <1>1, <1>2 DEF table, TypeOK
<1>5. New(r)
  BY DEF ReapplyTunnel
<1> QED
  BY <1>1, <1>2, <1>3, <1>4, <1>5, BeginsToSend

LEMMA UpdateInstancePortKeeps ==
  ASSUME Serial, TypeOK, SentTunnels, Agreement, TypeOK', NEW r \in Requests, UpdateInstancePort(r)
  PROVE  Agreement'
<1>1. PICK t \in Rows, p \in LocalPorts :
        /\ rows[t].inst # Unbound /\ Turn(rows[t].inst, t)
        /\ rows' = [rows EXCEPT ![t].local = p]
        /\ Begin(r, "update", "apply", rows[t].inst, rows[t].line, t, p)
        /\ UNCHANGED <<lines, listed, quota, node, stray>>
  BY DEF UpdateInstancePort
<1>2. PICK i, l, row : i = rows[t].inst /\ l = rows[t].line /\ row = [rows[t] EXCEPT !.local = p]
  OBVIOUS
<1>3. i \in Insts /\ listed[i] # NoRow /\ rows[t] \in Row
  BY <1>1, <1>2 DEF TypeOK, Row, Agreement, RowNamesOwner
<1>4. /\ row.inst = i /\ row.local = p /\ row.by = rows[t].by /\ row.line = rows[t].line
      /\ row.port = rows[t].port
  BY <1>2, <1>3 DEF Row
<1>5. rows' = [rows EXCEPT ![t] = row] /\ New(r)
  BY <1>1, <1>2 DEF UpdateInstancePort
<1>6. /\ Begin(r, "update", "apply", i, l, t, p) /\ Turn(i, t) /\ rows[t].inst = i
      /\ UNCHANGED <<lines, listed, quota, node>> /\ stray \subseteq stray'
  BY <1>1, <1>2
<1> QED
  BY <1>3, <1>4, <1>5, <1>6, BeginsToSend

LEMMA InsertRowKeeps ==
  ASSUME TypeOK, SentTunnels, Agreement, TypeOK', NEW r \in Requests, InsertRow(r)
  PROVE  Agreement'
<1> DEFINE q == req[r]
           sent == q.op # "create" \/ q.line \notin Direct
<1>1. PICK i, t, a, b, row :
        /\ i = q.inst /\ t = q.tid
        /\ a = [q EXCEPT !.pc = "apply"] /\ b = [q EXCEPT !.pc = "provision"]
        /\ row = [inst |-> q.inst, line |-> q.line, port |-> q.port, local |-> q.local, by |-> r,
                  status |-> IF sent THEN "pending" ELSE "direct"]
  OBVIOUS
<1>2. q.pc = "insert" /\ q \in Serving /\ t \in TunnelIds
  BY <1>1, TypeParts, WhoServes DEF InsertRow, SentPcs
<1>3. Active(r) /\ q.op # "delete_frps" /\ q.pc \notin Using /\ i \in Insts /\ q.line \in Lines
  BY <1>1, <1>2 DEF Active, Using, Sending, Serving
<1>4. /\ listed[i] # NoRow /\ q.by = r /\ t = TunnelId(i, q.port) /\ lines[q.line] # "none"
      /\ q.line \in Third => q.port = 0
  BY <1>1, <1>2 DEF Agreement, PlaceOf, ListedPlace, InsertPlace
<1>5. UNCHANGED <<lines, listed, quota, node, stray>>
  BY DEF InsertRow
<1>6. CASE t \in Rows
  <2>1. UNCHANGED rows /\ (Goto(r, "provision") \/ Finish(r))
    BY <1>1, <1>6 DEF InsertRow
  <2>2. Elsewhere(i, <<>>)
    BY <1>5, <2>1, NothingTouched DEF table
  <2>3. ASSUME Goto(r, "provision") PROVE Agreement'
    <3>1. req' = [req EXCEPT ![r] = b] /\ req'[r] = b /\ b.pc = "provision"
          /\ b.inst = i /\ b.op = q.op /\ b.by = r
      BY <1>1, <1>2, <1>3, <1>4, <2>3, PlaceReached DEF Serving
    <3>2. PlaceOf(r)'
      BY <1>4, <1>5, <3>1
      DEF PlaceOf, ListedPlace, InsertPlace, SendingPlace, RemovingPlace, Sending
    <3>3. b.pc \notin Using
      BY <3>1 DEF Using, Sending
    <3> QED
      BY <1>1, <1>3, <2>2, <3>1, <3>2, <3>3, GoesOnQuietly
  <2>4. ASSUME Finish(r) PROVE Agreement'
    BY <1>1, <1>3, <2>2, <2>4, PlaceReached, GoesOnQuietly DEF Finish
  <2> QED
    BY <2>1, <2>3, <2>4
<1>7. CASE t \notin Rows
  <2>1. rows' = With(t, row) /\ (Goto(r, "apply") \/ Finish(r))
    BY <1>1, <1>7 DEF InsertRow
  <2>2. Rows' = Rows \cup {t} /\ rows'[t] = row /\ \A u \in Rows : u # t /\ rows'[u] = rows[u]
    BY <1>7, <2>1 DEF With, Rows
  <2>3. Elsewhere(i, t)
    <3>1. \A j \in Insts : listed[j] = NoRow => \A u \in Rows : rows[u].inst # j
      BY NoRowNoTunnel
    <3>2. \A j \in Insts : listed'[j] = NoRow => \A u \in Rows' : rows'[u].inst # j
      BY <1>1, <1>4, <1>5, <2>2, <3>1
    <3> QED
      BY <1>5, <2>2, <3>2 DEF Elsewhere, node, TypeOK
  <2>4. RowNamesOwner(t)'
    BY <1>1, <1>3, <1>4, <1>5, <2>2 DEF RowNamesOwner, TunnelId
  <2>5. ServedTunnel(t)'
    BY <1>1, <2>2 DEF ServedTunnel
  <2>6. \A s \in Requests \ {r} : req'[s] = req[s] /\ (Active(s) => Apart(s, i, t))
    <3>1. \A s \in Requests \ {r} : req'[s] = req[s]
      BY <2>1 DEF Goto, Finish, TypeOK
    <3> QED
      BY <1>1, <1>2, <1>7, <3>1, InsertIsApart
  <2>7. /\ PlaceOf(r)' /\ Here(r, i, t) /\ Here(r, i, t)' /\ req'[r].pc # "remove"
    <3>1. Here(r, i, t)
      BY <1>1, <1>3 DEF Here
    <3>2. ASSUME Finish(r) PROVE PlaceOf(r)' /\ Here(r, i, t)' /\ req'[r].pc # "remove"
      BY <3>2, PlaceReached DEF Here, Active
    <3>3. ASSUME Goto(r, "apply") PROVE PlaceOf(r)' /\ Here(r, i, t)' /\ req'[r].pc # "remove"
      <4>1. req'[r] = a /\ a.pc = "apply" /\ a.inst = i /\ a.op = q.op /\ a.by = r /\ a.tid = t
            /\ a.local = q.local
        BY <1>1, <1>2, <1>3, <1>4, <3>3, PlaceReached DEF Serving
      <4>2. Here(r, i, t)'
        BY <1>3, <4>1 DEF Here
      <4>3. PlaceOf(r)'
        BY <1>1, <1>4, <1>5, <2>2, <4>1
        DEF PlaceOf, ListedPlace, InsertPlace, SendingPlace, RemovingPlace, Sending
      <4> QED
        BY <4>1, <4>2, <4>3
    <3> QED
      BY <2>1, <3>1, <3>2, <3>3
  <2>8. ASSUME NEW j \in Insts, NEW c \in carried'[j], c.tid = t PROVE KnownTunnel(j, t)'
    <3>1. c \in carried[j] /\ req[r].pc # "remove" /\ stray' = stray
      BY <1>2, <1>5, <2>8 DEF node
    <3> QED
      BY <1>7, <2>6, <2>7, <2>8, <3>1, StaysKnown
  <2> QED
    BY <2>3, <2>4, <2>5, <2>6, <2>7, <2>8, StepKeepsAgreement
<1> QED
  BY <1>6, <1>7

\* What a request that sends a tunnel is.
LEMMA SendsATunnel ==
  ASSUME TypeOK, SentTunnels, Agreement, NEW r \in Requests, req[r].pc \in Sending
  PROVE  LET q == req[r] IN
         /\ Active(r) /\ q \in Serving /\ q.op # "delete_frps" /\ q.pc \in Using /\ q.inst \in Insts
         /\ q.tid \in TunnelIds /\ q.tid \in Rows /\ listed[q.inst] # NoRow
         /\ rows[q.tid].inst = q.inst /\ rows[q.tid].local = q.local /\ rows[q.tid].by = q.by
         /\ q.op = "create_instance" => q.by = r
<1> DEFINE q == req[r]
<1>1. q \in Serving /\ q.tid \in TunnelIds
  BY TypeParts, WhoServes DEF Sending, SentPcs
<1>2. q.op # "delete_frps" /\ q.inst \in Insts /\ Active(r) /\ q.pc \in Using
  BY <1>1 DEF Serving, Active, Sending, Using
<1>3. PlaceOf(r)
  BY DEF Agreement
<1>4. /\ q.tid \in Rows /\ listed[q.inst] # NoRow
      /\ rows[q.tid].inst = q.inst /\ rows[q.tid].local = q.local /\ rows[q.tid].by = q.by
      /\ q.op = "create_instance" => q.by = r
  BY <1>3 DEF PlaceOf, ListedPlace, SendingPlace
<1> QED
  BY <1>1, <1>2, <1>4

LEMMA ApplyOnNodeKeeps ==
  ASSUME TypeOK, SentTunnels, Agreement, TypeOK', NEW r \in Requests, ApplyOnNode(r)
  PROVE  Agreement'
<1> DEFINE q == req[r]
<1>1. PICK i, t, e, pc, v :
        /\ i = q.inst /\ t = q.tid /\ e = [tid |-> t, local |-> q.local]
        /\ pc \in {"confirm", "failed"} /\ Goto(r, pc) /\ v = [q EXCEPT !.pc = pc]
        /\ \/ carried' = [carried EXCEPT ![i] = {c \in @ : c.tid # t} \cup {e}]
           \/ carried' = carried /\ pc = "failed"
        /\ UNCHANGED <<table, hosted, stray>>
  <2>1. PICK i, t, e : i = q.inst /\ t = q.tid /\ e = [tid |-> t, local |-> q.local]
    OBVIOUS
  <2>2. PICK pc \in {"confirm", "failed"} :
          /\ Goto(r, pc)
          /\ \/ carried' = [carried EXCEPT ![i] = {c \in @ : c.tid # t} \cup {e}]
             \/ carried' = carried /\ pc = "failed"
          /\ UNCHANGED <<table, hosted, stray>>
    BY <2>1 DEF ApplyOnNode
  <2>3. PICK v : v = [q EXCEPT !.pc = pc]
    OBVIOUS
  <2> HIDE DEF q
  <2> QED
    BY <2>1, <2>2, <2>3
<1>2. /\ q.pc = "apply" /\ Active(r) /\ q \in Serving /\ q.op # "delete_frps" /\ q.pc \in Using
      /\ i \in Insts /\ t \in TunnelIds /\ t \in Rows /\ listed[i] # NoRow
      /\ rows[t].inst = i /\ rows[t].local = q.local /\ rows[t].by = q.by
      /\ q.op = "create_instance" => q.by = r
  BY <1>1, SendsATunnel DEF ApplyOnNode, Sending
<1>3. /\ req'[r] = v /\ v.pc = pc /\ v.inst = i /\ v.tid = t /\ v.op = q.op /\ v.by = q.by
      /\ v.local = q.local
  BY <1>1, <1>2, PlaceReached DEF Serving
<1>4. \A s \in Requests \ {r} : req'[s] = req[s] /\ (Active(s) => Apart(s, i, t))
  <2>1. \A s \in Requests \ {r} : req'[s] = req[s]
    BY <1>1 DEF Goto, TypeOK
  <2> QED
    BY <1>1, <1>2, <2>1, OthersAreApart
<1>5. Rows' = Rows /\ rows' = rows /\ listed' = listed /\ lines' = lines /\ stray' = stray
  BY <1>1 DEF table, Rows
<1>6. /\ carried'[i] = {c \in carried[i] : c.tid # t} \cup {e} \/ (carried' = carried /\ pc = "failed")
      /\ \A j \in Insts : j # i => carried'[j] = carried[j]
  BY <1>1, <1>2 DEF TypeOK
<1>7. Elsewhere(i, t)
  <2>1. \A j \in Insts : listed[j] = NoRow => \A u \in Rows : rows[u].inst # j
    BY NoRowNoTunnel
  <2> QED
    BY <1>1, <1>2, <1>5, <1>6, <2>1 DEF Elsewhere, TypeOK
<1>8. Here(r, i, t) /\ Here(r, i, t)'
  BY <1>1, <1>2, <1>3 DEF Here
<1>9. PlaceOf(r)'
  <2>1. pc = "confirm" => e \in carried'[i]
    BY <1>6
  <2>2. pc # "remove" /\ pc # "forget" /\ pc # "insert"
        /\ pc \notin {"create", "enlist", "provision", "insert"} /\ pc \in Sending
    BY <1>1 DEF Sending
  <2> QED
    BY <1>1, <1>2, <1>3, <1>5, <2>1, <2>2
    DEF PlaceOf, ListedPlace, InsertPlace, SendingPlace, RemovingPlace
<1>10. RowNamesOwner(t)' /\ ServedTunnel(t)'
  <2>1. RowNamesOwner(t)'
    BY <1>2, <1>5 DEF Agreement, RowNamesOwner
  <2>2. pc \in Sending
    BY <1>1 DEF Sending
  <2> QED
    BY <1>3, <2>1, <2>2 DEF ServedTunnel
<1>11. ASSUME NEW j \in Insts, NEW c \in carried'[j], c.tid = t PROVE KnownTunnel(j, t)'
  <2>1. CASE j = i
    <3>1. ~Doomed(t)'
      <4>1. ~Dooms(r, t)'
        BY <1>1, <1>3 DEF Dooms
      <4>2. \A s \in Requests \ {r} : ~Dooms(s, t)'
        BY <1>4 DEF Dooms, Apart, Active, Using
      <4> QED
        BY <4>1, <4>2 DEF Doomed
    <3> QED
      BY <1>2, <1>5, <2>1, <3>1 DEF KnownTunnel
  <2>2. CASE j # i
    <3>1. c \in carried[j] /\ req[r].pc # "remove" /\ req'[r].pc # "remove"
      BY <1>1, <1>2, <1>3, <1>6, <1>11, <2>2
    <3> QED
      BY <1>4, <1>5, <1>11, <3>1, StaysKnown
  <2> QED
    BY <2>1, <2>2
<1> QED
  BY <1>4, <1>7, <1>8, <1>9, <1>10, <1>11, StepKeepsAgreement

LEMMA StoreStatusKeeps ==
  ASSUME TypeOK, SentTunnels, Agreement, TypeOK', NEW r \in Requests, StoreStatus(r)
  PROVE  Agreement'
<1> DEFINE q == req[r]
           found == q.tid \in Rows /\ (q.op \in {"create", "reapply"} => rows[q.tid].by = q.by)
           lists == listed[q.inst] # NoRow /\ \E c \in carried[q.inst] : c.tid = q.tid
<1>1. PICK i, t, v : i = q.inst /\ t = q.tid /\ v = [q EXCEPT !.pc = "provision"]
  OBVIOUS
<1>2. /\ q.pc \in {"confirm", "failed"} /\ Active(r) /\ q \in Serving /\ q.op # "delete_frps"
      /\ q.pc \in Using
      /\ i \in Insts /\ t \in TunnelIds /\ t \in Rows /\ listed[i] # NoRow
      /\ rows[t].inst = i /\ rows[t].local = q.local /\ rows[t].by = q.by
      /\ q.op = "create_instance" => q.by = r
  BY <1>1, SendsATunnel DEF StoreStatus, Sending
<1>3. PICK s : /\ rows' = [rows EXCEPT ![t].status = s]
               /\ s = "live" => q.pc = "confirm"
  <2>1. found
    BY <1>1, <1>2
  <2> HIDE DEF lists
  <2>2. \E s \in IF q.pc = "failed" THEN {"error"}
                 ELSE {"unknown"} \cup (IF lists THEN {"live"} ELSE {}) :
          rows' = IF found THEN [rows EXCEPT ![q.tid].status = s] ELSE rows
    BY DEF StoreStatus, lists
  <2> HIDE DEF found
  <2> QED
    BY <1>1, <1>2, <2>1, <2>2
<1>4. /\ (q.op = "create_instance" /\ Goto(r, "provision")) \/ Finish(r)
      /\ UNCHANGED <<lines, listed, quota, node, stray>>
  BY DEF StoreStatus
<1>5. \A x \in Requests \ {r} : req'[x] = req[x] /\ (Active(x) => Apart(x, i, t))
  <2>1. \A x \in Requests \ {r} : req'[x] = req[x]
    BY <1>4 DEF Goto, Finish, TypeOK
  <2> QED
    BY <1>1, <1>2, <2>1, OthersAreApart
<1>6. /\ Rows' = Rows /\ rows'[t].status = s
      /\ rows'[t].inst = i /\ rows'[t].local = q.local /\ rows'[t].line = rows[t].line
      /\ rows'[t].port = rows[t].port
      /\ \A u \in Rows : u # t => rows'[u] = rows[u]
  BY <1>2, <1>3 DEF Rows, TypeOK, Row
<1>7. Elsewhere(i, t)
  <2>1. \A j \in Insts : listed[j] = NoRow => \A u \in Rows : rows[u].inst # j
    BY NoRowNoTunnel
  <2> QED
    BY <1>2, <1>4, <1>6, <2>1 DEF Elsewhere, TypeOK, node
<1>8. Here(r, i, t)
  BY <1>1, <1>2 DEF Here
<1>9. /\ Here(r, i, t)' /\ PlaceOf(r)' /\ req'[r].pc \notin Sending /\ req'[r].pc # "remove"
  <2>1. ASSUME q.op = "create_instance", Goto(r, "provision")
        PROVE  /\ Here(r, i, t)' /\ PlaceOf(r)' /\ req'[r].pc \notin Sending /\ req'[r].pc # "remove"
    <3>1. req'[r] = v /\ v.pc = "provision" /\ v.inst = i /\ v.op = q.op /\ v.by = r
      BY <1>1, <1>2, <2>1, PlaceReached DEF Serving
    <3>2. PlaceOf(r)'
      BY <1>2, <1>4, <3>1
      DEF PlaceOf, ListedPlace, InsertPlace, SendingPlace, RemovingPlace, Sending
    <3> QED
      BY <1>2, <3>1, <3>2 DEF Here, Using, Sending
  <2>2. ASSUME Finish(r)
        PROVE  /\ Here(r, i, t)' /\ PlaceOf(r)' /\ req'[r].pc \notin Sending /\ req'[r].pc # "remove"
    <3>1. PlaceOf(r)' /\ req'[r] = [pc |-> "done"]
      BY <2>2, PlaceReached
    <3> QED
      BY <3>1 DEF Here, Active, Sending
  <2> QED
    BY <1>4, <2>1, <2>2
<1>10. RowNamesOwner(t)'
  <2>1. RowNamesOwner(t)
    BY <1>2 DEF Agreement
  <2> QED
    BY <1>2, <1>4, <1>6, <2>1 DEF RowNamesOwner
\* What was confirmed is on the node with the row's local port.
<1>11. ServedTunnel(t)'
  <2>1. q.pc = "confirm" => [tid |-> t, local |-> q.local] \in carried[i]
    BY <1>1 DEF Agreement, PlaceOf, SendingPlace
  <2> QED
    BY <1>3, <1>4, <1>6, <2>1 DEF ServedTunnel, node
<1>12. ASSUME NEW j \in Insts, NEW c \in carried'[j], c.tid = t PROVE KnownTunnel(j, t)'
  <2>1. c \in carried[j] /\ req[r].pc # "remove" /\ stray \subseteq stray'
    BY <1>2, <1>4, <1>12 DEF node
  <2>2. t \in Rows /\ rows[t].inst = j =>
          (t \in Rows' /\ rows'[t].inst = j) \/ <<j, t>> \in stray'
    BY <1>2, <1>6
  <2>3. req'[r].pc # "remove"
    BY <1>9
  <2> QED
    BY <1>5, <1>12, <2>1, <2>2, <2>3, StaysKnown
<1> QED
  BY <1>5, <1>7, <1>8, <1>9, <1>10, <1>11, <1>12, StepKeepsAgreement

\* A request that is about to tell the node knows what it removes there.
LEMMA BeginsToRemove ==
  ASSUME TypeOK, SentTunnels, Agreement, NEW r \in Requests, New(r), NEW i, NEW t \in Rows,
         rows[t].inst = i, req'[r].pc = "remove", req'[r].todo = {<<i, t>>},
         \A s \in Requests \ {r} : req'[s] = req[s], stray \subseteq stray',
         NEW j \in Insts, NEW c \in carried[j], c.tid = t
  PROVE  KnownTunnel(j, t)'
<1>1. KnownTunnel(j, t)
  BY DEF Agreement
<1>2. ToTell(j, t) => ToTell(j, t)'
  BY DEF ToTell, New
<1>3. rows[t].inst = j => ToTell(j, t)'
  BY DEF ToTell
<1> QED
  BY <1>1, <1>2, <1>3 DEF KnownTunnel

LEMMA CloseInstancePortKeeps ==
  ASSUME Serial, TypeOK, SentTunnels, Agreement, TypeOK', NEW r \in Requests, CloseInstancePort(r)
  PROVE  Agreement'
<1>1. PICK t \in Rows :
        /\ rows[t].inst # Unbound /\ Turn(rows[t].inst, t) /\ New(r)
        /\ rows' = IF rows[t].line \in Third
                   THEN [rows EXCEPT ![t].inst = Unbound, ![t].status = "imported"]
                   ELSE Without({t})
        /\ req' = [req EXCEPT ![r] = [op |-> "close", pc |-> "remove", inst |-> rows[t].inst,
                                      line |-> rows[t].line, tid |-> t,
                                      todo |-> {<<rows[t].inst, t>>}]]
        /\ UNCHANGED <<lines, listed, quota, node, stray>>
  BY DEF CloseInstancePort
<1>2. PICK i, v : /\ i = rows[t].inst
                  /\ v = [op |-> "close", pc |-> "remove", inst |-> rows[t].inst,
                          line |-> rows[t].line, tid |-> t, todo |-> {<<rows[t].inst, t>>}]
  OBVIOUS
<1>3. /\ i \in Insts /\ t \in TunnelIds /\ rows[t] \in Row /\ RowNamesOwner(t) /\ listed[i] # NoRow
  BY <1>1, <1>2 DEF TypeOK, Row, Agreement, RowNamesOwner
<1>4. req'[r] = v /\ \A s \in Requests \ {r} : req'[s] = req[s]
  BY <1>1, <1>2 DEF TypeOK
<1>5. \A s \in Requests : Active(s) => Apart(s, i, t)
  BY <1>1, <1>2, <1>3, TurnMeansApart
<1>6. /\ Rows' \subseteq Rows /\ \A u \in Rows : u # t => u \in Rows' /\ rows'[u] = rows[u]
      /\ t \in Rows' => /\ rows'[t].inst = Unbound /\ rows'[t].status = "imported"
                        /\ rows'[t].line = rows[t].line /\ rows'[t].port = rows[t].port
  <2>1. CASE rows[t].line \in Third
    BY <1>1, <1>3, <2>1 DEF Rows, Row
  <2>2. CASE rows[t].line \notin Third
    BY <1>1, <2>2 DEF Rows, Without
  <2> QED
    BY <2>1, <2>2
<1>7. Elsewhere(i, t)
  <2>1. \A j \in Insts : listed[j] = NoRow => \A u \in Rows : rows[u].inst # j
    BY NoRowNoTunnel
  <2>2. \A j \in Insts : listed[j] = NoRow => \A u \in Rows' : rows'[u].inst # j
    BY <1>6, <2>1, TunnelsAssumption
  <2> QED
    BY <1>1, <1>6, <2>2 DEF Elsewhere, TypeOK, node
<1>8. Here(r, i, t) /\ Here(r, i, t)'
  BY <1>1, <1>2, <1>4 DEF Here, New, Active
<1>9. PlaceOf(r)'
  <2>1. t[1] = i \/ t[1] \in Third
    BY <1>1, <1>2, <1>3 DEF RowNamesOwner, ImportedId
  <2>2. /\ v.pc = "remove" /\ v.op = "close" /\ v.inst = i /\ v.tid = t /\ v.todo = {<<i, t>>}
    BY <1>2
  <2>3. /\ \A x \in v.todo : x[1] # Unbound => listed'[x[1]] # NoRow
        /\ t \in Rows' => rows'[t].inst = Unbound
    BY <1>1, <1>3, <1>6, <2>2
  <2> QED
    BY <1>4, <2>1, <2>2, <2>3
    DEF PlaceOf, ListedPlace, InsertPlace, SendingPlace, RemovingPlace, Sending
<1>10. t \in Rows' => RowNamesOwner(t)' /\ ServedTunnel(t)'
  BY <1>1, <1>3, <1>6 DEF RowNamesOwner, ServedTunnel
<1>11. ASSUME NEW j \in Insts, NEW c \in carried'[j], c.tid = t PROVE KnownTunnel(j, t)'
  <2>1. c \in carried[j] /\ New(r) /\ stray \subseteq stray'
    BY <1>1, <1>11 DEF node
  <2>2. req'[r].pc = "remove" /\ req'[r].todo = {<<i, t>>}
    BY <1>2, <1>4
  <2> QED
    BY <1>2, <1>4, <1>11, <2>1, <2>2, BeginsToRemove
<1> QED
  BY <1>4, <1>5, <1>7, <1>8, <1>9, <1>10, <1>11, StepKeepsAgreement

LEMMA DeleteTunnelKeeps ==
  ASSUME Serial, TypeOK, SentTunnels, Agreement, TypeOK', NEW r \in Requests, DeleteTunnel(r)
  PROVE  Agreement'
<1>1. PICK t \in Rows :
        /\ Turn(rows[t].inst, t) /\ New(r)
        /\ req' = [req EXCEPT ![r] = [op |-> "delete", pc |-> "remove", inst |-> rows[t].inst,
                                      line |-> rows[t].line, tid |-> t, by |-> rows[t].by,
                                      todo |-> {<<rows[t].inst, t>>}]]
        /\ UNCHANGED <<table, node, stray>>
  BY DEF DeleteTunnel
<1>2. PICK i, v : /\ i = rows[t].inst
                  /\ v = [op |-> "delete", pc |-> "remove", inst |-> rows[t].inst,
                          line |-> rows[t].line, tid |-> t, by |-> rows[t].by,
                          todo |-> {<<rows[t].inst, t>>}]
  OBVIOUS
<1>3. t \in TunnelIds /\ RowNamesOwner(t) /\ (i # Unbound => listed[i] # NoRow)
  BY <1>2 DEF TypeOK, Agreement, RowNamesOwner
<1>4. req'[r] = v /\ \A s \in Requests \ {r} : req'[s] = req[s]
  BY <1>1, <1>2 DEF TypeOK
<1>5. \A s \in Requests : Active(s) => Apart(s, i, t)
  BY <1>1, <1>2, <1>3, TurnMeansApart
<1>6. Elsewhere(i, t)
  BY <1>1, NothingTouched
<1>7. Here(r, i, t) /\ Here(r, i, t)'
  BY <1>1, <1>2, <1>4 DEF Here, New, Active
<1>8. Rows' = Rows /\ rows' = rows /\ listed' = listed /\ lines' = lines
  BY <1>1 DEF table, Rows
<1>9. PlaceOf(r)'
  <2>1. /\ v.pc = "remove" /\ v.op = "delete" /\ v.inst = i /\ v.tid = t /\ v.todo = {<<i, t>>}
        /\ v.by = rows[t].by
    BY <1>2
  <2>2. \A x \in v.todo : x[1] # Unbound => listed'[x[1]] # NoRow
    BY <1>3, <1>8, <2>1
  <2> QED
    BY <1>2, <1>4, <1>8, <2>1, <2>2
    DEF PlaceOf, ListedPlace, InsertPlace, SendingPlace, RemovingPlace, Sending
<1>10. RowNamesOwner(t)' /\ ServedTunnel(t)'
  <2>1. Doomed(t)'
    BY <1>2, <1>4 DEF Doomed, Dooms
  <2> QED
    BY <1>3, <1>8, <2>1 DEF RowNamesOwner, ServedTunnel
<1>11. ASSUME NEW j \in Insts, NEW c \in carried'[j], c.tid = t PROVE KnownTunnel(j, t)'
  <2>1. c \in carried[j] /\ New(r) /\ stray \subseteq stray'
    BY <1>1, <1>11 DEF node
  <2>2. req'[r].pc = "remove" /\ req'[r].todo = {<<i, t>>}
    BY <1>2, <1>4
  <2> QED
    BY <1>2, <1>4, <1>11, <2>1, <2>2, BeginsToRemove
<1> QED
  BY <1>4, <1>5, <1>6, <1>7, <1>9, <1>10, <1>11, StepKeepsAgreement

\* What a request that removes one tunnel is.
LEMMA RemovesATunnel ==
  ASSUME TypeOK, SentTunnels, Agreement, NEW r \in Requests, req[r].pc = "remove",
         req[r].op # "delete_frps"
  PROVE  LET q == req[r] IN
         /\ Active(r) /\ q.pc \in Using /\ q \in Removing /\ q.op \in {"close", "delete"}
         /\ q.inst \in Insts \cup {Unbound} /\ q.tid \in TunnelIds
         /\ q.todo \subseteq {<<q.inst, q.tid>>}
         /\ \A x \in q.todo : x[1] # Unbound => listed[x[1]] # NoRow
         /\ q.op = "close" => /\ q.tid[1] = q.inst \/ q.tid[1] \in Third
                              /\ q.tid \in Rows => rows[q.tid].inst = Unbound
         /\ q.op = "delete" => q.tid \in Rows /\ rows[q.tid].inst = q.inst /\ rows[q.tid].by = q.by
<1> DEFINE q == req[r]
<1>1. q \in Removing
  BY TypeParts, WhoServes
<1>2. q.op \in {"close", "delete"} /\ q.inst \in Insts \cup {Unbound} /\ q.tid \in TunnelIds
  BY <1>1 DEF Removing
<1>3. Active(r) /\ q.pc \in Using
  BY DEF Active, Using
<1>4. RemovingPlace(r)
  BY DEF Agreement, PlaceOf
<1> QED
  BY <1>1, <1>2, <1>3, <1>4 DEF RemovingPlace

\* Of a tunnel that one request removes, the node keeps only what another request is about
\* to remove, or what a lost removal left.
LEMMA KnownToOthers ==
  ASSUME TypeOK, SentTunnels, Agreement, NEW r \in Requests, req[r].pc = "remove",
         req[r].op # "delete_frps", NEW t, t = req[r].tid,
         \A s \in Requests \ {r} : req'[s] = req[s], stray \subseteq stray',
         NEW j \in Insts, NEW c \in carried[j], c.tid = t, <<j, t>> \notin req[r].todo
  PROVE  KnownTunnel(j, t)'
<1>1. KnownTunnel(j, t)
  BY DEF Agreement
<1>2. ToTell(j, t) => ToTell(j, t)'
  BY DEF ToTell
<1>3. ~(t \in Rows /\ rows[t].inst = j /\ ~Doomed(t))
  <2>1. CASE req[r].op = "close"
    BY <2>1, RemovesATunnel, TunnelsAssumption
  <2>2. CASE req[r].op = "delete"
    BY <2>2 DEF Doomed, Dooms
  <2> QED
    BY <2>1, <2>2, RemovesATunnel
<1> QED
  BY <1>1, <1>2, <1>3 DEF KnownTunnel

LEMMA RemoveOnNodeKeeps ==
  ASSUME TypeOK, SentTunnels, Agreement, TypeOK', NEW r \in Requests, RemoveOnNode(r),
         req[r].op # "delete_frps"
  PROVE  Agreement'
<1> DEFINE q == req[r]
<1>1. PICK i, t : i = q.inst /\ t = q.tid
  OBVIOUS
<1>2. /\ q.pc = "remove" /\ Active(r) /\ q.pc \in Using /\ q \in Removing /\ q.op \in {"close", "delete"}
      /\ i \in Insts \cup {Unbound} /\ t \in TunnelIds
      /\ q.todo \subseteq {<<i, t>>} /\ (\A x \in q.todo : x[1] # Unbound => listed[x[1]] # NoRow)
      /\ q.op = "close" => (t[1] = i \/ t[1] \in Third) /\ (t \in Rows => rows[t].inst = Unbound)
      /\ q.op = "delete" => t \in Rows /\ rows[t].inst = i /\ rows[t].by = q.by
  BY <1>1, RemovesATunnel DEF RemoveOnNode
<1>3. /\ <<i, t>> \in q.todo /\ (i # Unbound => listed[i] # NoRow)
      /\ req' = [req EXCEPT ![r].todo = @ \ {<<i, t>>}]
      /\ \/ i \in Insts /\ carried' = [carried EXCEPT ![i] = {c \in @ : c.tid # t}] /\ stray' = stray
         \/ i \in Insts /\ carried' = carried /\ stray' = stray \cup {<<i, t>>}
         \/ i = Unbound /\ carried' = carried /\ stray' = stray
  <2>1. PICK x \in q.todo :
          LET k == x[1]  u == x[2]
              sent == k # Unbound /\ listed[k] # NoRow
          IN  /\ req' = [req EXCEPT ![r].todo = @ \ {x}]
              /\ \/ sent /\ carried' = [carried EXCEPT ![k] = {c \in @ : c.tid # u}] /\ stray' = stray
                 \/ sent /\ carried' = carried /\ stray' = stray \cup {<<k, u>>}
                 \/ ~sent /\ UNCHANGED <<carried, stray>>
    BY DEF RemoveOnNode
  <2>2. x = <<i, t>> /\ x[1] = i /\ x[2] = t
    BY <1>2, <2>1
  <2>3. i # Unbound => listed[i] # NoRow
    BY <1>2, <2>1, <2>2
  <2> QED
    BY <1>2, <2>1, <2>2, <2>3
<1>4. UNCHANGED <<table, hosted>>
  BY DEF RemoveOnNode
<1>5. /\ req'[r].pc = "remove" /\ req'[r].op = q.op /\ req'[r].inst = i /\ req'[r].tid = t
      /\ req'[r].todo = {} /\ (q.op = "delete" => req'[r].by = q.by)
  <2>1. req'[r] = [q EXCEPT !.todo = q.todo \ {<<i, t>>}]
    BY <1>3 DEF TypeOK
  <2>2. q.todo \ {<<i, t>>} = {}
    BY <1>2
  <2> QED
    BY <1>1, <1>2, <2>1, <2>2 DEF Removing
<1>6. \A s \in Requests \ {r} : req'[s] = req[s] /\ (Active(s) => Apart(s, i, t))
  <2>1. \A s \in Requests \ {r} : req'[s] = req[s]
    BY <1>3 DEF TypeOK
  <2> QED
    BY <1>1, <1>2, <2>1, OthersAreApart
<1>7. Rows' = Rows /\ rows' = rows /\ listed' = listed /\ lines' = lines /\ hosted' = hosted
  BY <1>4 DEF table, Rows
<1>8. /\ \A j \in Insts : j # i => carried'[j] = carried[j]
      /\ i \in Insts => /\ carried'[i] \subseteq carried[i]
                        /\ \A c \in carried[i] : c.tid # t => c \in carried'[i]
                        /\ <<i, t>> \in stray' \/ \A c \in carried'[i] : c.tid # t
      /\ stray \subseteq stray'
  BY <1>3, TunnelsAssumption DEF TypeOK
<1>9. Elsewhere(i, t)
  <2>1. \A j \in Insts : listed[j] = NoRow => \A u \in Rows : rows[u].inst # j
    BY NoRowNoTunnel
  <2> QED
    BY <1>7, <1>8, <2>1 DEF Elsewhere, TypeOK
<1>10. Here(r, i, t) /\ Here(r, i, t)'
  BY <1>1, <1>2, <1>5 DEF Here
<1>11. PlaceOf(r)'
  BY <1>2, <1>5, <1>7
  DEF PlaceOf, ListedPlace, InsertPlace, SendingPlace, RemovingPlace, Sending
<1>12. t \in Rows' => RowNamesOwner(t)' /\ ServedTunnel(t)'
  <2> SUFFICES ASSUME t \in Rows PROVE RowNamesOwner(t)' /\ ServedTunnel(t)'
    BY <1>7
  <2>1. RowNamesOwner(t)'
    BY <1>7 DEF Agreement, RowNamesOwner
  <2>2. CASE q.op = "close"
    BY <1>2, <1>7, <2>1, <2>2, TunnelsAssumption DEF ServedTunnel, TypeOK
  <2>3. CASE q.op = "delete"
    <3>1. Doomed(t)'
      BY <1>5, <2>3 DEF Doomed, Dooms
    <3> QED
      BY <2>1, <3>1 DEF ServedTunnel
  <2> QED
    BY <1>2, <2>2, <2>3
<1>13. ASSUME NEW j \in Insts, NEW c \in carried'[j], c.tid = t PROVE KnownTunnel(j, t)'
  <2>1. CASE j = i
    BY <1>8, <1>13, <2>1 DEF KnownTunnel
  <2>2. CASE j # i
    <3>1. c \in carried[j] /\ <<j, t>> \notin req[r].todo
      BY <1>2, <1>8, <1>13, <2>2
    <3> QED
      BY <1>1, <1>2, <1>6, <1>8, <1>13, <3>1, KnownToOthers
  <2> QED
    BY <2>1, <2>2
<1> QED
  BY <1>6, <1>9, <1>10, <1>11, <1>12, <1>13, StepKeepsAgreement

LEMMA DeleteRowsKeeps ==
  ASSUME TypeOK, SentTunnels, Agreement, TypeOK', NEW r \in Requests, DeleteRows(r),
         req[r].op # "delete_frps"
  PROVE  Agreement'
<1> DEFINE q == req[r]
<1>1. PICK i, t : i = q.inst /\ t = q.tid
  OBVIOUS
<1>2. /\ q.pc = "remove" /\ Active(r) /\ q.pc \in Using /\ q.op \in {"close", "delete"}
      /\ t \in TunnelIds /\ q.todo = {}
      /\ q.op = "close" => (t \in Rows => rows[t].inst = Unbound)
      /\ q.op = "delete" => t \in Rows /\ rows[t].by = q.by
  BY <1>1, RemovesATunnel DEF DeleteRows
<1>3. /\ q.op = "close" => rows' = rows
      /\ q.op = "delete" => rows' = Without({t})
      /\ lines' = lines /\ Finish(r) /\ UNCHANGED <<listed, quota, node, stray>>
  <2>1. {u \in Rows : u = t /\ rows[u].by = q.by} = {t} \/ q.op = "close"
    BY <1>2
  <2> QED
    BY <1>1, <1>2, <2>1 DEF DeleteRows
<1>4. \A s \in Requests \ {r} : req'[s] = req[s] /\ (Active(s) => Apart(s, i, t))
  <2>1. \A s \in Requests \ {r} : req'[s] = req[s]
    BY <1>3 DEF Finish, TypeOK
  <2> QED
    BY <1>1, <1>2, <2>1, OthersAreApart
<1>5. /\ Rows' \subseteq Rows /\ \A u \in Rows : u # t => u \in Rows' /\ rows'[u] = rows[u]
      /\ t \in Rows' => rows'[t] = rows[t] /\ q.op = "close"
  BY <1>2, <1>3 DEF Without, Rows
<1>6. Elsewhere(i, t)
  <2>1. \A j \in Insts : listed[j] = NoRow => \A u \in Rows : rows[u].inst # j
    BY NoRowNoTunnel
  <2>2. \A u \in Rows' : rows'[u] = rows[u]
    BY <1>5
  <2> QED
    BY <1>3, <1>5, <2>1, <2>2 DEF Elsewhere, TypeOK, node
<1>7. PlaceOf(r)' /\ req'[r] = [pc |-> "done"]
  BY <1>3, PlaceReached
<1>8. Here(r, i, t) /\ Here(r, i, t)'
  BY <1>1, <1>2, <1>7 DEF Here, Active
<1>9. t \in Rows' => RowNamesOwner(t)' /\ ServedTunnel(t)'
  <2> SUFFICES ASSUME t \in Rows' PROVE RowNamesOwner(t)' /\ ServedTunnel(t)'
    OBVIOUS
  <2>1. t \in Rows /\ rows'[t] = rows[t] /\ rows[t].inst = Unbound
    BY <1>2, <1>5
  <2> QED
    BY <1>3, <2>1, TunnelsAssumption DEF Agreement, RowNamesOwner, ServedTunnel, TypeOK
<1>10. ASSUME NEW j \in Insts, NEW c \in carried'[j], c.tid = t PROVE KnownTunnel(j, t)'
  <2>1. c \in carried[j] /\ <<j, t>> \notin req[r].todo /\ stray \subseteq stray'
    BY <1>2, <1>3, <1>10 DEF node
  <2> QED
    BY <1>1, <1>2, <1>4, <1>10, <2>1, KnownToOthers
<1> QED
  BY <1>4, <1>6, <1>7, <1>8, <1>9, <1>10, StepKeepsAgreement

\* A request that deletes a line is alone.
LEMMA Alone ==
  ASSUME NEW r \in Requests, \A s \in Requests \ {r} : ~Active(s) /\ req'[s] = req[s], PlaceOf(r)'
  PROVE  /\ TakesTurns' /\ \A s \in Requests : PlaceOf(s)'
         /\ \A s \in Requests \ {r} : /\ \A u : ~Dooms(s, u) /\ ~Dooms(s, u)'
                                      /\ req[s].pc # "remove" /\ req[s].pc \notin Sending
<1>1. \A s \in Requests \ {r} : req[s].pc \in {"new", "done"} /\ req'[s] = req[s]
  BY DEF Active
<1>2. TakesTurns'
  BY <1>1 DEF TakesTurns, Active
<1>3. \A s \in Requests \ {r} : PlaceOf(s)'
  BY <1>1 DEF PlaceOf, ListedPlace, InsertPlace, SendingPlace, RemovingPlace, Sending
<1>4. \A s \in Requests \ {r} : /\ \A u : ~Dooms(s, u) /\ ~Dooms(s, u)'
                                /\ req[s].pc # "remove" /\ req[s].pc \notin Sending
  BY <1>1 DEF Dooms, Sending
<1> QED
  BY <1>2, <1>3, <1>4

LEMMA DeletesALine ==
  ASSUME TypeOK, SentTunnels, Agreement, NEW r \in Requests, req[r].pc = "remove",
         req[r].op = "delete_frps"
  PROVE  /\ req[r] \in Removing /\ Active(r) /\ \A s \in Requests \ {r} : ~Active(s)
         /\ \A x \in req[r].todo : /\ x = <<x[1], x[2]>> /\ x[2] \in RowsOf(req[r].line)
                                   /\ x[1] # Unbound => x[1] \in Insts /\ listed[x[1]] # NoRow
         /\ lines[req[r].line] # "none"
<1>1. req[r] \in Removing /\ Active(r)
  BY TypeParts, WhoServes DEF Active
<1>2. \A s \in Requests \ {r} : ~Active(s)
  BY <1>1 DEF Agreement, TakesTurns
<1>3. req[r].todo \in Sendings
  BY <1>1 DEF Removing
<1>4. \A x \in req[r].todo : x = <<x[1], x[2]>> /\ (x[1] # Unbound => x[1] \in Insts)
  BY <1>3 DEF Sendings
<1>5. RemovingPlace(r)
  BY DEF Agreement, PlaceOf
<1> QED
  BY <1>1, <1>2, <1>4, <1>5 DEF RemovingPlace

LEMMA DeleteFrpsKeeps ==
  ASSUME Serial, TypeOK, SentTunnels, Agreement, TypeOK', NEW r \in Requests, DeleteFrps(r)
  PROVE  Agreement'
<1>1. PICK l \in Lines :
        /\ lines[l] = "up" /\ \A s \in Requests : ~Active(s)
        /\ req' = [req EXCEPT ![r] = [op |-> "delete_frps", pc |-> "remove", inst |-> Unbound,
                                      line |-> l, tid |-> <<>>,
                                      todo |-> {<<rows[t].inst, t>> : t \in RowsOf(l)}]]
        /\ UNCHANGED <<table, node, stray>>
  BY DEF DeleteFrps
<1>2. /\ req'[r].op = "delete_frps" /\ req'[r].pc = "remove" /\ req'[r].line = l
      /\ req'[r].todo = {<<rows[t].inst, t>> : t \in RowsOf(l)}
      /\ \A s \in Requests \ {r} : ~Active(s) /\ req'[s] = req[s]
  BY <1>1 DEF TypeOK
<1>3. /\ Rows' = Rows /\ rows' = rows /\ listed' = listed /\ lines' = lines /\ hosted' = hosted
      /\ carried' = carried /\ stray' = stray /\ RowsOf(l)' = RowsOf(l)
  BY <1>1 DEF table, node, Rows, RowsOf
<1>4. \A t \in Rows : RowNamesOwner(t) /\ RowNamesOwner(t)'
  BY <1>3 DEF Agreement, RowNamesOwner
<1>5. PlaceOf(r)'
  <2>1. \A x \in req'[r].todo : x[2] \in RowsOf(l)' /\ (x[1] # Unbound => listed'[x[1]] # NoRow)
    BY <1>2, <1>3, <1>4 DEF RowsOf, RowNamesOwner
  <2>2. lines'[l] # "none"
    BY <1>1, <1>3
  <2> QED
    BY <1>2, <2>1, <2>2
    DEF PlaceOf, ListedPlace, InsertPlace, SendingPlace, RemovingPlace, Sending
<1>6. \A s \in Requests : \A u : ~Dooms(s, u)
  BY <1>1 DEF Dooms, Active
<1>7. \A u : Doomed(u)' <=> u \in RowsOf(l)
  BY <1>2, <1>3, <1>5, Alone DEF Doomed, Dooms
<1>8. ASSUME NEW j \in Insts, NEW c \in carried'[j] PROVE KnownTunnel(j, c.tid)'
  <2>1. KnownTunnel(j, c.tid) /\ ~ToTell(j, c.tid)
    BY <1>1, <1>3, <1>8 DEF Agreement, ToTell, Active
  <2>2. c.tid \in RowsOf(l) /\ rows[c.tid].inst = j => ToTell(j, c.tid)'
    BY <1>2 DEF ToTell
  <2> QED
    BY <1>3, <1>7, <2>1, <2>2 DEF KnownTunnel
<1>9. ASSUME NEW t \in Rows' PROVE ServedTunnel(t)'
  <2>1. ServedTunnel(t) /\ ~Doomed(t) /\ \A s \in Requests : req[s].pc \notin Sending
    BY <1>1, <1>3, <1>6 DEF Agreement, Doomed, Active, Sending
  <2> QED
    BY <1>3, <2>1 DEF ServedTunnel
<1> QED
  BY <1>2, <1>3, <1>4, <1>5, <1>8, <1>9, Alone DEF Agreement

LEMMA RemoveLineOnNodeKeeps ==
  ASSUME TypeOK, SentTunnels, Agreement, TypeOK', NEW r \in Requests, RemoveOnNode(r),
         req[r].op = "delete_frps"
  PROVE  Agreement'
<1> DEFINE q == req[r]
<1>1. /\ q \in Removing /\ q.pc = "remove" /\ Active(r) /\ \A s \in Requests \ {r} : ~Active(s)
      /\ \A x \in q.todo : /\ x = <<x[1], x[2]>> /\ x[2] \in RowsOf(q.line)
                           /\ x[1] # Unbound => x[1] \in Insts /\ listed[x[1]] # NoRow
      /\ lines[q.line] # "none"
  BY DeletesALine DEF RemoveOnNode
<1>2. PICK x \in q.todo :
        /\ req' = [req EXCEPT ![r].todo = @ \ {x}]
        /\ \/ /\ x[1] \in Insts /\ stray' = stray
              /\ carried' = [carried EXCEPT ![x[1]] = {c \in @ : c.tid # x[2]}]
           \/ x[1] \in Insts /\ carried' = carried /\ stray' = stray \cup {<<x[1], x[2]>>}
           \/ x[1] = Unbound /\ UNCHANGED <<carried, stray>>
  BY <1>1 DEF RemoveOnNode
<1>3. /\ req'[r].op = "delete_frps" /\ req'[r].pc = "remove" /\ req'[r].line = q.line
      /\ req'[r].todo = q.todo \ {x}
      /\ \A s \in Requests \ {r} : ~Active(s) /\ req'[s] = req[s]
  <2>1. req'[r] = [q EXCEPT !.todo = q.todo \ {x}] /\ \A s \in Requests \ {r} : req'[s] = req[s]
    BY <1>2 DEF TypeOK
  <2> QED
    BY <1>1, <2>1 DEF Removing
<1>4. /\ Rows' = Rows /\ rows' = rows /\ listed' = listed /\ lines' = lines /\ hosted' = hosted
      /\ \A l : RowsOf(l)' = RowsOf(l)
  BY DEF RemoveOnNode, table, Rows, RowsOf
<1>5. /\ stray \subseteq stray'
      /\ \A j \in Insts : carried'[j] \subseteq carried[j]
      /\ \A j \in Insts : \A c \in carried[j] : c.tid # x[2] => c \in carried'[j]
      /\ \A j \in Insts : j = x[1] => <<j, x[2]>> \in stray' \/ \A c \in carried'[j] : c.tid # x[2]
  BY <1>2, TunnelsAssumption DEF TypeOK
<1>6. PlaceOf(r)'
  BY <1>1, <1>3, <1>4
  DEF PlaceOf, ListedPlace, InsertPlace, SendingPlace, RemovingPlace, Sending
<1>7. \A u : Doomed(u)' <=> Doomed(u)
  BY <1>1, <1>3, <1>4, <1>6, Alone DEF Doomed, Dooms
<1>8. ASSUME NEW j \in Insts, NEW c \in carried'[j] PROVE KnownTunnel(j, c.tid)'
  <2>1. c \in carried[j] /\ KnownTunnel(j, c.tid)
    BY <1>5, <1>8 DEF Agreement
  <2>2. CASE ToTell(j, c.tid)
    <3>1. <<j, c.tid>> \in q.todo
      BY <1>1, <2>2 DEF ToTell, Active
    <3>2. CASE x = <<j, c.tid>>
      BY <1>5, <1>8, <3>2 DEF KnownTunnel
    <3>3. CASE x # <<j, c.tid>>
      BY <1>3, <3>1, <3>3 DEF KnownTunnel, ToTell
    <3> QED
      BY <3>2, <3>3
  <2>3. CASE ~ToTell(j, c.tid)
    BY <1>4, <1>5, <1>7, <2>1, <2>3 DEF KnownTunnel
  <2> QED
    BY <2>2, <2>3
<1>9. ASSUME NEW t \in Rows' PROVE ServedTunnel(t)'
  <2> SUFFICES ASSUME rows[t].status = "live", rows[t].inst \in hosted, ~Doomed(t)
               PROVE  [tid |-> t, local |-> rows[t].local] \in carried'[rows[t].inst]
    BY <1>4, <1>7 DEF ServedTunnel
  <2>1. ServedTunnel(t) /\ rows[t].inst \in Insts
    BY <1>4, <1>9 DEF Agreement, TypeOK
  <2>2. \A s \in Requests : req[s].pc \notin Sending
    BY <1>1 DEF Active, Sending
  <2>3. [tid |-> t, local |-> rows[t].local] \in carried[rows[t].inst]
    BY <2>1, <2>2 DEF ServedTunnel
  <2>4. t # x[2]
    BY <1>1, <1>2 DEF Doomed, Dooms
  <2> QED
    BY <1>5, <2>1, <2>3, <2>4
<1>10. \A t \in Rows' : RowNamesOwner(t)'
  BY <1>4 DEF Agreement, RowNamesOwner
<1> QED
  BY <1>3, <1>6, <1>8, <1>9, <1>10, Alone DEF Agreement

LEMMA DeleteLineKeeps ==
  ASSUME TypeOK, SentTunnels, Agreement, TypeOK', NEW r \in Requests, DeleteRows(r),
         req[r].op = "delete_frps"
  PROVE  Agreement'
<1> DEFINE q == req[r]
<1>1. /\ q \in Removing /\ q.pc = "remove" /\ Active(r) /\ q.todo = {}
      /\ \A s \in Requests \ {r} : ~Active(s)
  BY DeletesALine DEF DeleteRows
<1>2. /\ rows' = Without(RowsOf(q.line)) /\ lines' = [lines EXCEPT ![q.line] = "gone"]
      /\ Finish(r) /\ UNCHANGED <<listed, quota, node, stray>>
  BY DEF DeleteRows
<1>3. \A s \in Requests \ {r} : ~Active(s) /\ req'[s] = req[s]
  BY <1>1, <1>2 DEF Finish, TypeOK
<1>4. PlaceOf(r)' /\ req'[r] = [pc |-> "done"]
  BY <1>2, PlaceReached
<1>5. /\ Rows' = Rows \ RowsOf(q.line) /\ \A u \in Rows' : rows'[u] = rows[u]
      /\ \A l \in Lines : lines[l] # "none" => lines'[l] # "none"
      /\ listed' = listed /\ hosted' = hosted /\ carried' = carried /\ stray' = stray
  BY <1>2 DEF Without, Rows, node, TypeOK
<1>6. \A u : ~Doomed(u)' /\ (Doomed(u) => u \in RowsOf(q.line)) /\ (u \in RowsOf(q.line) => Doomed(u))
  BY <1>1, <1>3, <1>4, Alone DEF Doomed, Dooms
<1>7. ASSUME NEW j \in Insts, NEW c \in carried'[j] PROVE KnownTunnel(j, c.tid)'
  <2>1. KnownTunnel(j, c.tid)
    BY <1>5, <1>7 DEF Agreement
  <2>2. ~ToTell(j, c.tid)
    BY <1>1 DEF ToTell, Active
  <2> QED
    BY <1>5, <1>6, <2>1, <2>2 DEF KnownTunnel
<1>8. ASSUME NEW t \in Rows' PROVE ServedTunnel(t)'
  <2>1. ServedTunnel(t) /\ ~Doomed(t) /\ rows'[t] = rows[t]
    BY <1>5, <1>6, <1>8 DEF Agreement
  <2>2. \A s \in Requests : req[s].pc \notin Sending
    BY <1>1 DEF Active, Sending
  <2> QED
    BY <1>5, <2>1, <2>2 DEF ServedTunnel
<1>9. ASSUME NEW t \in Rows' PROVE RowNamesOwner(t)'
  <2>1. RowNamesOwner(t) /\ rows'[t] = rows[t] /\ rows[t].line \in Lines
    BY <1>5, <1>9 DEF Agreement, TypeOK, Row
  <2> QED
    BY <1>5, <2>1 DEF RowNamesOwner
<1> QED
  BY <1>3, <1>4, <1>7, <1>8, <1>9, Alone DEF Agreement

\* A step in which no request at work moves, and the table only grows by an unbound tunnel
\* of a line that was not there.
LEMMA OthersTables ==
  ASSUME TypeOK, SentTunnels, Agreement, TypeOK', UNCHANGED <<node, stray>>,
         \A s \in Requests : req'[s] = req[s] \/ (~Active(s) /\ ~Active(s)'),
         \A u \in Rows : u \in Rows' /\ rows'[u] = rows[u],
         \A u \in Rows' \ Rows : /\ rows'[u].inst = Unbound /\ RowNamesOwner(u)'
                                 /\ lines[rows'[u].line] = "none",
         \A l \in Lines : lines[l] # "none" => lines'[l] # "none",
         \A j \in Insts : listed'[j] = NoRow <=> listed[j] = NoRow
  PROVE  Agreement'
<1>1. \A s \in Requests : ~Active(s)' \/ (Active(s) /\ req'[s] = req[s])
  BY DEF Active
<1>2. TakesTurns'
  BY <1>1 DEF Agreement, TakesTurns
<1>3. \A u \in Rows' : RowNamesOwner(u)'
  <2> SUFFICES ASSUME NEW u \in Rows PROVE RowNamesOwner(u)'
    OBVIOUS
  <2>1. rows[u].inst \in Insts \cup {Unbound} /\ rows[u].line \in Lines /\ RowNamesOwner(u)
    BY DEF TypeOK, Row, Agreement
  <2> QED
    BY <2>1 DEF RowNamesOwner
<1>4. ASSUME NEW s \in Requests PROVE PlaceOf(s)'
  <2>1. CASE ~Active(s)'
    BY <2>1 DEF Active, PlaceOf, ListedPlace, InsertPlace, SendingPlace, RemovingPlace, Sending
  <2>2. CASE Active(s)'
    <3> DEFINE q == req[s]
    <3>1. req'[s] = q /\ Active(s) /\ PlaceOf(s) /\ carried' = carried
      BY <1>1, <2>2 DEF Agreement, node
    <3>2. /\ q.pc \in {"create", "enlist", "provision", "insert", "apply", "confirm", "failed"}
               => q.inst \in Insts /\ q.line \in Lines
          /\ q.pc = "forget" => q.inst \in Insts
          /\ q.pc = "remove" => q \in Removing /\ q.line \in Lines /\ q.todo \in Sendings
      BY TypeParts, WhoServes DEF Serving, Deleting, Removing
    <3>3. ListedPlace(s)' /\ InsertPlace(s)' /\ SendingPlace(s)'
      BY <3>1, <3>2 DEF PlaceOf, ListedPlace, InsertPlace, SendingPlace, Sending
    <3>4. RemovingPlace(s)'
      <4> SUFFICES ASSUME q.pc = "remove" PROVE RemovingPlace(s)'
        BY <3>1 DEF RemovingPlace
      <4>1. \A x \in q.todo : x[1] # Unbound => listed'[x[1]] # NoRow
        BY <3>1, <3>2 DEF PlaceOf, RemovingPlace, Sendings
      <4>2. q.op = "close" => (q.tid \in Rows' => rows'[q.tid].inst = Unbound)
        BY <3>1 DEF PlaceOf, RemovingPlace
      <4>3. q.op = "delete_frps" => \A x \in q.todo : x[2] \in RowsOf(q.line)'
        BY <3>1 DEF PlaceOf, RemovingPlace, RowsOf
      <4> QED
        BY <3>1, <3>2, <4>1, <4>2, <4>3 DEF PlaceOf, RemovingPlace
    <3> QED
      BY <3>3, <3>4 DEF PlaceOf
  <2> QED
    BY <2>1, <2>2
<1>5. \A u \in Rows : \A s \in Requests : Dooms(s, u)' => Dooms(s, u)
  BY <1>1 DEF Dooms, RowsOf, Active
<1>6. \A u \in Rows : \A s \in Requests : Dooms(s, u) => Dooms(s, u)'
  BY DEF Dooms, RowsOf, Active
<1>7. \A u \in Rows : Doomed(u)' <=> Doomed(u)
  BY <1>5, <1>6 DEF Doomed
<1>8. ASSUME NEW j \in Insts, NEW c \in carried'[j] PROVE KnownTunnel(j, c.tid)'
  <2>1. KnownTunnel(j, c.tid) /\ stray' = stray
    BY <1>8 DEF Agreement, node
  <2>2. ToTell(j, c.tid) => ToTell(j, c.tid)'
    BY DEF ToTell, Active
  <2> QED
    BY <1>7, <2>1, <2>2 DEF KnownTunnel
<1>9. ASSUME NEW u \in Rows' PROVE ServedTunnel(u)'
  <2>1. CASE u \in Rows
    <3>1. ServedTunnel(u) /\ rows'[u] = rows[u] /\ UNCHANGED <<hosted, carried>>
      BY <2>1 DEF Agreement, node
    <3>2. \A s \in Requests : req[s].pc \in Sending => req'[s] = req[s]
      BY DEF Active, Sending
    <3> QED
      BY <1>7, <2>1, <3>1, <3>2 DEF ServedTunnel
  <2>2. CASE u \notin Rows
    BY <1>9, <2>2, TunnelsAssumption DEF ServedTunnel, TypeOK
  <2> QED
    BY <2>1, <2>2
<1> QED
  BY <1>2, <1>3, <1>4, <1>8, <1>9 DEF Agreement

LEMMA ImportFrpsKeeps ==
  ASSUME TypeOK, SentTunnels, Agreement, TypeOK', NEW l \in Lines, ImportFrps(l)
  PROVE  Agreement'
<1> DEFINE t == ImportedId(l)
           row == [inst |-> Unbound, line |-> l, port |-> ProviderPort,
                   local |-> Min(LocalPorts), by |-> "import", status |-> "imported"]
<1>1. /\ l \in Third /\ lines[l] = "none" /\ lines' = [lines EXCEPT ![l] = "up"]
      /\ rows' = With(t, row) /\ UNCHANGED <<listed, quota, node, req, stray>>
  BY DEF ImportFrps
<1>2. t \notin Rows
  <2> SUFFICES ASSUME t \in Rows PROVE FALSE
    OBVIOUS
  <2>1. RowNamesOwner(t)
    BY DEF Agreement
  <2>2. rows[t].line # l
    BY <1>1, <2>1 DEF RowNamesOwner
  <2>3. t[1] = l /\ \A k \in Third : t = ImportedId(k) => k = l
    BY DEF ImportedId
  <2> QED
    BY <1>1, <2>1, <2>2, <2>3, TunnelsAssumption DEF RowNamesOwner
<1>3. /\ Rows' = Rows \cup {t} /\ \A u \in Rows : u \in Rows' /\ rows'[u] = rows[u]
      /\ rows'[t].inst = Unbound /\ rows'[t].line = l
  BY <1>1, <1>2 DEF With, Rows
<1>4. RowNamesOwner(t)'
  <2>1. lines'[l] # "none"
    BY <1>1 DEF TypeOK
  <2> QED
    BY <1>1, <1>3, <2>1 DEF RowNamesOwner
<1>5. \A k \in Lines : lines[k] # "none" => lines'[k] # "none"
  BY <1>1 DEF TypeOK
<1> HIDE DEF t, row
<1>6. \A u \in Rows' \ Rows : /\ rows'[u].inst = Unbound /\ RowNamesOwner(u)'
                              /\ lines[rows'[u].line] = "none"
  BY <1>1, <1>3, <1>4
<1> QED
  BY <1>1, <1>3, <1>5, <1>6, OthersTables

LEMMA AdministrationKeeps ==
  ASSUME TypeOK, SentTunnels, Agreement, TypeOK',
         \/ \E r \in Requests : SetPortGrant(r) \/ SetAssignment(r)
         \/ \E l \in Lines : CreateFrps(l)
         \/ UNCHANGED vars
  PROVE  Agreement'
<1>1. UNCHANGED <<rows, node, stray>>
  BY DEF SetPortGrant, SetAssignment, CreateFrps, vars, table
<1>2. \A l \in Lines : lines[l] # "none" => lines'[l] # "none"
  BY DEF SetPortGrant, SetAssignment, CreateFrps, vars, table, TypeOK
<1>3. \A j \in Insts : listed'[j] = NoRow <=> listed[j] = NoRow
  <2>1. ASSUME NEW r \in Requests, SetAssignment(r)
        PROVE  \A j \in Insts : listed'[j] = NoRow <=> listed[j] = NoRow
    <3>1. PICK i \in Insts, u \in Users \cup {Admin} :
            listed[i] # NoRow /\ listed' = [listed EXCEPT ![i] = u]
      BY <2>1 DEF SetAssignment
    <3>2. u # NoRow
      BY TunnelsAssumption DEF NoRow, Admin
    <3> QED
      BY <3>1, <3>2 DEF TypeOK
  <2>2. ASSUME ~\E r \in Requests : SetAssignment(r) PROVE listed' = listed
    BY <2>2 DEF SetPortGrant, CreateFrps, vars, table
  <2> QED
    BY <2>1, <2>2
<1>4. \A s \in Requests : req'[s] = req[s] \/ (~Active(s) /\ ~Active(s)')
  <2>1. ASSUME NEW r \in Requests, SetPortGrant(r) \/ SetAssignment(r)
        PROVE  \A s \in Requests : req'[s] = req[s] \/ (~Active(s) /\ ~Active(s)')
    <3>1. New(r) /\ Finish(r)
      BY <2>1 DEF SetPortGrant, SetAssignment
    <3>2. req'[r] = [pc |-> "done"] /\ \A s \in Requests \ {r} : req'[s] = req[s]
      BY <3>1 DEF Finish, TypeOK
    <3> QED
      BY <3>1, <3>2 DEF New, Active
  <2>2. ASSUME ~\E r \in Requests : SetPortGrant(r) \/ SetAssignment(r) PROVE req' = req
    BY <2>2 DEF CreateFrps, vars
  <2> QED
    BY <2>1, <2>2
<1>5. Rows' = Rows /\ rows' = rows
  BY <1>1 DEF Rows
<1> QED
  BY <1>1, <1>2, <1>3, <1>4, <1>5, OthersTables

LEMMA AgreementKept ==
  ASSUME Serial, TypeOK, SentTunnels, Agreement, TypeOK', [Next]_vars
  PROVE  Agreement'
<1>1. ASSUME NEW r \in Requests, CreateTunnel(r) \/ AddInstancePort(r) PROVE Agreement'
  <2>1. PICK i \in Insts, l \in Lines, p \in LocalPorts :
          /\ New(r) /\ listed[i] # NoRow /\ lines[l] = "up"
          /\ \/ l \in Third /\ BindTunnel(r, i, l, p)
             \/ l \in Direct /\ \E op \in {"create", "add"} : Choose(r, op, i, l, p, p)
             \/ l \in Own /\ \E op \in {"create", "add"}, port \in Segment \cup {0} :
                               Choose(r, op, i, l, port, p)
    <3>1. \A l \in Lines : FreePorts(l) \subseteq Segment \cup {0}
      BY DEF FreePorts, PortsOf
    <3> QED
      BY <1>1, <3>1, ChosenPortIsFree DEF CreateTunnel, AddInstancePort
  <2>2. l \in Direct \/ l \in Own => l \in Lines \ Third
    BY TunnelsAssumption DEF Lines
  <2> QED
    BY <2>1, <2>2, BindTunnelKeeps, ChooseKeeps
<1>2. ASSUME NEW r \in Requests, Handler(r) PROVE Agreement'
  <2>1. CASE RemoveOnNode(r)
    BY <2>1, RemoveOnNodeKeeps, RemoveLineOnNodeKeeps
  <2>2. CASE DeleteRows(r)
    BY <2>2, DeleteRowsKeeps, DeleteLineKeeps
  <2>3. CASE SetPortGrant(r) \/ SetAssignment(r)
    BY <2>3, AdministrationKeeps
  <2> QED
    BY <1>1, <1>2, <2>1, <2>2, <2>3, ReapplyTunnelKeeps, UpdateInstancePortKeeps,
       CloseInstancePortKeeps, DeleteTunnelKeeps, DeleteFrpsKeeps, InsertRowKeeps, ApplyOnNodeKeeps,
       StoreStatusKeeps, CreateInstanceKeeps, CreateOnNodeKeeps, EnlistInstanceKeeps,
       ProvisionPortKeeps, DeleteInstanceKeeps, UnregisterOnNodeKeeps, ForgetInstanceKeeps
    DEF Handler
<1> QED
  BY <1>2, ImportFrpsKeeps, AdministrationKeeps DEF Next

LEMMA InitAgrees == Init => Agreement
<1> SUFFICES ASSUME Init PROVE Agreement
  OBVIOUS
<1>1. Rows = {} /\ \A i \in Insts : carried[i] = {}
  BY DEF Init, Rows
<1>2. \A r \in Requests : req[r].pc = "new"
  BY DEF Init
<1>3. TakesTurns
  BY <1>2 DEF TakesTurns, Active
<1>4. \A r \in Requests : PlaceOf(r)
  BY <1>2 DEF PlaceOf, ListedPlace, InsertPlace, SendingPlace, RemovingPlace, Sending
<1> QED
  BY <1>1, <1>3, <1>4 DEF Agreement

LEMMA AgreementHolds ==
  ASSUME Serial
  PROVE  Spec => [](IInv /\ Agreement)
<1>1. IInv /\ IInv' /\ Agreement /\ [Next]_vars => Agreement'
  BY AgreementKept DEF IInv
<1> QED
  BY <1>1, InitAgrees, Inductive, PTL DEF Spec

\* When requests take turns, the panel's table and the node agree, whatever calls and
\* answers are lost: the node keeps no tunnel that the table has forgotten, but for the
\* removals it was never told of, and a tunnel whose status says so is served with the
\* local port of the table (instanceports.go, tunnels.go, instances.go).
THEOREM NodeAgrees ==
  ASSUME Serial
  PROVE  Spec => []NodeAgreesWithTable
<1>1. ASSUME IInv, Agreement PROVE NodeAgreesWithTable
  <2>0. TypeOK /\ SentTunnels
    BY <1>1 DEF IInv
  <2>1. ASSUME NEW i, NEW t, NEW r \in Requests, req[r].pc = "remove", <<i, t>> \in req[r].todo
        PROVE  WorksOn(r, i, t)
    <3>1. CASE req[r].op = "delete_frps"
      BY <2>1, <3>1 DEF WorksOn, Active
    <3>2. CASE req[r].op # "delete_frps"
      BY <1>1, <2>0, <2>1, <3>2, RemovesATunnel DEF WorksOn
    <3> QED
      BY <3>1, <3>2
  <2>2. NodeTunnelsAreKnown
    <3> SUFFICES ASSUME NEW i \in Insts, NEW c \in carried[i], ToTell(i, c.tid)
                 PROVE  \E r \in Requests : WorksOn(r, i, c.tid)
      BY <1>1 DEF NodeTunnelsAreKnown, Agreement, KnownTunnel
    <3> QED
      BY <2>1 DEF ToTell
  <2>3. LiveRowsAreServed
    <3> SUFFICES ASSUME NEW t \in Rows, rows[t].status = "live", rows[t].inst \in hosted,
                        \A r \in Requests : ~WorksOn(r, rows[t].inst, t)
                 PROVE  [tid |-> t, local |-> rows[t].local] \in carried[rows[t].inst]
      BY DEF LiveRowsAreServed
    <3>1. t # <<>>
      BY <2>0 DEF TypeOK, TunnelIds, TunnelId, ImportedId
    <3>2. ~Doomed(t)
      BY <3>1 DEF Doomed, Dooms, WorksOn, Active
    <3>3. \A r \in Requests : req[r].pc \in Sending => req[r].tid # t
      BY <3>1 DEF Sending, WorksOn, Active
    <3> QED
      BY <1>1, <3>2, <3>3 DEF Agreement, ServedTunnel
  <2> QED
    BY <2>2, <2>3 DEF NodeAgreesWithTable
<1> QED
  BY <1>1, AgreementHolds, PTL

-----------------------------------------------------------------------------
(* The node's side: module FrpManager, one call at a time *)

\* No call is under way but while the daemon serves, and one at most.
OneCall ==
  /\ \A c, d \in Callers : ~At(c, "idle") /\ ~At(d, "idle") => c = d
  /\ up # "up" => Quiet /\ entry = 0

\* Which steps a call goes through, and that it holds the current definition set, unless
\* it deletes the instance, and a frpc only where it says so.
CallSteps(c) ==
  /\ cl[c].pc \notin {"kill", "store", "record"} => cl[c].pid = 0
  /\ cl[c].pc # "idle" =>
       /\ cl[c].st # 0 /\ entry = IF cl[c].op = "delete" THEN 0 ELSE cl[c].st
       /\ cl[c].op # "none"
  /\ cl[c].pc = "persist" => cl[c].op \in {"apply", "remove"}
  /\ cl[c].pc \in {"stale", "check", "launch", "store", "record"} =>
       cl[c].op \in {"apply", "remove", "resume"}
  /\ cl[c].pc = "clean" => cl[c].op \in {"last", "delete"}
  /\ cl[c].pc = "forget" => cl[c].op = "last"
  /\ cl[c].pc = "done" => cl[c].op \in {"delete", "halt"}

\* The frpc in the hands of a call: taken away from the set, then the new one.
CallFrpc(c) ==
  /\ cl[c].pc \in {"kill", "stale", "check", "launch", "store", "clean", "forget", "done"}
       => cmd[cl[c].st] = 0
  /\ cl[c].pc \in {"store", "record"} =>
       cl[c].pid # 0 /\ proc[cl[c].pid] # "unborn" /\ serves[cl[c].pid] = Rendered(cl[c].st)
  /\ cl[c].pc = "record" => cmd[cl[c].st] = cl[c].pid

\* What a call does to the tunnels it is about, in memory, then in the file.
CallTunnels(c) == cl[c].pc # "idle" =>
  /\ \A t \in cl[c].t : claim[t] = "unknown"
  /\ cl[c].op = "apply" => cl[c].t \subseteq tuns[cl[c].st]
  /\ cl[c].op = "remove" => cl[c].t \cap tuns[cl[c].st] = {}
  /\ cl[c].op = "last" => tuns[cl[c].st] = {}
  /\ cl[c].op = "delete" => cl[c].t = Tunnels
  /\ cl[c].op \in {"halt", "resume"} => cl[c].t = {}
  /\ cl[c].op \in {"apply", "remove"} /\ cl[c].pc # "persist" =>
       disk.tunnels = tuns[cl[c].st]
  /\ cl[c].pc = "forget" \/ (cl[c].op = "delete" /\ cl[c].pc = "done") =>
       disk.tunnels = {}

\* A definition set that manages a frpc is the current one or a call's, and the frpc was
\* started; a set to come is empty, and no frpc has direct tunnels.
SetsFrpc ==
  /\ \A o \in Objects : cmd[o] # 0 =>
       /\ proc[cmd[o]] # "unborn"
       /\ entry = o \/ \E c \in Callers : ~At(c, "idle") /\ cl[c].st = o
  /\ \A o \in Objects \ made : tuns[o] = {}
  /\ \A p \in Procs : serves[p] \cap DirectTunnels = {}

\* The current set, and the frpc it manages, have what the callers were told; without
\* a set there is nothing in the file either.
SetAnswers ==
  /\ entry # 0 => \A t \in Tunnels :
       /\ claim[t] = "present" => t \in tuns[entry]
       /\ claim[t] = "absent" => t \notin tuns[entry]
       /\ cmd[entry] # 0 /\ claim[t] # "unknown" =>
            (t \in serves[cmd[entry]] <=> t \in Rendered(entry))
  /\ up = "up" /\ Quiet /\ entry = 0 => disk.tunnels = {}

FrpFacts ==
  /\ OneCall /\ SetsFrpc /\ SetAnswers
  /\ \A c \in Callers : CallSteps(c) /\ CallFrpc(c) /\ CallTunnels(c)
  /\ AnswersAreDurable /\ NoStrayFrpc

FrpIInv == FrpTypeOK /\ FrpFacts

\* Of the callers, all but one rest.
Rests(c) == \A d \in Callers \ {c} : At(d, "idle") /\ cl[d].pid = 0 /\ cl'[d] = cl[d]

LEMMA CallerFields ==
  ASSUME FrpTypeOK, NEW c \in Callers
  PROVE  /\ cl[c].t \subseteq Tunnels /\ cl[c].st \in Objects \cup {0}
         /\ cl[c].pid \in Procs \cup {0}
BY DEF FrpTypeOK, CallRecords

LEMMA OnlyCall ==
  ASSUME FrpIInv, NEW c \in Callers, ~At(c, "idle")
  PROVE  /\ up = "up" /\ \A d \in Callers \ {c} : At(d, "idle") /\ cl[d].pid = 0
         /\ cl[c].st \in Objects /\ ~Quiet
<1>1. ~Quiet
  BY DEF Quiet, At
<1>2. up = "up" /\ \A d \in Callers \ {c} : At(d, "idle")
  BY <1>1 DEF FrpIInv, FrpFacts, OneCall
<1>3. \A d \in Callers : CallSteps(d)
  BY DEF FrpIInv, FrpFacts
<1>4. cl[c].st \in Objects
  BY <1>3, CallerFields DEF FrpIInv, CallSteps, At
<1>5. ASSUME NEW d \in Callers \ {c} PROVE At(d, "idle") /\ cl[d].pid = 0
  BY <1>2, <1>3 DEF CallSteps, At
<1> QED BY <1>1, <1>2, <1>4, <1>5

\* A call that begins is alone as well.
LEMMA FirstCall ==
  ASSUME FrpIInv, ~Overlap, NEW c \in Callers, MayCall(c)
  PROVE  /\ up = "up" /\ Quiet /\ \A d \in Callers : At(d, "idle") /\ cl[d].pid = 0
         /\ \A o \in Objects : cmd[o] # 0 => o = entry
         /\ entry = 0 => disk.tunnels = {}
BY DEF FrpIInv, FrpFacts, CallSteps, At, Quiet, MayCall, SetsFrpc, SetAnswers

LEMMA CallKeeps ==
  ASSUME FrpIInv, NEW c \in Callers, Rests(c), up = "up", up' = up,
         CallSteps(c)', CallFrpc(c)', CallTunnels(c)'
  PROVE  OneCall' /\ \A d \in Callers : CallSteps(d)' /\ CallFrpc(d)' /\ CallTunnels(d)'
<1>1. OneCall'
  BY DEF OneCall, Rests, At
<1>2. ASSUME NEW d \in Callers \ {c} PROVE CallSteps(d)' /\ CallFrpc(d)' /\ CallTunnels(d)'
  BY DEF Rests, At, CallSteps, CallFrpc, CallTunnels
<1> QED BY <1>1, <1>2


LEMMA ApplyKeeps ==
  ASSUME FrpIInv, ~Overlap, FrpTypeOK', NEW c \in Callers, NEW t \in Tunnels, Apply(c, t)
  PROVE  FrpFacts'
<1>0. CallSteps(c) /\ CallFrpc(c) /\ CallTunnels(c) /\ FrpTypeOK
  BY DEF FrpIInv, FrpFacts
<1>1. Rests(c) /\ up = "up" /\ up' = up
  BY FirstCall DEF Apply, BeginCall, Rests
<1>2. CallSteps(c)'
  BY FirstCall, FrpAssumption DEF Apply, MayCall, BeginCall, CallSteps
<1>3. CallFrpc(c)'
  BY FirstCall, <1>0 DEF Apply, BeginCall, CallFrpc
<1>4. CallTunnels(c)'
  BY DEF Apply, BeginCall, Unclaim, CallTunnels, FrpTypeOK
<1>5. SetsFrpc'
  BY FirstCall, FrpAssumption DEF Apply, At, FrpIInv, FrpFacts, SetsFrpc
<1>6. SetAnswers'
  <2>1. PICK st \in IF entry # 0 THEN {entry} ELSE Objects \ made :
          entry' = st /\ tuns' = [tuns EXCEPT ![st] = @ \cup {t}]
    BY DEF Apply
  <2>2. st \in Objects /\ tuns'[st] = tuns[st] \cup {t}
    BY <2>1 DEF FrpTypeOK
  <2>3. ~Quiet'
    BY DEF Apply, BeginCall, FrpTypeOK, Quiet
  <2>4. ASSUME entry = 0 PROVE tuns[st] = {} /\ cmd[st] = 0 /\ disk.tunnels = {}
    <3>1. st \in Objects \ made /\ st # entry
      BY <2>4, FrpAssumption
    <3>2. tuns[st] = {}
      BY <3>1 DEF FrpIInv, FrpFacts, SetsFrpc
    <3>3. MayCall(c)
      BY DEF Apply
    <3> QED BY <3>1, <3>2, <3>3, FirstCall
  <2>5. UNCHANGED <<cmd, serves, disk>> /\ \A u \in Tunnels : claim'[u] = IF u = t THEN "unknown" ELSE claim[u]
    BY DEF Apply, Unclaim
  <2>6. ASSUME NEW u \in Tunnels \ {t}
        PROVE  /\ claim[u] = "present" => u \in tuns[st]
               /\ claim[u] = "absent" => u \notin tuns[st]
               /\ cmd[st] # 0 /\ claim[u] # "unknown" => (u \in serves[cmd[st]] <=> u \in Rendered(st))
    BY <2>4 DEF FrpIInv, FrpFacts, SetAnswers, AnswersAreDurable
  <2> QED BY <2>1, <2>5, <2>6, <2>3 DEF SetAnswers, Rendered
<1>7. AnswersAreDurable'
  BY DEF Apply, Unclaim, FrpIInv, FrpFacts, AnswersAreDurable
<1>8. NoStrayFrpc'
  BY FirstCall DEF Apply, FrpIInv, FrpFacts, NoStrayFrpc, Live
<1> QED BY <1>1, <1>2, <1>3, <1>4, <1>5, <1>6, <1>7, <1>8, CallKeeps DEF FrpFacts


LEMMA RemoveKeeps ==
  ASSUME FrpIInv, ~Overlap, FrpTypeOK', NEW c \in Callers, NEW t \in Tunnels, Remove(c, t)
  PROVE  FrpFacts'
<1>0. CallSteps(c) /\ CallFrpc(c) /\ CallTunnels(c) /\ FrpTypeOK
  BY DEF FrpIInv, FrpFacts
<1>1. Rests(c) /\ up = "up" /\ up' = up
  BY FirstCall DEF Remove, BeginCall, Rests
<1>2. CallSteps(c)'
  BY <1>0 DEF Remove, BeginCall, CallSteps
<1>3. CallFrpc(c)'
  BY FirstCall, <1>0 DEF Remove, BeginCall, CallFrpc
<1>4. CallTunnels(c)'
  BY DEF Remove, BeginCall, Unclaim, CallTunnels, FrpTypeOK
<1>5. SetsFrpc'
  BY FirstCall DEF Remove, FrpIInv, FrpFacts, SetsFrpc
<1>6. SetAnswers'
  BY DEF Remove, Unclaim, FrpIInv, FrpFacts, SetAnswers, Rendered
<1>7. AnswersAreDurable'
  BY DEF Remove, Unclaim, FrpIInv, FrpFacts, AnswersAreDurable
<1>8. NoStrayFrpc'
  BY FirstCall DEF Remove, FrpIInv, FrpFacts, NoStrayFrpc, Live
<1> QED BY <1>1, <1>2, <1>3, <1>4, <1>5, <1>6, <1>7, <1>8, CallKeeps DEF FrpFacts


LEMMA RemoveUnknownKeeps ==
  ASSUME FrpIInv, ~Overlap, FrpTypeOK', NEW c \in Callers, NEW t \in Tunnels, RemoveUnknown(c, t)
  PROVE  FrpFacts'
<1>0. CallSteps(c) /\ CallFrpc(c) /\ CallTunnels(c) /\ FrpTypeOK
  BY DEF FrpIInv, FrpFacts
<1>1. Rests(c) /\ up = "up" /\ up' = up
  BY FirstCall DEF RemoveUnknown, Rests
<1>2. CallSteps(c)'
  BY FirstCall DEF RemoveUnknown, MayCall, CallSteps
<1>3. CallFrpc(c)'
  BY FirstCall, <1>0 DEF RemoveUnknown, CallFrpc
<1>4. CallTunnels(c)'
  BY DEF RemoveUnknown, MayCall, CallTunnels
<1>5. SetsFrpc'
  BY FirstCall DEF RemoveUnknown, memory, FrpIInv, FrpFacts, SetsFrpc
<1>6. SetAnswers'
  BY FirstCall DEF RemoveUnknown, memory, SetAnswers
<1>7. AnswersAreDurable'
  BY FirstCall DEF RemoveUnknown, FrpIInv, FrpFacts, AnswersAreDurable
<1>8. NoStrayFrpc'
  BY FirstCall DEF RemoveUnknown, FrpIInv, FrpFacts, NoStrayFrpc, Live
<1> QED BY <1>1, <1>2, <1>3, <1>4, <1>5, <1>6, <1>7, <1>8, CallKeeps DEF FrpFacts


LEMMA RemoveInstanceKeeps ==
  ASSUME FrpIInv, ~Overlap, FrpTypeOK', NEW c \in Callers, RemoveInstance(c)
  PROVE  FrpFacts'
<1>0. CallSteps(c) /\ CallFrpc(c) /\ CallTunnels(c) /\ FrpTypeOK
  BY DEF FrpIInv, FrpFacts
<1>1. Rests(c) /\ up = "up" /\ up' = up
  BY FirstCall DEF RemoveInstance, BeginCall, Rests
<1>2. CallSteps(c)'
  BY FirstCall DEF RemoveInstance, MayCall, BeginCall, CallSteps
<1>3. CallFrpc(c)'
  BY FirstCall, <1>0 DEF RemoveInstance, BeginCall, CallFrpc
<1>4. CallTunnels(c)'
  BY <1>0, CallerFields DEF RemoveInstance, BeginCall, Unclaim, CallTunnels
<1>5. SetsFrpc'
  BY FirstCall DEF RemoveInstance, BeginCall, At, FrpIInv, FrpFacts, SetsFrpc, FrpTypeOK,
    CallRecords
<1>6. SetAnswers'
  BY DEF RemoveInstance, BeginCall, SetAnswers, FrpTypeOK, Quiet
<1>7. AnswersAreDurable'
  BY DEF RemoveInstance, Unclaim, AnswersAreDurable
<1>8. NoStrayFrpc'
  BY FirstCall DEF RemoveInstance, BeginCall, At, FrpIInv, FrpFacts, NoStrayFrpc, Rests,
    FrpTypeOK, Live
<1> QED BY <1>1, <1>2, <1>3, <1>4, <1>5, <1>6, <1>7, <1>8, CallKeeps DEF FrpFacts


LEMMA StopInstanceKeeps ==
  ASSUME FrpIInv, ~Overlap, FrpTypeOK', NEW c \in Callers, StopInstance(c)
  PROVE  FrpFacts'
<1>0. CallSteps(c) /\ CallFrpc(c) /\ CallTunnels(c) /\ FrpTypeOK
  BY DEF FrpIInv, FrpFacts
<1>1. Rests(c) /\ up = "up" /\ up' = up
  BY FirstCall DEF StopInstance, BeginCall, Rests
<1>2. CallSteps(c)'
  BY <1>0 DEF StopInstance, BeginCall, memory, CallSteps
<1>3. CallFrpc(c)'
  BY FirstCall, <1>0 DEF StopInstance, BeginCall, CallFrpc
<1>4. CallTunnels(c)'
  BY DEF StopInstance, MayCall, BeginCall, CallTunnels
<1>5. SetsFrpc'
  BY FirstCall DEF StopInstance, memory, FrpIInv, FrpFacts, SetsFrpc
<1>6. SetAnswers'
  BY DEF StopInstance, memory, FrpIInv, FrpFacts, SetAnswers, Rendered
<1>7. AnswersAreDurable'
  BY DEF StopInstance, FrpIInv, FrpFacts, AnswersAreDurable
<1>8. NoStrayFrpc'
  BY FirstCall DEF StopInstance, memory, FrpIInv, FrpFacts, NoStrayFrpc, Live
<1> QED BY <1>1, <1>2, <1>3, <1>4, <1>5, <1>6, <1>7, <1>8, CallKeeps DEF FrpFacts


LEMMA ResumeKeeps ==
  ASSUME FrpIInv, ~Overlap, FrpTypeOK', NEW c \in Callers, Resume(c)
  PROVE  FrpFacts'
<1>0. CallSteps(c) /\ CallFrpc(c) /\ CallTunnels(c) /\ FrpTypeOK
  BY DEF FrpIInv, FrpFacts
<1>1. Rests(c) /\ up = "up" /\ up' = up
  BY FirstCall DEF Resume, BeginCall, Rests
<1>2. CallSteps(c)'
  BY <1>0 DEF Resume, BeginCall, memory, CallSteps
<1>3. CallFrpc(c)'
  BY FirstCall, <1>0 DEF Resume, BeginCall, CallFrpc
<1>4. CallTunnels(c)'
  BY DEF Resume, MayCall, BeginCall, CallTunnels
<1>5. SetsFrpc'
  BY FirstCall DEF Resume, memory, FrpIInv, FrpFacts, SetsFrpc
<1>6. SetAnswers'
  BY DEF Resume, memory, FrpIInv, FrpFacts, SetAnswers
<1>7. AnswersAreDurable'
  BY DEF Resume, FrpIInv, FrpFacts, AnswersAreDurable
<1>8. NoStrayFrpc'
  BY FirstCall, FrpAssumption DEF Resume, FrpIInv, FrpFacts, NoStrayFrpc, Live
<1> QED BY <1>1, <1>2, <1>3, <1>4, <1>5, <1>6, <1>7, <1>8, CallKeeps DEF FrpFacts


LEMMA PersistKeeps ==
  ASSUME FrpIInv, FrpTypeOK', NEW c \in Callers, Persist(c)
  PROVE  FrpFacts'
<1>0. CallSteps(c) /\ CallFrpc(c) /\ CallTunnels(c) /\ FrpTypeOK
  BY DEF FrpIInv, FrpFacts
<1>1. Rests(c) /\ up = "up" /\ up' = up
  BY OnlyCall DEF Persist, EndCall, Proceed, Rests, At, FrpTypeOK
<1>2. CallSteps(c)'
  BY <1>0 DEF Persist, EndCall, Proceed, memory, At, CallSteps, FrpTypeOK, CallRecords, Idle
<1>3. CallFrpc(c)'
  BY DEF Persist, EndCall, Proceed, CallFrpc, FrpTypeOK, CallRecords, Idle
<1>4. CallTunnels(c)'
  BY <1>0 DEF Persist, EndCall, Proceed, memory, At, CallTunnels, FrpTypeOK, CallRecords, Idle
<1>5. SetsFrpc'
  BY DEF Persist, memory, At, FrpIInv, FrpFacts, SetsFrpc, CallSteps
<1>6. SetAnswers'
  BY DEF Persist, EndCall, memory, At, FrpIInv, FrpFacts, SetAnswers, SetsFrpc, CallSteps,
    CallTunnels, FrpTypeOK, Rendered
<1>7. AnswersAreDurable'
  BY DEF Persist, EndCall, At, FrpIInv, FrpFacts, AnswersAreDurable, SetAnswers, CallSteps,
    CallTunnels
<1>8. NoStrayFrpc'
  BY OnlyCall, FrpAssumption DEF Persist, memory, At, FrpIInv, FrpFacts, NoStrayFrpc, CallSteps,
    Live
<1> QED BY <1>1, <1>2, <1>3, <1>4, <1>5, <1>6, <1>7, <1>8, CallKeeps DEF FrpFacts


LEMMA TakeCmdKeeps ==
  ASSUME FrpIInv, FrpTypeOK', NEW c \in Callers, TakeCmd(c)
  PROVE  FrpFacts'
<1>0. CallSteps(c) /\ CallFrpc(c) /\ CallTunnels(c) /\ FrpTypeOK
  BY DEF FrpIInv, FrpFacts
<1>1. Rests(c) /\ up = "up" /\ up' = up
  BY OnlyCall DEF TakeCmd, Rests, At, FrpTypeOK
<1>2. CallSteps(c)'
  BY <1>0 DEF TakeCmd, memory, At, CallSteps, FrpTypeOK
<1>3. CallFrpc(c)'
  BY DEF TakeCmd, CallFrpc, FrpTypeOK
<1>4. CallTunnels(c)'
  BY <1>0 DEF TakeCmd, memory, At, CallTunnels, FrpTypeOK
<1>5. SetsFrpc'
  BY DEF TakeCmd, memory, At, FrpIInv, FrpFacts, SetsFrpc, FrpTypeOK
<1>6. SetAnswers'
  BY DEF TakeCmd, memory, FrpIInv, FrpFacts, SetAnswers, FrpTypeOK, Idle, Rendered, Quiet
<1>7. AnswersAreDurable'
  BY DEF TakeCmd, FrpIInv, FrpFacts, AnswersAreDurable
<1>8. NoStrayFrpc'
  BY DEF TakeCmd, At, FrpIInv, FrpFacts, NoStrayFrpc, CallSteps, FrpTypeOK, Live, Idle
<1> QED BY <1>1, <1>2, <1>3, <1>4, <1>5, <1>6, <1>7, <1>8, CallKeeps DEF FrpFacts


LEMMA StopProcessKeeps ==
  ASSUME FrpIInv, FrpTypeOK', NEW c \in Callers, StopProcess(c)
  PROVE  FrpFacts'
<1>0. CallSteps(c) /\ CallFrpc(c) /\ CallTunnels(c) /\ FrpTypeOK
  BY DEF FrpIInv, FrpFacts
<1>1. Rests(c) /\ up = "up" /\ up' = up
  BY OnlyCall DEF StopProcess, Rests, At, FrpTypeOK
<1>2. CallSteps(c)'
  BY <1>0 DEF StopProcess, memory, AfterStop, At, CallSteps, FrpTypeOK, CallRecords
<1>3. CallFrpc(c)'
  BY <1>0 DEF StopProcess, AfterStop, At, CallFrpc, FrpTypeOK
<1>4. CallTunnels(c)'
  BY OnlyCall, <1>0 DEF StopProcess, memory, AfterStop, At, CallTunnels, FrpTypeOK
<1>5. SetsFrpc'
  BY DEF StopProcess, memory, AfterStop, At, FrpIInv, FrpFacts, SetsFrpc, FrpTypeOK, Idle, Rendered
<1>6. SetAnswers'
  BY DEF StopProcess, memory, AfterStop, FrpIInv, FrpFacts, SetAnswers, FrpTypeOK, Idle,
    Rendered, Quiet
<1>7. AnswersAreDurable'
  BY DEF StopProcess, FrpIInv, FrpFacts, AnswersAreDurable
<1>8. NoStrayFrpc'
  BY OnlyCall, FrpAssumption DEF StopProcess, memory, At, FrpIInv, FrpFacts, NoStrayFrpc,
    CallFrpc, Live, Idle
<1> QED BY <1>1, <1>2, <1>3, <1>4, <1>5, <1>6, <1>7, <1>8, CallKeeps DEF FrpFacts


LEMMA KillStaleKeeps ==
  ASSUME FrpIInv, FrpTypeOK', NEW c \in Callers, KillStale(c)
  PROVE  FrpFacts'
<1>0. CallSteps(c) /\ CallFrpc(c) /\ CallTunnels(c) /\ FrpTypeOK
  BY DEF FrpIInv, FrpFacts
<1>1. Rests(c) /\ up = "up" /\ up' = up
  BY OnlyCall DEF KillStale, Proceed, Rests, At
<1>2. CallSteps(c)'
  BY <1>0 DEF KillStale, memory, Proceed, At, CallSteps
<1>3. CallFrpc(c)'
  BY <1>0 DEF KillStale, Proceed, At, CallFrpc
<1>4. CallTunnels(c)'
  BY <1>0 DEF KillStale, memory, Proceed, At, CallTunnels
<1>5. SetsFrpc'
  BY DEF KillStale, memory, At, FrpIInv, FrpFacts, SetsFrpc, CallSteps, CallFrpc
<1>6. SetAnswers'
  BY DEF KillStale, memory, At, FrpIInv, FrpFacts, SetAnswers, CallSteps, CallFrpc
<1>7. AnswersAreDurable'
  BY DEF KillStale, FrpIInv, FrpFacts, AnswersAreDurable
<1>8. NoStrayFrpc'
  BY DEF KillStale, memory, Proceed, At, FrpIInv, FrpFacts, NoStrayFrpc, Live
<1> QED BY <1>1, <1>2, <1>3, <1>4, <1>5, <1>6, <1>7, <1>8, CallKeeps DEF FrpFacts


LEMMA CleanInstanceFilesKeeps ==
  ASSUME FrpIInv, FrpTypeOK', NEW c \in Callers, CleanInstanceFiles(c)
  PROVE  FrpFacts'
<1>0. CallSteps(c) /\ CallFrpc(c) /\ CallTunnels(c) /\ FrpTypeOK
  BY DEF FrpIInv, FrpFacts
<1>1. Rests(c) /\ up = "up" /\ up' = up
  BY OnlyCall DEF CleanInstanceFiles, Proceed, Rests, At
<1>2. CallSteps(c)'
  BY <1>0 DEF CleanInstanceFiles, memory, Proceed, At, CallSteps
<1>3. CallFrpc(c)'
  BY <1>0 DEF CleanInstanceFiles, Proceed, At, CallFrpc
<1>4. CallTunnels(c)'
  BY <1>0 DEF CleanInstanceFiles, memory, Proceed, NoFile, At, CallSteps, CallTunnels
<1>5. SetsFrpc'
  BY DEF CleanInstanceFiles, memory, Proceed, At, FrpIInv, FrpFacts, SetsFrpc
<1>6. SetAnswers'
  BY DEF CleanInstanceFiles, memory, NoFile, At, FrpIInv, FrpFacts, SetAnswers, CallSteps, CallFrpc
<1>7. AnswersAreDurable'
  BY DEF CleanInstanceFiles, NoFile, At, FrpIInv, FrpFacts, AnswersAreDurable, SetAnswers,
    CallSteps, CallTunnels
<1>8. NoStrayFrpc'
  BY DEF CleanInstanceFiles, memory, Proceed, At, FrpIInv, FrpFacts, NoStrayFrpc, Live
<1> QED BY <1>1, <1>2, <1>3, <1>4, <1>5, <1>6, <1>7, <1>8, CallKeeps DEF FrpFacts


LEMMA ForgetKeeps ==
  ASSUME FrpIInv, FrpTypeOK', NEW c \in Callers, Forget(c)
  PROVE  FrpFacts'
<1>0. CallSteps(c) /\ CallFrpc(c) /\ CallTunnels(c) /\ FrpTypeOK
  BY DEF FrpIInv, FrpFacts
<1>1. Rests(c) /\ up = "up" /\ up' = up
  BY OnlyCall DEF Forget, EndCall, Rests, At
<1>2. CallSteps(c)'
  BY DEF Forget, EndCall, CallSteps, FrpTypeOK, Idle
<1>3. CallFrpc(c)'
  BY <1>0 DEF Forget, EndCall, At, CallFrpc, Idle
<1>4. CallTunnels(c)'
  BY DEF Forget, EndCall, CallTunnels, FrpTypeOK, Idle
<1>5. SetsFrpc'
  BY DEF Forget, At, FrpIInv, FrpFacts, SetsFrpc, CallSteps, CallFrpc
<1>6. SetAnswers'
  BY <1>0 DEF Forget, At, SetAnswers, CallTunnels
<1>7. AnswersAreDurable'
  BY DEF Forget, EndCall, At, FrpIInv, FrpFacts, AnswersAreDurable, CallTunnels
<1>8. NoStrayFrpc'
  BY OnlyCall, FrpAssumption DEF Forget, At, FrpIInv, FrpFacts, NoStrayFrpc, CallSteps, CallFrpc,
    Live
<1> QED BY <1>1, <1>2, <1>3, <1>4, <1>5, <1>6, <1>7, <1>8, CallKeeps DEF FrpFacts


LEMMA ReturnKeeps ==
  ASSUME FrpIInv, FrpTypeOK', NEW c \in Callers, Return(c)
  PROVE  FrpFacts'
<1>0. CallSteps(c) /\ CallFrpc(c) /\ CallTunnels(c) /\ FrpTypeOK
  BY DEF FrpIInv, FrpFacts
<1>1. Rests(c) /\ up = "up" /\ up' = up
  BY OnlyCall DEF Return, EndCall, Rests, At
<1>2. CallSteps(c)'
  BY <1>0 DEF Return, EndCall, memory, CallSteps, Idle
<1>3. CallFrpc(c)'
  BY <1>0 DEF Return, EndCall, At, CallFrpc, Idle
<1>4. CallTunnels(c)'
  BY DEF Return, EndCall, CallTunnels, FrpTypeOK, Idle
<1>5. SetsFrpc'
  BY OnlyCall DEF Return, memory, At, FrpIInv, FrpFacts, SetsFrpc, CallFrpc
<1>6. SetAnswers'
  BY DEF Return, EndCall, memory, At, FrpIInv, FrpFacts, SetAnswers, CallSteps, CallFrpc,
    CallTunnels, Idle
<1>7. AnswersAreDurable'
  BY DEF Return, EndCall, At, FrpIInv, FrpFacts, AnswersAreDurable, CallSteps, CallTunnels
<1>8. NoStrayFrpc'
  BY OnlyCall, FrpAssumption DEF Return, At, FrpIInv, FrpFacts, NoStrayFrpc, CallSteps, CallFrpc,
    Live
<1> QED BY <1>1, <1>2, <1>3, <1>4, <1>5, <1>6, <1>7, <1>8, CallKeeps DEF FrpFacts


LEMMA CheckAndRenderKeeps ==
  ASSUME FrpIInv, FrpTypeOK', NEW c \in Callers, CheckAndRender(c)
  PROVE  FrpFacts'
<1>0. CallSteps(c) /\ CallFrpc(c) /\ CallTunnels(c) /\ FrpTypeOK
  BY DEF FrpIInv, FrpFacts
<1>1. Rests(c) /\ up = "up" /\ up' = up
  BY OnlyCall DEF CheckAndRender, EndCall, Proceed, Rests, At, FrpTypeOK
<1>2. CallSteps(c)'
  BY <1>0 DEF CheckAndRender, EndCall, Proceed, memory, At, CallSteps, FrpTypeOK, CallRecords, Idle
<1>3. CallFrpc(c)'
  BY <1>0 DEF CheckAndRender, EndCall, Proceed, At, CallFrpc, FrpTypeOK, CallRecords, Idle
<1>4. CallTunnels(c)'
  BY <1>0 DEF CheckAndRender, EndCall, Proceed, memory, At, CallTunnels, FrpTypeOK, CallRecords,
    Idle
<1>5. SetsFrpc'
  BY DEF CheckAndRender, memory, At, FrpIInv, FrpFacts, SetsFrpc, CallSteps
<1>6. SetAnswers'
  BY DEF CheckAndRender, EndCall, memory, At, FrpIInv, FrpFacts, SetAnswers, CallSteps, CallFrpc,
    CallTunnels
<1>7. AnswersAreDurable'
  BY DEF CheckAndRender, EndCall, At, FrpIInv, FrpFacts, AnswersAreDurable, CallSteps, CallTunnels
<1>8. NoStrayFrpc'
  BY OnlyCall, FrpAssumption DEF CheckAndRender, memory, At, FrpIInv, FrpFacts, NoStrayFrpc,
    CallSteps, Live
<1> QED BY <1>1, <1>2, <1>3, <1>4, <1>5, <1>6, <1>7, <1>8, CallKeeps DEF FrpFacts


LEMMA LaunchKeeps ==
  ASSUME FrpIInv, FrpTypeOK', NEW c \in Callers, Launch(c)
  PROVE  FrpFacts'
<1>0. CallSteps(c) /\ CallFrpc(c) /\ CallTunnels(c) /\ FrpTypeOK
  BY DEF FrpIInv, FrpFacts
<1>1. Rests(c) /\ up = "up" /\ up' = up
  BY OnlyCall DEF Launch, EndCall, Rests, At, FrpTypeOK
<1>2. CallSteps(c)'
  BY <1>0 DEF Launch, EndCall, memory, At, CallSteps, FrpTypeOK, CallRecords, Idle
<1>3. CallFrpc(c)'
  BY <1>0, FrpAssumption DEF Launch, EndCall, Unborn, At, CallSteps, CallFrpc, FrpTypeOK,
    CallRecords, Idle
<1>4. CallTunnels(c)'
  BY OnlyCall, <1>0 DEF Launch, EndCall, memory, At, CallTunnels, FrpTypeOK, CallRecords, Idle
<1>5. SetsFrpc'
  BY DEF Launch, EndCall, memory, At, FrpIInv, FrpFacts, SetsFrpc, CallSteps, FrpTypeOK, Rendered
<1>6. SetAnswers'
  BY DEF Launch, EndCall, memory, At, FrpIInv, FrpFacts, SetAnswers, CallSteps, CallFrpc
<1>7. AnswersAreDurable'
  BY DEF Launch, EndCall, FrpIInv, FrpFacts, AnswersAreDurable
<1>8. NoStrayFrpc'
  BY FrpAssumption DEF Launch, EndCall, memory, At, FrpIInv, FrpFacts, NoStrayFrpc, CallSteps,
    FrpTypeOK, CallRecords, Live
<1> QED BY <1>1, <1>2, <1>3, <1>4, <1>5, <1>6, <1>7, <1>8, CallKeeps DEF FrpFacts


LEMMA StoreCmdKeeps ==
  ASSUME FrpIInv, FrpTypeOK', NEW c \in Callers, StoreCmd(c)
  PROVE  FrpFacts'
<1>0. CallSteps(c) /\ CallFrpc(c) /\ CallTunnels(c) /\ FrpTypeOK
  BY DEF FrpIInv, FrpFacts
<1>1. Rests(c) /\ up = "up" /\ up' = up
  BY OnlyCall DEF StoreCmd, Proceed, Rests, At
<1>2. CallSteps(c)'
  BY <1>0 DEF StoreCmd, Proceed, memory, At, CallSteps
<1>3. CallFrpc(c)'
  BY <1>0 DEF StoreCmd, Proceed, memory, At, CallFrpc, FrpTypeOK, Rendered
<1>4. CallTunnels(c)'
  BY <1>0 DEF StoreCmd, Proceed, memory, At, CallTunnels
<1>5. SetsFrpc'
  BY DEF StoreCmd, Proceed, memory, At, FrpIInv, FrpFacts, SetsFrpc, CallFrpc
<1>6. SetAnswers'
  BY DEF StoreCmd, memory, At, FrpIInv, FrpFacts, SetAnswers, CallSteps, CallFrpc, Rendered
<1>7. AnswersAreDurable'
  BY DEF StoreCmd, FrpIInv, FrpFacts, AnswersAreDurable
<1>8. NoStrayFrpc'
  BY FrpAssumption DEF StoreCmd, Proceed, memory, At, FrpIInv, FrpFacts, NoStrayFrpc, CallFrpc, Live
<1> QED BY <1>1, <1>2, <1>3, <1>4, <1>5, <1>6, <1>7, <1>8, CallKeeps DEF FrpFacts


LEMMA RecordPidKeeps ==
  ASSUME FrpIInv, FrpTypeOK', NEW c \in Callers, RecordPid(c)
  PROVE  FrpFacts'
<1>0. CallSteps(c) /\ CallFrpc(c) /\ CallTunnels(c) /\ FrpTypeOK
  BY DEF FrpIInv, FrpFacts
<1>1. Rests(c) /\ up = "up" /\ up' = up
  BY OnlyCall DEF RecordPid, EndCall, Rests, At
<1>2. CallSteps(c)'
  BY <1>0 DEF RecordPid, EndCall, memory, CallSteps, Idle
<1>3. CallFrpc(c)'
  BY DEF RecordPid, EndCall, CallFrpc, FrpTypeOK, Idle
<1>4. CallTunnels(c)'
  BY DEF RecordPid, EndCall, CallTunnels, FrpTypeOK, Idle
<1>5. SetsFrpc'
  BY DEF RecordPid, memory, At, FrpIInv, FrpFacts, SetsFrpc, CallSteps
<1>6. SetAnswers'
  BY DEF RecordPid, EndCall, memory, At, FrpIInv, FrpFacts, SetAnswers, CallSteps, CallFrpc,
    CallTunnels, Rendered
<1>7. AnswersAreDurable'
  BY DEF RecordPid, EndCall, At, FrpIInv, FrpFacts, AnswersAreDurable, CallSteps, CallTunnels
<1>8. NoStrayFrpc'
  BY OnlyCall DEF RecordPid, memory, At, FrpIInv, FrpFacts, NoStrayFrpc, CallSteps, CallFrpc, Live
<1> QED BY <1>1, <1>2, <1>3, <1>4, <1>5, <1>6, <1>7, <1>8, CallKeeps DEF FrpFacts


\* What happens to frpc and to the instance leaves the calls as they are.
LEMMA FrpcStepKeeps ==
  ASSUME FrpIInv, FrpTypeOK', NEW p \in Procs, FrpcDies(p) \/ Watcher(p)
  PROVE  FrpFacts'
<1>0. FrpTypeOK /\ UNCHANGED <<up, entry, tuns, made, cl, claim, disk, serves, orphaned>>
  BY DEF FrpIInv, FrpcDies, Watcher, memory
<1>1. /\ \A q \in Procs :
           /\ proc[q] # "unborn" => proc'[q] # "unborn"
           /\ proc'[q] = "live" => proc[q] = "live"
      /\ \A o \in Objects :
           \/ cmd'[o] = cmd[o]
           \/ cmd'[o] = 0 /\ proc[cmd[o]] = "dead"
      /\ \A o \in Objects, c \in Callers : cmd'[o] # cmd[o] => ~(At(c, "record") /\ cl[c].pid = cmd[o])
  BY <1>0 DEF FrpcDies, Watcher, Live, FrpTypeOK, At
<1>2. OneCall' /\ AnswersAreDurable'
  BY <1>0 DEF FrpIInv, FrpFacts, OneCall, At, Quiet, AnswersAreDurable
<1>3. ASSUME NEW c \in Callers PROVE CallSteps(c)' /\ CallFrpc(c)' /\ CallTunnels(c)'
  <2>1. CallSteps(c) /\ CallFrpc(c) /\ CallTunnels(c)
    BY DEF FrpIInv, FrpFacts
  <2>2. CallSteps(c)' /\ CallTunnels(c)'
    BY <1>0, <2>1 DEF CallSteps, CallTunnels
  <2>3. CallFrpc(c)'
    BY <1>0, <1>1, <2>1, CallerFields DEF CallSteps, CallFrpc, Rendered, At
  <2> QED BY <2>2, <2>3
<1>4. SetsFrpc'
  BY <1>0, <1>1 DEF FrpIInv, FrpFacts, SetsFrpc, At, FrpTypeOK
<1>5. SetAnswers'
  BY <1>0, <1>1 DEF FrpIInv, FrpFacts, SetAnswers, At, FrpTypeOK, Rendered, Quiet
<1>6. NoStrayFrpc'
  <2>1. \A c \in Callers : ~At(c, "idle") => cl[c].st \in Objects
    BY OnlyCall
  <2> QED BY <1>0, <1>1, <2>1 DEF FrpIInv, FrpFacts, NoStrayFrpc, Live, At, FrpTypeOK
<1> QED BY <1>2, <1>3, <1>4, <1>5, <1>6 DEF FrpFacts

LEMMA InstanceChangesKeeps ==
  ASSUME FrpIInv, InstanceChanges
  PROVE  FrpFacts'
BY DEF InstanceChanges, memory, bounds, FrpIInv, FrpFacts, OneCall, CallSteps, CallFrpc,
  CallTunnels, SetsFrpc,
       SetAnswers, AnswersAreDurable, NoStrayFrpc, At, Quiet, Live, Rendered

\* The end of the daemon: memory is blank, and what lives is an orphan.
LEMMA SomeLost == Crash \/ StopAll => \E S \in SUBSET Procs : Lost(S)
<1>1. AllLive \in SUBSET Procs /\ \A X : AllLive \ X \in SUBSET Procs
  BY DEF AllLive
<1> QED BY <1>1 DEF Crash, StopAll

LEMMA LostKeeps ==
  ASSUME FrpIInv, FrpTypeOK', NEW S \in SUBSET Procs, Lost(S)
  PROVE  FrpFacts'
<1>1. FrpTypeOK /\ AnswersAreDurable /\ \A p \in Procs : serves[p] \cap DirectTunnels = {}
  BY DEF FrpIInv, FrpFacts, SetsFrpc
<1>2. OneCall' /\ \A c \in Callers : CallSteps(c)' /\ CallFrpc(c)' /\ CallTunnels(c)'
  BY DEF Lost, OneCall, CallSteps, CallFrpc, CallTunnels, Idle, At, Quiet
<1>3. SetsFrpc' /\ SetAnswers' /\ AnswersAreDurable'
  BY <1>1 DEF Lost, SetsFrpc, SetAnswers, AnswersAreDurable
<1>4. NoStrayFrpc'
  BY <1>1 DEF Lost, NoStrayFrpc, Live, FrpTypeOK
<1> QED BY <1>2, <1>3, <1>4 DEF FrpFacts

LEMMA BootKeeps ==
  ASSUME FrpIInv, Boot
  PROVE  FrpFacts'
BY DEF Boot, memory, bounds, FrpIInv, FrpFacts, OneCall, CallSteps, CallFrpc, CallTunnels, SetsFrpc,
       SetAnswers, AnswersAreDurable, NoStrayFrpc, At, Quiet, Live, Rendered

\* The set read back has what the file has, which is what the callers were told.
LEMMA LoadKeeps ==
  ASSUME FrpIInv, FrpTypeOK', LoadFromDisk
  PROVE  FrpFacts'
<1>0. FrpTypeOK /\ Quiet /\ entry = 0 /\ UNCHANGED <<cmd, disk, proc, serves, cl, claim, orphaned>>
  BY DEF FrpIInv, FrpFacts, OneCall, LoadFromDisk
<1>1. OneCall' /\ \A c \in Callers : CallSteps(c)' /\ CallFrpc(c)' /\ CallTunnels(c)'
  BY <1>0 DEF LoadFromDisk, FrpIInv, FrpFacts, OneCall, CallSteps, CallFrpc, CallTunnels, At, Quiet
<1>2. \A o \in Objects : cmd[o] = 0
  BY <1>0, FrpAssumption DEF FrpIInv, FrpFacts, SetsFrpc, At, Quiet
<1>3. \/ UNCHANGED memory /\ disk.tunnels = {}
      \/ \E st \in Objects \ made : entry' = st /\ made' = made \cup {st} /\ tuns' = [tuns EXCEPT ![st] = disk.tunnels]
  BY DEF LoadFromDisk
<1>4. SetsFrpc'
  BY <1>0, <1>2, <1>3 DEF memory, FrpIInv, FrpFacts, SetsFrpc, FrpTypeOK
<1>5. SetAnswers'
  <2>1. CASE UNCHANGED memory /\ disk.tunnels = {}
    BY <1>0, <2>1 DEF memory, SetAnswers
  <2>2. ASSUME NEW st \in Objects \ made, entry' = st, tuns' = [tuns EXCEPT ![st] = disk.tunnels]
        PROVE  SetAnswers'
    <3>1. tuns'[st] = disk.tunnels /\ cmd'[st] = 0 /\ entry' # 0
      BY <1>0, <1>2, <2>2, FrpAssumption DEF FrpTypeOK
    <3> QED BY <1>0, <2>2, <3>1 DEF FrpIInv, FrpFacts, SetAnswers, AnswersAreDurable
  <2> QED BY <1>3, <2>1, <2>2
<1>6. AnswersAreDurable' /\ NoStrayFrpc'
  BY <1>0, <1>2 DEF FrpIInv, FrpFacts, AnswersAreDurable, NoStrayFrpc, Live, At, Quiet
<1> QED BY <1>1, <1>4, <1>5, <1>6 DEF FrpFacts

-----------------------------------------------------------------------------

LEMMA FrpStart == FrpInit => FrpIInv
<1> SUFFICES ASSUME FrpInit PROVE FrpIInv
  OBVIOUS
<1>1. FrpTypeOK
  <2>1. Idle \in CallRecords /\ NoFile \in [tunnels : SUBSET Tunnels, server : BOOLEAN, exists : BOOLEAN]
    BY DEF CallRecords, NoFile, Idle
  <2>2. 0 \in 0..MaxCalls /\ 0 \in 0..MaxCrashes
    BY FrpAssumption
  <2> QED BY <2>1, <2>2 DEF FrpInit, FrpTypeOK
<1>2. OneCall /\ \A c \in Callers : CallSteps(c) /\ CallFrpc(c) /\ CallTunnels(c)
  BY DEF FrpInit, OneCall, CallSteps, CallFrpc, CallTunnels, Idle, At, Quiet
<1>3. SetsFrpc /\ SetAnswers /\ AnswersAreDurable /\ NoStrayFrpc
  BY DEF FrpInit, SetsFrpc, SetAnswers, AnswersAreDurable, NoStrayFrpc, NoFile, Live
<1> QED BY <1>1, <1>2, <1>3 DEF FrpIInv, FrpFacts

\* The steps of a call write records of a call.
ClTyped == cl \in [Callers -> CallRecords]
ClaimTyped == claim \in [Tunnels -> {"present", "absent", "unknown"}]

LEMMA EndTypes ==
  ASSUME FrpTypeOK, NEW c \in Callers, NEW ok \in BOOLEAN, EndCall(c, ok)
  PROVE  ClTyped' /\ ClaimTyped'
BY DEF EndCall, FrpTypeOK, CallRecords, Idle, ClTyped, ClaimTyped

LEMMA ProceedTypes ==
  ASSUME FrpTypeOK, NEW c \in Callers, Proceed(c, "stop") \/ Proceed(c, "check") \/ Proceed(c, "launch")
         \/ Proceed(c, "record") \/ Proceed(c, "forget") \/ Proceed(c, "done")
  PROVE  ClTyped'
BY DEF Proceed, FrpTypeOK, CallRecords, ClTyped

LEMMA BeginTypes ==
  ASSUME FrpTypeOK, NEW c \in Callers, NEW T \in SUBSET Tunnels, NEW st \in Objects,
         NEW op \in {"apply", "remove", "last", "delete", "halt", "resume"}, NEW pc \in {"persist", "stop"},
         BeginCall(c, op, T, st, pc)
  PROVE  ClTyped'
BY DEF BeginCall, FrpTypeOK, CallRecords, ClTyped

LEMMA HandTypes ==
  ASSUME FrpTypeOK, NEW c \in Callers, NEW pid \in Procs \cup {0},
         NEW pc \in {"kill", "clean", "done", "stale", "store"},
         cl' = [cl EXCEPT ![c].pc = pc, ![c].pid = pid]
  PROVE  ClTyped'
<1>1. cl \in [Callers -> CallRecords]
  BY DEF FrpTypeOK
<1>2. cl' = [cl EXCEPT ![c] = [[cl[c] EXCEPT !.pc = pc] EXCEPT !.pid = pid]]
  BY <1>1
<1>3. [[cl[c] EXCEPT !.pc = pc] EXCEPT !.pid = pid] \in CallRecords
  BY <1>1 DEF CallRecords
<1> QED BY <1>1, <1>2, <1>3 DEF ClTyped

LEMMA CallStepTypes ==
  ASSUME FrpIInv, NEW c \in Callers, CallStep(c)
  PROVE  FrpTypeOK'
<1>0. FrpTypeOK /\ ClTyped /\ ClaimTyped
  BY DEF FrpIInv, FrpTypeOK, ClTyped, ClaimTyped
<1>1. ASSUME At(c, "persist") \/ At(c, "stop") \/ At(c, "kill") \/ At(c, "launch") \/ At(c, "store")
      PROVE  cl[c].st \in Objects /\ cl[c].pid \in Procs \cup {0}
  BY <1>0, <1>1, OnlyCall, CallerFields DEF At
<1>2. ASSUME MayCall(c) PROVE calls' \in 0..MaxCalls
  BY <1>0, <1>2, FrpAssumption DEF MayCall, FrpTypeOK
<1>3. ASSUME NEW T \in SUBSET Tunnels, Unclaim(T) PROVE ClaimTyped'
  BY <1>0, <1>3 DEF Unclaim, ClaimTyped
<1>4. ASSUME NEW t \in Tunnels, Apply(c, t) PROVE FrpTypeOK'
  <2>1. PICK st \in Objects : /\ entry' = st /\ made' = made \cup {st} /\ tuns' = [tuns EXCEPT ![st] = @ \cup {t}]
                             /\ srv' = [srv EXCEPT ![st] = @ \/ t \notin DirectTunnels]
                             /\ BeginCall(c, "apply", {t}, st, "persist")
    BY <1>0, <1>4 DEF Apply, FrpTypeOK
  <2>2. ClTyped' /\ ClaimTyped' /\ calls' \in 0..MaxCalls
    <3>1. {t} \in SUBSET Tunnels
      OBVIOUS
    <3> QED BY <1>0, <1>2, <1>3, <1>4, <2>1, <3>1, BeginTypes DEF Apply
  <2> QED BY <1>0, <1>4, <2>1, <2>2 DEF Apply, FrpTypeOK, ClTyped, ClaimTyped
<1>5. ASSUME NEW t \in Tunnels, Remove(c, t) PROVE FrpTypeOK'
  <2>1. ClTyped' /\ ClaimTyped' /\ calls' \in 0..MaxCalls
    <3>1. {t} \in SUBSET Tunnels /\ entry \in Objects
      BY <1>0, <1>5 DEF Remove, FrpTypeOK
    <3>2. BeginCall(c, "last", {t}, entry, "stop") \/ BeginCall(c, "remove", {t}, entry, "persist")
      BY <1>5 DEF Remove
    <3>3. ClTyped'
      BY <1>0, <3>1, <3>2, BeginTypes
    <3> QED BY <1>2, <1>3, <1>5, <3>1, <3>3 DEF Remove
  <2> QED BY <1>0, <1>5, <2>1 DEF Remove, FrpTypeOK, ClTyped, ClaimTyped
<1>6. ASSUME NEW t \in Tunnels, RemoveUnknown(c, t) PROVE FrpTypeOK'
  BY <1>0, <1>2, <1>6 DEF FrpTypeOK, RemoveUnknown, memory
<1>7. CASE RemoveInstance(c) \/ StopInstance(c) \/ Resume(c)
  <2>1. ClTyped' /\ ClaimTyped' /\ calls' \in 0..MaxCalls
    <3>1. {} \in SUBSET Tunnels /\ Tunnels \in SUBSET Tunnels /\ entry \in Objects
      BY <1>0, <1>7 DEF RemoveInstance, StopInstance, Resume, FrpTypeOK
    <3>2. ClTyped'
      BY <1>0, <1>7, <3>1, BeginTypes DEF RemoveInstance, StopInstance, Resume
    <3>3. ClaimTyped'
      BY <1>0, <1>3, <1>7, <3>1 DEF RemoveInstance, StopInstance, Resume, ClaimTyped
    <3> QED BY <1>2, <1>7, <3>2, <3>3 DEF RemoveInstance, StopInstance, Resume
  <2> QED BY <1>0, <1>7, <2>1 DEF RemoveInstance, StopInstance, Resume, FrpTypeOK, ClTyped,
    ClaimTyped, memory
<1>8. CASE Persist(c) \/ CleanInstanceFiles(c) \/ Forget(c) \/ Return(c) \/ CheckAndRender(c)
  <2>1. ClTyped' /\ ClaimTyped'
    BY <1>0, <1>8, EndTypes, ProceedTypes DEF Persist, CleanInstanceFiles, Forget, Return,
      CheckAndRender, ClaimTyped
  <2>2. disk' \in [tunnels : SUBSET Tunnels, server : BOOLEAN, exists : BOOLEAN]
    <3>1. At(c, "persist") => tuns[cl[c].st] \in SUBSET Tunnels /\ srv[cl[c].st] \in BOOLEAN
      BY <1>0, <1>1 DEF FrpTypeOK
    <3>2. NoFile \in [tunnels : SUBSET Tunnels, server : BOOLEAN, exists : BOOLEAN]
      BY DEF NoFile
    <3>3. UNCHANGED disk => disk' \in [tunnels : SUBSET Tunnels, server : BOOLEAN, exists : BOOLEAN]
      BY <1>0 DEF FrpTypeOK
    <3>4. \/ UNCHANGED disk \/ disk' = NoFile
          \/ /\ disk' = [tunnels |-> tuns[cl[c].st], server |-> srv[cl[c].st], exists |-> TRUE]
             /\ At(c, "persist")
      BY <1>8 DEF Persist, CleanInstanceFiles, Forget, Return, CheckAndRender
    <3>5. ASSUME At(c, "persist"), disk' = [tunnels |-> tuns[cl[c].st], server |-> srv[cl[c].st], exists |-> TRUE]
          PROVE  disk' \in [tunnels : SUBSET Tunnels, server : BOOLEAN, exists : BOOLEAN]
      BY <3>1, <3>5
    <3> QED BY <3>2, <3>3, <3>4, <3>5
  <2> QED BY <1>0, <1>8, <2>1, <2>2 DEF Persist, CleanInstanceFiles, Forget, Return, CheckAndRender,
             FrpTypeOK, ClTyped, ClaimTyped, memory, bounds
<1>9. CASE TakeCmd(c)
  <2>1. cmd[cl[c].st] \in Procs \cup {0}
    BY <1>0, <1>1, <1>9 DEF TakeCmd, FrpTypeOK
  <2>2. ClTyped'
    BY <1>0, <1>9, <2>1, HandTypes DEF TakeCmd
  <2> QED BY <1>0, <1>9, <2>2 DEF TakeCmd, FrpTypeOK, ClTyped, memory, bounds
<1>10. CASE StopProcess(c)
  <2>1. AfterStop(cl[c].op) \in {"clean", "done", "stale"}
    BY DEF AfterStop
  <2>2. ClTyped'
    BY <1>0, <1>10, <2>1, HandTypes DEF StopProcess
  <2> QED BY <1>0, <1>10, <2>2 DEF StopProcess, FrpTypeOK, ClTyped, memory, bounds
<1>11. CASE KillStale(c)
  BY <1>0, <1>11, ProceedTypes DEF KillStale, FrpTypeOK, ClTyped, memory, bounds
<1>12. CASE Launch(c)
  <2>1. CASE EndCall(c, FALSE) /\ UNCHANGED <<proc, serves>>
    BY <1>0, <1>12, <2>1, EndTypes DEF Launch, FrpTypeOK, ClTyped, ClaimTyped, memory, bounds
  <2>2. ASSUME NEW p \in Procs, proc' = [proc EXCEPT ![p] = "live"],
               serves' = [serves EXCEPT ![p] = Rendered(cl[c].st)],
               cl' = [cl EXCEPT ![c].pc = "store", ![c].pid = p], UNCHANGED claim
        PROVE  FrpTypeOK'
    <3>1. ClTyped'
      BY <1>0, <2>2, HandTypes
    <3>2. Rendered(cl[c].st) \in SUBSET Tunnels
      BY <1>0, <1>1, <1>12 DEF Launch, Rendered, FrpTypeOK
    <3> QED BY <1>0, <1>12, <2>2, <3>1, <3>2 DEF Launch, FrpTypeOK, ClTyped, memory, bounds
  <2> QED BY <1>12, <2>1, <2>2 DEF Launch, Unborn
<1>13. CASE StoreCmd(c) \/ RecordPid(c)
  <2>1. ClTyped' /\ ClaimTyped'
    BY <1>0, <1>13, EndTypes, ProceedTypes DEF StoreCmd, RecordPid, ClaimTyped
  <2> QED BY <1>0, <1>13, <2>1, CallerFields DEF FrpTypeOK, StoreCmd, RecordPid, ClTyped,
    ClaimTyped, memory, bounds
<1> QED BY <1>4, <1>5, <1>6, <1>7, <1>8, <1>9, <1>10, <1>11, <1>12, <1>13
        DEF CallStep, ApplyTunnel, applyDirectTunnel, RemoveTunnel

LEMMA FrpTypes ==
  ASSUME FrpIInv, [FrpNext]_frpVars
  PROVE  FrpTypeOK'
<1>0. FrpTypeOK
  BY DEF FrpIInv
<1>1. CASE UNCHANGED frpVars
  BY <1>0, <1>1 DEF frpVars, FrpTypeOK
<1>2. ASSUME NEW p \in Procs, FrpcDies(p) \/ Watcher(p) PROVE FrpTypeOK'
  BY <1>0, <1>2 DEF FrpTypeOK, FrpcDies, Watcher, memory, bounds
<1>3. CASE InstanceChanges \/ Boot
  BY <1>0, <1>3 DEF FrpTypeOK, InstanceChanges, Boot, memory, bounds
<1>4. CASE Crash \/ StopAll
  <2>1. crashes' \in 0..MaxCrashes /\ calls' = calls
    BY <1>0, <1>4, FrpAssumption DEF FrpTypeOK, Crash, StopAll
  <2>2. PICK S \in SUBSET Procs : Lost(S)
    BY <1>4, SomeLost
  <2> QED BY <1>0, <2>1, <2>2 DEF FrpTypeOK, CallRecords, Lost, Idle
<1>5. CASE LoadFromDisk
  BY <1>0, <1>5 DEF FrpTypeOK, LoadFromDisk, memory, bounds
<1> QED BY <1>1, <1>2, <1>3, <1>4, <1>5, CallStepTypes DEF FrpNext

LEMMA FrpInductive ==
  ASSUME FrpIInv, ~Overlap, [FrpNext]_frpVars
  PROVE  FrpIInv'
<1>0. FrpTypeOK'
  BY FrpTypes
<1>1. CASE UNCHANGED frpVars
  BY <1>0, <1>1 DEF frpVars, FrpIInv, FrpFacts, OneCall, CallSteps, CallFrpc, CallTunnels, SetsFrpc,
       SetAnswers, AnswersAreDurable, NoStrayFrpc, At, Quiet, Live, Rendered
<1>2. ASSUME NEW c \in Callers, CallStep(c) PROVE FrpFacts'
  <2>1. ASSUME NEW t \in Tunnels, Apply(c, t) \/ Remove(c, t) \/ RemoveUnknown(c, t) PROVE FrpFacts'
    BY <1>0, <2>1, ApplyKeeps, RemoveKeeps, RemoveUnknownKeeps
  <2>2. CASE RemoveInstance(c) \/ StopInstance(c) \/ Resume(c)
    BY <1>0, <2>2, RemoveInstanceKeeps, StopInstanceKeeps, ResumeKeeps
  <2>3. CASE Persist(c) \/ TakeCmd(c) \/ StopProcess(c) \/ KillStale(c)
    BY <1>0, <2>3, PersistKeeps, TakeCmdKeeps, StopProcessKeeps, KillStaleKeeps
  <2>4. CASE CleanInstanceFiles(c) \/ Forget(c) \/ Return(c)
    BY <1>0, <2>4, CleanInstanceFilesKeeps, ForgetKeeps, ReturnKeeps
  <2>5. CASE CheckAndRender(c) \/ Launch(c) \/ StoreCmd(c) \/ RecordPid(c)
    BY <1>0, <2>5, CheckAndRenderKeeps, LaunchKeeps, StoreCmdKeeps, RecordPidKeeps
  <2> QED BY <1>2, <2>1, <2>2, <2>3, <2>4, <2>5 DEF CallStep, ApplyTunnel, applyDirectTunnel,
    RemoveTunnel
<1>3. ASSUME NEW p \in Procs, FrpcDies(p) \/ Watcher(p) PROVE FrpFacts'
  BY <1>0, <1>3, FrpcStepKeeps
<1>4. CASE InstanceChanges \/ Boot \/ LoadFromDisk
  BY <1>0, <1>4, InstanceChangesKeeps, BootKeeps, LoadKeeps DEF FrpIInv
<1>5. CASE Crash \/ StopAll
  BY <1>0, <1>5, SomeLost, LostKeeps DEF FrpIInv
<1> QED BY <1>0, <1>1, <1>2, <1>3, <1>4, <1>5 DEF FrpNext, FrpIInv

LEMMA FrpHolds == ASSUME ~Overlap PROVE FrpSpec => []FrpIInv
<1>1. FrpIInv /\ [FrpNext]_frpVars => FrpIInv'
  BY FrpInductive
<1> QED BY <1>1, FrpStart, PTL DEF FrpSpec

\* While one call at a time is made, what it answered is what the next daemon reads back,
\* however steps fail and whenever the daemon is killed.
THEOREM TunnelAnswersAreDurable == ASSUME ~Overlap PROVE FrpSpec => []AnswersAreDurable
<1>1. FrpIInv => AnswersAreDurable
  BY DEF FrpIInv, FrpFacts
<1> QED BY <1>1, FrpHolds, PTL

\* Between such calls a live frpc of the instance carries what was answered.
THEOREM AnswersAreCarried == ASSUME ~Overlap PROVE FrpSpec => []FrpcCarriesAnswers
<1>1. ASSUME FrpIInv PROVE FrpcCarriesAnswers
  <2>1. entry # 0 /\ Live(cmd[entry]) => cmd[entry] # 0
    BY FrpAssumption DEF Live
  <2> QED BY <1>1, <2>1 DEF FrpIInv, FrpFacts, SetAnswers, FrpcCarriesAnswers, Rendered
<1>2. FrpIInv => FrpcCarriesAnswers
  BY <1>1
<1> QED BY <1>2, FrpHolds, PTL

\* Such calls lose sight of no frpc: a live one is the instance's, in the hands of a call,
\* or was left behind by a daemon that ended.
THEOREM NoFrpcIsLost == ASSUME ~Overlap PROVE FrpSpec => []NoStrayFrpc
<1>1. FrpIInv => NoStrayFrpc
  BY DEF FrpIInv, FrpFacts
<1> QED BY <1>1, FrpHolds, PTL

-----------------------------------------------------------------------------
(* The table of TunnelTable *)

LEMMA TableStands ==
  ASSUME UNCHANGED <<up, entry, tuns, disk, claim>>
  PROVE  UNCHANGED Table!tableVars
BY DEF Wanted, Table!tableVars

\* A call changes, in memory, the tunnels it is about.
LEMMA TableChanges ==
  ASSUME NEW T \in SUBSET Tunnels, Wanted \subseteq Tunnels, Wanted' \subseteq Tunnels,
         disk' = disk, Unclaim(T), \A t \in Tunnels \ T : t \in Wanted' <=> t \in Wanted
  PROVE  Table!Next
<1>1. Table!Tell(T, "unknown")
  BY DEF Unclaim, Table!Tell
<1>2. Table!Change(T)
  BY <1>1 DEF Table!Change
<1> QED BY <1>2 DEF Table!Next

\* What a call that succeeds is told about.
Told(c) == IF cl[c].op = "apply" THEN "present" ELSE "absent"

LEMMA TableAnswers ==
  ASSUME FrpTypeOK, NEW c \in Callers, EndCall(c, TRUE), Wanted' = Wanted,
         disk'.tunnels \in {disk.tunnels, Wanted},
         \A t \in cl[c].t : t \in Wanted <=> Told(c) = "present",
         \A t \in cl[c].t : t \in disk'.tunnels <=> Told(c) = "present"
  PROVE  Table!Next
<1>1. cl[c].t \in SUBSET Tunnels /\ Told(c) \in Table!Answers
  BY CallerFields DEF Told, Table!Answers
<1>2. Table!Tell(cl[c].t, Told(c))
  BY DEF EndCall, Told, Table!Tell
<1>3. Table!Answer(cl[c].t, Told(c))
  BY <1>2 DEF Table!Answer, Table!Confirms
<1> QED BY <1>1, <1>3 DEF Table!Next

\* A call that fails tells nothing.
LEMMA TableUntold ==
  ASSUME FrpTypeOK, NEW c \in Callers, EndCall(c, FALSE)
  PROVE  claim' = claim
BY DEF FrpTypeOK, EndCall

\* The current definition set while a call is under way.
LEMMA TableOfCall ==
  ASSUME FrpIInv, NEW c \in Callers, ~At(c, "idle")
  PROVE  /\ up = "up" /\ cl[c].st \in Objects /\ cl[c].st # 0
         /\ Wanted = IF cl[c].op = "delete" THEN {} ELSE tuns[cl[c].st]
         /\ CallSteps(c) /\ CallTunnels(c)
<1>1. up = "up" /\ cl[c].st \in Objects /\ CallSteps(c) /\ CallTunnels(c)
  BY OnlyCall DEF FrpIInv, FrpFacts
<1>2. cl[c].st # 0 /\ entry = IF cl[c].op = "delete" THEN 0 ELSE cl[c].st
  BY <1>1 DEF CallSteps, At
<1> QED BY <1>1, <1>2 DEF Wanted

LEMMA TableTyped ==
  ASSUME FrpTypeOK, FrpTypeOK'
  PROVE  Wanted \subseteq Tunnels /\ Wanted' \subseteq Tunnels
BY DEF FrpTypeOK, Wanted

LEMMA TableApply ==
  ASSUME FrpIInv, FrpIInv', ~Overlap, NEW c \in Callers, NEW t \in Tunnels, Apply(c, t)
  PROVE  Table!Next
<1>1. FrpTypeOK /\ FrpTypeOK' /\ up = "up" /\ up' = "up" /\ disk' = disk /\ Unclaim({t})
  BY FirstCall DEF FrpIInv, Apply
<1>2. PICK st \in Objects :
        /\ entry = 0 => st \notin made
        /\ entry # 0 => st = entry
        /\ entry' = st /\ tuns' = [tuns EXCEPT ![st] = @ \cup {t}]
  BY <1>1 DEF Apply, FrpTypeOK
<1>3. st # 0 /\ tuns'[st] = tuns[st] \cup {t}
  BY <1>1, <1>2, FrpAssumption DEF FrpTypeOK
<1>4. Wanted = tuns[st] /\ Wanted' = tuns[st] \cup {t}
  BY <1>1, <1>2, <1>3 DEF Wanted, FrpIInv, FrpFacts, SetsFrpc
<1>5. \A u \in Tunnels \ {t} : u \in Wanted' <=> u \in Wanted
  BY <1>4
<1>6. Wanted \subseteq Tunnels /\ Wanted' \subseteq Tunnels /\ {t} \in SUBSET Tunnels
  BY <1>1, TableTyped
<1> QED BY <1>1, <1>5, <1>6, TableChanges

LEMMA TableRemove ==
  ASSUME FrpIInv, FrpIInv', ~Overlap, NEW c \in Callers, NEW t \in Tunnels, Remove(c, t)
  PROVE  Table!Next
<1>1. FrpTypeOK /\ FrpTypeOK' /\ up = "up" /\ up' = "up" /\ disk' = disk /\ Unclaim({t})
  BY FirstCall DEF FrpIInv, Remove
<1>2. entry \in Objects /\ entry # 0 /\ entry' = entry /\ tuns' = [tuns EXCEPT ![entry] = @ \ {t}]
  BY <1>1 DEF Remove, FrpTypeOK
<1>3. tuns'[entry] = tuns[entry] \ {t}
  BY <1>1, <1>2 DEF FrpTypeOK
<1>4. Wanted = tuns[entry] /\ Wanted' = tuns[entry] \ {t}
  BY <1>1, <1>2, <1>3 DEF Wanted
<1>5. \A u \in Tunnels \ {t} : u \in Wanted' <=> u \in Wanted
  BY <1>4
<1>6. Wanted \subseteq Tunnels /\ Wanted' \subseteq Tunnels /\ {t} \in SUBSET Tunnels
  BY <1>1, TableTyped
<1> QED BY <1>1, <1>5, <1>6, TableChanges

\* Without a set there is nothing in memory nor in the file, so nothing is to be done.
LEMMA TableRemoveUnknown ==
  ASSUME FrpIInv, ~Overlap, NEW c \in Callers, NEW t \in Tunnels, RemoveUnknown(c, t)
  PROVE  Table!Next
<1>1. /\ up = "up" /\ up' = up /\ entry = 0 /\ entry' = entry /\ disk' = disk
      /\ disk.tunnels = {} /\ claim' = [claim EXCEPT ![t] = "absent"]
  BY FirstCall DEF RemoveUnknown, memory
<1>2. Wanted = {} /\ Wanted' = {}
  BY <1>1 DEF Wanted
<1>3. Table!Tell({t}, "absent")
  BY <1>1 DEF FrpIInv, FrpTypeOK, Table!Tell
<1>4. Table!Answer({t}, "absent")
  BY <1>1, <1>2, <1>3 DEF Table!Answer, Table!Confirms
<1>5. {t} \in SUBSET Tunnels /\ "absent" \in Table!Answers
  BY DEF Table!Answers
<1> QED BY <1>4, <1>5 DEF Table!Next

LEMMA TableRemoveInstance ==
  ASSUME FrpIInv, FrpIInv', NEW c \in Callers, RemoveInstance(c)
  PROVE  Table!Next
<1>1. FrpTypeOK /\ FrpTypeOK' /\ disk' = disk /\ Unclaim(Tunnels)
  BY DEF FrpIInv, RemoveInstance
<1>2. \A u \in Tunnels \ Tunnels : u \in Wanted' <=> u \in Wanted
  OBVIOUS
<1>3. Tunnels \in SUBSET Tunnels
  OBVIOUS
<1>4. Wanted \subseteq Tunnels /\ Wanted' \subseteq Tunnels
  BY <1>1, TableTyped
<1> QED BY <1>1, <1>2, <1>3, <1>4, TableChanges

LEMMA TablePersist ==
  ASSUME FrpIInv, NEW c \in Callers, Persist(c)
  PROVE  Table!Next \/ UNCHANGED Table!tableVars
<1>1. /\ up' = up /\ entry' = entry /\ tuns' = tuns /\ FrpTypeOK /\ ~At(c, "idle")
      /\ cl[c].pc = "persist"
  BY DEF Persist, memory, At, FrpIInv
<1>2. cl[c].op \in {"apply", "remove"} /\ Wanted = tuns[cl[c].st] /\ Wanted' = Wanted
  BY <1>1, TableOfCall DEF CallSteps, Wanted
<1>3. CASE EndCall(c, FALSE) /\ disk' = disk
  BY <1>1, <1>3, TableUntold, TableStands
<1>4. CASE disk'.tunnels = tuns[cl[c].st] /\ claim' = claim
  BY <1>2, <1>4 DEF Table!Next, Table!Save
<1>5. CASE disk'.tunnels = tuns[cl[c].st] /\ EndCall(c, TRUE) /\ cl[c].op = "apply"
  <2>1. \A t \in cl[c].t : t \in Wanted /\ t \in disk'.tunnels
    BY <1>1, <1>2, <1>5, TableOfCall DEF CallTunnels
  <2>2. Told(c) = "present"
    BY <1>5 DEF Told
  <2> QED BY <1>1, <1>2, <1>5, <2>1, <2>2, TableAnswers
<1>6. \/ /\ disk' = [tunnels |-> tuns[cl[c].st], server |-> srv[cl[c].st], exists |-> TRUE]
         /\ (EndCall(c, TRUE) /\ cl[c].op = "apply") \/ claim' = claim
      \/ EndCall(c, FALSE) /\ disk' = disk
  BY DEF Persist
<1>7. disk' = [tunnels |-> tuns[cl[c].st], server |-> srv[cl[c].st], exists |-> TRUE] =>
        disk'.tunnels = tuns[cl[c].st]
  OBVIOUS
<1> QED BY <1>3, <1>4, <1>5, <1>6, <1>7

\* The other calls that succeed: memory and the file have said the same for some steps.
LEMMA TableReturns ==
  ASSUME FrpIInv, NEW c \in Callers, ~At(c, "idle"), ~At(c, "persist"),
         At(c, "forget") \/ At(c, "done") \/ cl[c].op \in {"apply", "remove", "resume"},
         EndCall(c, TRUE), up' = up, tuns' = tuns, disk' = disk,
         entry' = IF At(c, "forget") THEN 0 ELSE entry
  PROVE  Table!Next
<1>1. /\ FrpTypeOK /\ up = "up" /\ CallSteps(c) /\ CallTunnels(c)
      /\ Wanted = IF cl[c].op = "delete" THEN {} ELSE tuns[cl[c].st]
  BY TableOfCall DEF FrpIInv
<1>2. Wanted' = Wanted
  BY <1>1 DEF Wanted, CallSteps, CallTunnels, At
<1>3. CASE cl[c].op = "apply"
  <2>1. Told(c) = "present" /\ \A t \in cl[c].t : t \in Wanted
    BY <1>1, <1>3 DEF Told, CallTunnels, At
  <2>2. disk.tunnels = Wanted
    BY <1>1, <1>3 DEF CallTunnels, At
  <2> QED BY <1>1, <1>2, <2>1, <2>2, TableAnswers
<1>4. CASE cl[c].op = "remove"
  <2>1. Told(c) = "absent" /\ \A t \in cl[c].t : t \notin Wanted
    BY <1>1, <1>4 DEF Told, CallTunnels, At
  <2>2. disk.tunnels = Wanted
    BY <1>1, <1>4 DEF CallTunnels, At
  <2> QED BY <1>1, <1>2, <2>1, <2>2, TableAnswers
<1>5. CASE cl[c].op \in {"last", "delete"}
  <2>1. Told(c) = "absent" /\ Wanted = {}
    BY <1>1, <1>5 DEF Told, CallTunnels, At
  <2>2. disk.tunnels = {}
    BY <1>1, <1>5 DEF CallTunnels, CallSteps, At
  <2> QED BY <1>1, <1>2, <2>1, <2>2, TableAnswers
<1>6. CASE cl[c].op \in {"halt", "resume"}
  <2>1. cl[c].t = {}
    BY <1>1, <1>6 DEF CallTunnels, At
  <2> QED BY <1>1, <1>2, <2>1, TableAnswers
<1>7. cl[c].op \in {"apply", "remove", "last", "delete", "halt", "resume"}
  BY <1>1 DEF CallSteps, At
<1> QED BY <1>3, <1>4, <1>5, <1>6, <1>7

LEMMA TableCleanInstanceFiles ==
  ASSUME FrpIInv, NEW c \in Callers, CleanInstanceFiles(c)
  PROVE  Table!Next
<1>1. /\ ~At(c, "idle") /\ cl[c].pc = "clean" /\ disk'.tunnels = {} /\ claim' = claim
      /\ up' = up /\ entry' = entry /\ tuns' = tuns
  BY DEF CleanInstanceFiles, memory, At, NoFile
<1>2. Wanted = {} /\ Wanted' = Wanted
  BY <1>1, TableOfCall DEF CallSteps, CallTunnels, Wanted
<1> QED BY <1>1, <1>2 DEF Table!Next, Table!Save

LEMMA TableEnds ==
  ASSUME FrpIInv, NEW c \in Callers, Forget(c) \/ Return(c) \/ CheckAndRender(c) \/ RecordPid(c)
  PROVE  Table!Next \/ UNCHANGED Table!tableVars
<1>0. FrpTypeOK /\ \A d \in Callers : CallSteps(d)
  BY DEF FrpIInv, FrpFacts
<1>1. CASE Forget(c)
  BY <1>1, TableReturns DEF Forget, At
<1>2. CASE Return(c)
  BY <1>2, TableReturns DEF Return, memory, At
<1>3. CASE CheckAndRender(c)
  <2>1. cl[c].op \in {"apply", "remove", "resume"} /\ ~At(c, "idle") /\ ~At(c, "persist") /\ ~At(c, "forget")
    BY <1>0, <1>3 DEF CheckAndRender, CallSteps, At
  <2>2. UNCHANGED <<up, entry, tuns, disk>>
    BY <1>3 DEF CheckAndRender, memory
  <2>3. EndCall(c, TRUE) \/ EndCall(c, FALSE) \/ claim' = claim
    BY <1>3 DEF CheckAndRender
  <2>4. CASE EndCall(c, TRUE)
    BY <2>1, <2>2, <2>4, TableReturns
  <2>5. CASE EndCall(c, FALSE) \/ claim' = claim
    BY <1>0, <2>2, <2>5, TableUntold, TableStands
  <2> QED BY <2>3, <2>4, <2>5
<1>4. CASE RecordPid(c)
  <2>1. cl[c].op \in {"apply", "remove", "resume"} /\ ~At(c, "idle") /\ ~At(c, "persist") /\ ~At(c, "forget")
    BY <1>0, <1>4 DEF RecordPid, CallSteps, At
  <2>2. UNCHANGED <<up, entry, tuns, disk>> /\ EndCall(c, TRUE)
    BY <1>4 DEF RecordPid, memory
  <2> QED BY <2>1, <2>2, TableReturns
<1> QED BY <1>1, <1>2, <1>3, <1>4

\* The daemon comes back with what is in the file.
LEMMA TableRestarts ==
  ASSUME FrpIInv, Crash \/ StopAll \/ Boot \/ LoadFromDisk
  PROVE  Table!Next \/ UNCHANGED Table!tableVars
<1>0. FrpTypeOK /\ (up # "up" => entry = 0)
  BY DEF FrpIInv, FrpFacts, OneCall
<1>1. CASE Crash \/ StopAll
  <2>1. up' = "down" /\ disk' = disk /\ claim' = claim
    BY <1>1, SomeLost DEF Lost
  <2>2. Wanted' = disk.tunnels
    BY <2>1 DEF Wanted
  <2> QED BY <2>1, <2>2 DEF Table!Next, Table!Restart
<1>2. CASE Boot
  BY <1>2 DEF Boot, memory, Wanted, Table!tableVars
<1>3. CASE LoadFromDisk
  <2>1. up = "loading" /\ up' = "up" /\ disk' = disk /\ claim' = claim /\ Wanted = disk.tunnels
    BY <1>3 DEF LoadFromDisk, Wanted
  <2>2. CASE disk.tunnels = {}
    <3>1. entry' = 0
      BY <1>0, <1>3, <2>1, <2>2 DEF LoadFromDisk, memory
    <3> QED BY <2>1, <2>2, <3>1 DEF Wanted, Table!tableVars
  <2>3. CASE disk.tunnels # {}
    <3>1. PICK st \in Objects : entry' = st /\ tuns' = [tuns EXCEPT ![st] = disk.tunnels]
      BY <1>3, <2>3 DEF LoadFromDisk
    <3>2. entry' # 0 /\ tuns'[entry'] = disk.tunnels
      BY <1>0, <3>1, FrpAssumption DEF FrpTypeOK
    <3>3. Wanted' = disk.tunnels
      BY <2>1, <3>2 DEF Wanted
    <3> QED BY <2>1, <3>3 DEF Table!tableVars
  <2> QED BY <2>2, <2>3
<1> QED BY <1>1, <1>2, <1>3

LEMMA TableCallStep ==
  ASSUME FrpIInv, FrpIInv', ~Overlap, NEW c \in Callers, CallStep(c)
  PROVE  Table!Next \/ UNCHANGED Table!tableVars
<1>0. FrpTypeOK
  BY DEF FrpIInv
<1>1. ASSUME NEW t \in Tunnels, Apply(c, t) \/ Remove(c, t) \/ RemoveUnknown(c, t)
      PROVE  Table!Next
  BY <1>1, TableApply, TableRemove, TableRemoveUnknown
<1>2. CASE StopInstance(c) \/ Resume(c)
  BY <1>2, TableStands DEF StopInstance, Resume, memory
<1>3. CASE TakeCmd(c) \/ StopProcess(c) \/ KillStale(c) \/ StoreCmd(c)
  BY <1>3, TableStands DEF TakeCmd, StopProcess, KillStale, StoreCmd, memory
<1>4. CASE Launch(c)
  <2>1. UNCHANGED <<up, entry, tuns, disk>>
    BY <1>4 DEF Launch, memory
  <2>2. EndCall(c, FALSE) \/ claim' = claim
    BY <1>4 DEF Launch
  <2> QED BY <1>0, <2>1, <2>2, TableUntold, TableStands
<1>5. CASE RemoveInstance(c) \/ Persist(c) \/ CleanInstanceFiles(c)
  BY <1>5, TableRemoveInstance, TablePersist, TableCleanInstanceFiles
<1>6. CASE Forget(c) \/ Return(c) \/ CheckAndRender(c) \/ RecordPid(c)
  BY <1>6, TableEnds
<1> QED BY <1>1, <1>2, <1>3, <1>4, <1>5, <1>6 DEF CallStep, ApplyTunnel, applyDirectTunnel,
  RemoveTunnel

LEMMA TableStep ==
  ASSUME FrpIInv, FrpIInv', ~Overlap, [FrpNext]_frpVars
  PROVE  [Table!Next]_(Table!tableVars)
<1>1. CASE UNCHANGED frpVars
  BY <1>1, TableStands DEF frpVars
<1>2. ASSUME NEW p \in Procs, FrpcDies(p) \/ Watcher(p) PROVE UNCHANGED Table!tableVars
  BY <1>2, TableStands DEF FrpcDies, Watcher, memory
<1>3. CASE InstanceChanges
  BY <1>3, TableStands DEF InstanceChanges, memory
<1> QED BY <1>1, <1>2, <1>3, TableCallStep, TableRestarts DEF FrpNext

\* What callers of the manager see, one call at a time, is the table of TunnelTable, for
\* any number of tunnels, callers, frpcs and ends of the daemon (Apply, Remove,
\* RemoveInstance, persist, LoadFromDisk).
THEOREM TableImplemented == ASSUME ~Overlap PROVE FrpSpec => ImplementsTable
<1>1. FrpInit => Table!Init
  BY DEF FrpInit, Wanted, NoFile, Table!Init
<1>2. FrpIInv /\ FrpIInv' /\ [FrpNext]_frpVars => [Table!Next]_(Table!tableVars)
  BY TableStep
<1> QED BY <1>1, <1>2, FrpHolds, PTL DEF FrpSpec, ImplementsTable, Table!Spec

\* Whatever keeps such a table keeps its answers: they hold in memory and after every
\* restart, so callers may rely on the table alone.
THEOREM TableIsKept == ImplementsTable => []Table!Kept
<1>1. Table!Init => Table!Kept
  BY DEF Table!Init, Table!Kept, Table!Answers
<1>2. ASSUME Table!Kept, [Table!Next]_(Table!tableVars) PROVE Table!Kept'
  <2>1. CASE UNCHANGED Table!tableVars
    BY <1>2, <2>1 DEF Table!tableVars, Table!Kept
  <2>2. ASSUME NEW T \in SUBSET Tunnels, Table!Change(T) PROVE Table!Kept'
    BY <1>2, <2>2 DEF Table!Change, Table!Tell, Table!Kept, Table!Answers
  <2>3. ASSUME NEW T \in SUBSET Tunnels, NEW says \in Table!Answers, Table!Answer(T, says)
        PROVE  Table!Kept'
    BY <1>2, <2>3 DEF Table!Answer, Table!Confirms, Table!Tell, Table!Kept, Table!Answers
  <2>4. CASE Table!Save \/ Table!Restart
    BY <1>2, <2>4 DEF Table!Save, Table!Restart, Table!Kept, Table!Answers
  <2> QED BY <1>2, <2>1, <2>2, <2>3, <2>4 DEF Table!Next
<1>3. Table!Kept /\ [Table!Next]_(Table!tableVars) => Table!Kept'
  BY <1>2
<1> QED BY <1>1, <1>3, PTL DEF ImplementsTable, Table!Spec
=============================================================================
