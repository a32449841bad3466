------------------------------ MODULE Tunnels ------------------------------
(***************************************************************************)
(* Public ports as the panel keeps them (panel/httpapi tunnels.go,         *)
(* instanceports.go, instances.go): the table of tunnels, the lines they   *)
(* run over, the quotas that bound them, and the instances they lead to.   *)
(*                                                                         *)
(* A request is a handler that reads and writes the table and calls the    *)
(* node in between, without a transaction or a lock over both.  A request  *)
(* serves once; what happens between two of its steps is up to the others. *)
(* A call to the node may fail before it arrives, or its answer may be     *)
(* lost after it took effect.                                              *)
(*                                                                         *)
(* Ports, line kinds and local ports are data; names, domains, tokens and  *)
(* the texts sent back are left out.                                       *)
(***************************************************************************)
EXTENDS Naturals, FiniteSets, FiniteSetsExt

CONSTANTS
  Requests,     \* the HTTP requests the panel serves, each once
  Insts,        \* instance ids, all on one node
  Users,        \* users that are not administrators
  Own,          \* lines over an frps of the operator: the panel allocates ports
  Third,        \* lines imported from a provider, one tunnel each
  Direct,       \* lines that are the node's own public address
  Segment,      \* port_start..port_end of the own lines
  Local,        \* the own lines whose frps runs on the node's machine
  LocalPorts,   \* the ports an instance listens on that a tunnel may lead to
  GamePort,     \* the game port of each instance, one of them
  MaxQuota,     \* bound: the largest quota given out
  MaxWant,      \* bound: ports asked for when an instance is created
  Serial        \* TRUE: requests that share an instance or a tunnel, or choose
                \* a port on one line, take turns (nothing in the code makes them)

Lines == Own \cup Third \cup Direct
Admin == "admin"
NoRow == "no row"
Unbound == "unbound"

ASSUME TunnelsAssumption ==
  /\ Own \cap (Third \cup Direct) = {} /\ Third \cap Direct = {}
  /\ Unbound \notin Insts /\ NoRow \notin Users
  /\ Insts \cap Third = {}       \* the two forms of a tunnel_id never coincide
  /\ Segment \subseteq Nat \ {0} /\ IsFiniteSet(Segment)
  /\ LocalPorts \subseteq Nat \ {0} /\ LocalPorts # {}
  /\ GamePort \in [Insts -> LocalPorts]
  /\ MaxQuota \in Nat /\ MaxWant \in Nat \ {0}
  /\ Serial \in BOOLEAN

\* port_start..port_end of a line: the lines that need no segment are stored with 0 and 0.
PortsOf(l) == IF l \in Own THEN Segment ELSE {0}

ProviderPort == 1     \* the remote port in a provider's configuration

\* tunnel_id: "<instance>-<protocol>-<port>", or "import-<line>-<n>".  The first form does not name the line.
TunnelId(i, p) == <<i, p>>
ImportedId(l) == <<l, 1>>
TunnelIds == {TunnelId(i, p) : i \in Insts, p \in Segment \cup LocalPorts \cup {0}}
               \cup {ImportedId(l) : l \in Third}

VARIABLES
  lines,      \* line -> "none", "up" or "gone": the table frps_servers
  listed,     \* instance -> NoRow, or the user its ports are charged to
  quota,      \* user, own line -> quota: the table node_user_ports
  rows,       \* tunnel id -> row: the table tunnels
  hosted,     \* the instances registered on the node
  carried,    \* instance -> the tunnels the node keeps for it
  req,        \* request -> its place in its handler
  stray       \* history: tunnels the node was left with, see RemoveOnNode and BindTunnel

table == <<lines, listed, quota, rows>>
node == <<hosted, carried>>
vars == <<table, node, req, stray>>

\* --------------------------------------------------------------- the table

Rows == DOMAIN rows
RowsOf(l) == {t \in Rows : rows[t].line = l}
Without(T) == [t \in Rows \ T |-> rows[t]]
With(t, row) == [u \in Rows \cup {t} |-> IF u = t THEN row ELSE rows[u]]
\* Mutant of UsedPorts: only tunnels the node serves occupy their port.
UsedPorts_Live(l) == {rows[t].port : t \in {u \in RowsOf(l) : rows[u].status = "live"}}

UsedPorts(l) == {rows[t].port : t \in RowsOf(l)}
FreePorts(l) == PortsOf(l) \ UsedPorts(l)

\* The game ports of the node's instances, when the line's frps would bind its ports on that machine.
Avoided(l) == IF l \in Local THEN {GamePort[i] : i \in {j \in Insts : listed[j] # NoRow}} ELSE {}

\* The lowest free port that is not to be avoided, or the lowest free one when no other is left.
ChosenPort(l) ==
  LET good == FreePorts(l) \ Avoided(l)
  IN  Min(IF good # {} THEN good ELSE FreePorts(l))

\* Ports are charged to the user of the instance the row leads to.
PortUsage(u, l) == Cardinality({t \in RowsOf(l) : rows[t].inst \in Insts /\ listed[rows[t].inst] = u})
QuotaAllows(u, l, n) == u \in Users /\ l \in Own /\ PortUsage(u, l) + n <= quota[<<u, l>>]

\* ------------------------------------------------------------- the requests

New(r) == req[r].pc = "new"
Active(r) == req[r].pc \notin {"new", "done"}

\* Whether request r works on instance i or on tunnel t.
WorksOn(r, i, t) ==
  Active(r) /\ (req[r].op = "delete_frps" \/ req[r].inst = i \/ (t # <<>> /\ req[r].tid = t))

Choosing(l) == \E r \in Requests : req[r].pc = "insert" /\ req[r].line = l

\* The discipline of Serial; without it a request starts whenever it comes.
Turn(i, t) == Serial => \A r \in Requests : ~WorksOn(r, i, t)
MayChoose(l) == Serial => ~Choosing(l)

Begin(r, op, pc, i, l, t, local) ==
  req' = [req EXCEPT ![r] = [op |-> op, pc |-> pc, inst |-> i, line |-> l, tid |-> t, port |-> 0,
                             local |-> local, todo |-> {}, want |-> 0, who |-> Admin,
                             by |-> IF t \in Rows THEN rows[t].by ELSE r]]
Goto(r, pc) == req' = [req EXCEPT ![r].pc = pc]
Finish(r) == req' = [req EXCEPT ![r] = [pc |-> "done"]]

\* A provider's tunnel goes to instance i with local port p.  Nothing asks whether
\* it is bound already: the node of the instance it leaves is not told.
BindTunnel(r, i, l, p) ==
  \E t \in RowsOf(l) :
    /\ rows[t].port > 0 /\ Turn(i, t)
    /\ rows' = [rows EXCEPT ![t].inst = i, ![t].local = p, ![t].status = "pending"]
    /\ Begin(r, "bind", "apply", i, l, t, p)
    /\ stray' = stray \cup ({rows[t].inst} \ {i, Unbound}) \X {t}
    /\ UNCHANGED <<lines, listed, quota, node>>

\* The request has chosen a remote port and is about to insert the row.
Choose(r, op, i, l, port, local) ==
  /\ Turn(i, TunnelId(i, port)) /\ MayChoose(l)
  /\ req' = [req EXCEPT ![r] = [op |-> op, pc |-> "insert", inst |-> i, line |-> l,
                                tid |-> TunnelId(i, port), port |-> port, local |-> local,
                                todo |-> {}, want |-> 0, who |-> Admin, by |-> r]]
  /\ UNCHANGED <<table, node, stray>>

\* POST /api/tunnels by the administrator: a port of the segment, given or chosen.
CreateTunnel(r) ==
  New(r) /\ \E i \in Insts, l \in Lines, p \in LocalPorts :
    /\ listed[i] # NoRow /\ lines[l] = "up"
    /\ \/ l \in Third /\ BindTunnel(r, i, l, p)
       \/ l \in Direct /\ Choose(r, "create", i, l, p, p)
       \/ l \in Own /\ \E port \in FreePorts(l) : Choose(r, "create", i, l, port, p)

\* POST /api/instances/{id}/ports, by a user only within the quota of the instance's user.
AddInstancePort(r) ==
  New(r) /\ \E i \in Insts, l \in Lines, p \in LocalPorts, who \in Users \cup {Admin} :
    /\ listed[i] # NoRow /\ lines[l] = "up"
    /\ who # Admin /\ l \in Own => QuotaAllows(listed[i], l, 1)
    /\ \/ l \in Third /\ BindTunnel(r, i, l, p)
       \/ l \in Direct /\ Choose(r, "add", i, l, p, p)
       \/ l \in Own /\ FreePorts(l) # {} /\ Choose(r, "add", i, l, ChosenPort(l), p)

\* The row is inserted, unless its tunnel_id is taken.  A direct line made by the
\* administrator is not sent to the node.
InsertRow(r) ==
  /\ req[r].pc = "insert"
  /\ LET q == req[r]
         sent == q.op # "create" \/ q.line \notin Direct
     IN  IF q.tid \in Rows
           THEN /\ IF q.op = "create_instance" THEN Goto(r, "provision") ELSE Finish(r)
                /\ UNCHANGED rows
           ELSE /\ rows' = With(q.tid, [inst |-> q.inst, line |-> q.line, port |-> q.port,
                                        local |-> q.local, by |-> r,
                                        status |-> IF sent THEN "pending" ELSE "direct"])
                /\ IF sent THEN Goto(r, "apply") ELSE Finish(r)
  /\ UNCHANGED <<lines, listed, quota, node, stray>>

\* POST /api/tunnels/{id}/reapply
ReapplyTunnel(r) ==
  New(r) /\ \E t \in Rows :
    /\ rows[t].inst # Unbound /\ lines[rows[t].line] = "up"
    /\ Turn(rows[t].inst, t)
    /\ Begin(r, "reapply", "apply", rows[t].inst, rows[t].line, t, rows[t].local)
    /\ UNCHANGED <<table, node, stray>>

\* Mutant of UpdateInstancePort: the new port waits for the next start of the instance.
UpdateInstancePort_NotSent(r) ==
  New(r) /\ \E t \in Rows, p \in LocalPorts :
    /\ rows[t].inst # Unbound /\ lines[rows[t].line] = "up"
    /\ Turn(rows[t].inst, t)
    /\ rows' = [rows EXCEPT ![t].local = p]
    /\ Finish(r)
    /\ UNCHANGED <<lines, listed, quota, node, stray>>

\* POST /api/instances/{id}/ports/{tunnel_id}: another local port, sent again.
UpdateInstancePort(r) ==
  New(r) /\ \E t \in Rows, p \in LocalPorts :
    /\ rows[t].inst # Unbound /\ lines[rows[t].line] = "up"
    /\ Turn(rows[t].inst, t)
    /\ rows' = [rows EXCEPT ![t].local = p]
    /\ Begin(r, "update", "apply", rows[t].inst, rows[t].line, t, p)
    /\ UNCHANGED <<lines, listed, quota, node, stray>>

\* The node's ApplyTunnel for the request's instance, which must be registered there.
ApplyOnNode(r) ==
  /\ req[r].pc = "apply"
  /\ LET q == req[r]
         accepts == listed[q.inst] # NoRow /\ q.inst \in hosted
         after == [carried EXCEPT ![q.inst] = {c \in @ : c.tid # q.tid}
                                                \cup {[tid |-> q.tid, local |-> q.local]}]
     IN  \/ accepts /\ carried' = after /\ Goto(r, "confirm")
         \/ accepts /\ carried' = after /\ Goto(r, "failed")      \* the answer was lost
         \/ carried' = carried /\ Goto(r, "failed")               \* refused, or not delivered
  /\ UNCHANGED <<table, hosted, stray>>

\* The status written is what the node lists afterwards.  The row is found by its
\* own id after a creation or a reapply, by its tunnel_id otherwise.
StoreStatus(r) ==
  /\ req[r].pc \in {"confirm", "failed"}
  /\ LET q == req[r]
         found == q.tid \in Rows /\ (q.op \in {"create", "reapply"} => rows[q.tid].by = q.by)
         lists == listed[q.inst] # NoRow /\ \E c \in carried[q.inst] : c.tid = q.tid
     IN  /\ \E s \in IF q.pc = "failed" THEN {"error"}
                     ELSE {"unknown"} \cup (IF lists THEN {"live"} ELSE {}) :
              rows' = IF found THEN [rows EXCEPT ![q.tid].status = s] ELSE rows
         /\ IF q.op = "create_instance" THEN Goto(r, "provision") ELSE Finish(r)
  /\ UNCHANGED <<lines, listed, quota, node, stray>>

\* DELETE /api/instances/{id}/ports/{tunnel_id}: the row goes first, then the
\* node is told.  A provider's tunnel is only unbound.
CloseInstancePort(r) ==
  New(r) /\ \E t \in Rows :
    LET i == rows[t].inst  l == rows[t].line IN
    /\ i # Unbound /\ Turn(i, t)
    /\ rows' = IF l \in Third THEN [rows EXCEPT ![t].inst = Unbound, ![t].status = "imported"]
               ELSE Without({t})
    /\ req' = [req EXCEPT ![r] = [op |-> "close", pc |-> "remove", inst |-> i, line |-> l, tid |-> t,
                                  todo |-> {<<i, t>>}]]
    /\ UNCHANGED <<lines, listed, quota, node, stray>>

\* DELETE /api/tunnels/{id}: the node is told first, then this very row goes.
DeleteTunnel(r) ==
  New(r) /\ \E t \in Rows :
    LET i == rows[t].inst IN
    /\ Turn(i, t)
    /\ req' = [req EXCEPT ![r] = [op |-> "delete", pc |-> "remove", inst |-> i, line |-> rows[t].line,
                                  tid |-> t, by |-> rows[t].by, todo |-> {<<i, t>>}]]
    /\ UNCHANGED <<table, node, stray>>

\* DELETE /api/frps/{id}: the node is told of every tunnel of the line first.
DeleteFrps(r) ==
  New(r) /\ \E l \in Lines :
    /\ lines[l] = "up"
    /\ Serial => \A x \in Requests : ~Active(x)
    /\ req' = [req EXCEPT ![r] = [op |-> "delete_frps", pc |-> "remove", inst |-> Unbound, line |-> l,
                                  tid |-> <<>>, todo |-> {<<rows[t].inst, t>> : t \in RowsOf(l)}]]
    /\ UNCHANGED <<table, node, stray>>

\* The node's RemoveTunnel.  Whether it was delivered is not looked at, and a tunnel
\* without an instance is not sent.
RemoveOnNode(r) ==
  /\ req[r].pc = "remove"
  /\ \E x \in req[r].todo :
       LET i == x[1]  t == x[2]
           sent == i # Unbound /\ listed[i] # NoRow
       IN  /\ req' = [req EXCEPT ![r].todo = @ \ {x}]
           /\ \/ sent /\ carried' = [carried EXCEPT ![i] = {c \in @ : c.tid # t}] /\ stray' = stray
              \/ sent /\ carried' = carried /\ stray' = stray \cup {<<i, t>>}
              \/ ~sent /\ UNCHANGED <<carried, stray>>
  /\ UNCHANGED <<table, hosted>>

\* What the handler deletes once the node was told.
DeleteRows(r) ==
  /\ req[r].pc = "remove" /\ req[r].todo = {}
  /\ LET q == req[r] IN
     /\ rows' = CASE q.op = "close"       -> rows
                  [] q.op = "delete"      -> Without({t \in Rows : t = q.tid /\ rows[t].by = q.by})
                  [] q.op = "delete_frps" -> Without(RowsOf(q.line))
     /\ lines' = IF q.op = "delete_frps" THEN [lines EXCEPT ![q.line] = "gone"] ELSE lines
  /\ Finish(r)
  /\ UNCHANGED <<listed, quota, node, stray>>

\* ------------------------------------------------------- instances and lines

\* POST /api/instances: the id must be new to the panel, and the ports asked for
\* within the caller's quota, before the node is called.
CreateInstance(r) ==
  New(r) /\ \E i \in Insts, l \in Lines, n \in 0..MaxWant, who \in Users \cup {Admin} :
    /\ listed[i] = NoRow /\ Turn(i, <<>>)
    /\ who # Admin /\ n > 0 => QuotaAllows(who, l, n)
    /\ req' = [req EXCEPT ![r] = [op |-> "create_instance", pc |-> "create", inst |-> i, line |-> l,
                                  tid |-> <<>>, port |-> 0, local |-> GamePort[i],
                                  todo |-> {}, want |-> n, who |-> who, by |-> r]]
    /\ UNCHANGED <<table, node, stray>>

CreateOnNode(r) ==
  /\ req[r].pc = "create"
  /\ LET i == req[r].inst IN
     \/ i \notin hosted /\ hosted' = hosted \cup {i} /\ Goto(r, "enlist")
     \/ i \notin hosted /\ hosted' = hosted \cup {i} /\ Finish(r)     \* the answer was lost
     \/ hosted' = hosted /\ Finish(r)                                \* refused, or not delivered
  /\ UNCHANGED <<table, carried, stray>>

EnlistInstance(r) ==
  /\ req[r].pc = "enlist"
  /\ IF listed[req[r].inst] = NoRow
       THEN listed' = [listed EXCEPT ![req[r].inst] = req[r].who] /\ Goto(r, "provision")
       ELSE UNCHANGED listed /\ Finish(r)
  /\ UNCHANGED <<lines, quota, rows, node, stray>>

\* One round of provisionInstanceTunnels: a port is chosen, or the round fails.
ProvisionPort(r) ==
  /\ req[r].pc = "provision"
  /\ LET q == req[r] IN
     IF q.want = 0 \/ lines[q.line] # "up" THEN Finish(r)
     ELSE IF FreePorts(q.line) = {} THEN req' = [req EXCEPT ![r].want = @ - 1]
     ELSE /\ MayChoose(q.line)
          /\ req' = [req EXCEPT ![r].want = @ - 1, ![r].pc = "insert", ![r].port = ChosenPort(q.line),
                                ![r].tid = TunnelId(q.inst, ChosenPort(q.line))]
  /\ UNCHANGED <<table, node, stray>>

\* POST /api/instances/{id}/delete: the node first, and the tables only when it agreed.
DeleteInstance(r) ==
  New(r) /\ \E i \in Insts :
    /\ listed[i] # NoRow /\ Turn(i, <<>>)
    /\ Begin(r, "delete_instance", "unregister", i, <<>>, <<>>, 0)
    /\ UNCHANGED <<table, node, stray>>

\* An instance the node does not know counts as deleted; its tunnels go with it.
UnregisterOnNode(r) ==
  /\ req[r].pc = "unregister"
  /\ LET i == req[r].inst
         gone == hosted' = hosted \ {i} /\ carried' = [carried EXCEPT ![i] = {}]
     IN  \/ gone /\ Goto(r, "forget")
         \/ gone /\ Finish(r)                      \* the answer was lost
         \/ UNCHANGED node /\ Finish(r)            \* it would not stop, or was not delivered
  /\ UNCHANGED <<table, stray>>

ForgetInstance(r) ==
  /\ req[r].pc = "forget"
  /\ listed' = [listed EXCEPT ![req[r].inst] = NoRow]
  /\ rows' = Without({t \in Rows : rows[t].inst = req[r].inst})
  /\ Finish(r)
  /\ UNCHANGED <<lines, quota, node, stray>>

\* A line of the operator, or a provider's configuration with its one tunnel.
CreateFrps(l) ==
  /\ l \notin Third /\ lines[l] = "none" /\ lines' = [lines EXCEPT ![l] = "up"]
  /\ UNCHANGED <<listed, quota, rows, node, req, stray>>

ImportFrps(l) ==
  /\ l \in Third /\ lines[l] = "none" /\ lines' = [lines EXCEPT ![l] = "up"]
  /\ rows' = With(ImportedId(l), [inst |-> Unbound, line |-> l, port |-> ProviderPort,
                                  local |-> Min(LocalPorts), by |-> "import", status |-> "imported"])
  /\ UNCHANGED <<listed, quota, node, req, stray>>

\* The administrator gives or takes quota, or makes another user the instance's owner.
SetPortGrant(r) ==
  New(r) /\ \E u \in Users, l \in Own, n \in 0..MaxQuota :
    /\ lines[l] = "up" /\ quota' = [quota EXCEPT ![<<u, l>>] = n] /\ Finish(r)
    /\ UNCHANGED <<lines, listed, rows, node, stray>>

SetAssignment(r) ==
  New(r) /\ \E i \in Insts, u \in Users \cup {Admin} :
    /\ listed[i] # NoRow /\ listed' = [listed EXCEPT ![i] = u] /\ Finish(r)
    /\ UNCHANGED <<lines, quota, rows, node, stray>>

\* ------------------------------------------------------------ specification

Init ==
  /\ lines \in [Lines -> {"none"}]
  /\ listed \in [Insts -> {NoRow} \cup Users]
  /\ quota = [x \in Users \X Own |-> 0]
  /\ rows = <<>>
  /\ hosted = {i \in Insts : listed[i] # NoRow}
  /\ carried = [i \in Insts |-> {}]
  /\ req = [r \in Requests |-> [pc |-> "new"]]
  /\ stray = {}

Handler(r) ==
  \/ CreateTunnel(r) \/ AddInstancePort(r) \/ ReapplyTunnel(r) \/ UpdateInstancePort(r)
  \/ CloseInstancePort(r) \/ DeleteTunnel(r) \/ DeleteFrps(r)
  \/ InsertRow(r) \/ ApplyOnNode(r) \/ StoreStatus(r) \/ RemoveOnNode(r) \/ DeleteRows(r)
  \/ CreateInstance(r) \/ CreateOnNode(r) \/ EnlistInstance(r) \/ ProvisionPort(r)
  \/ DeleteInstance(r) \/ UnregisterOnNode(r) \/ ForgetInstance(r)
  \/ SetPortGrant(r) \/ SetAssignment(r)

Next ==
  \/ \E r \in Requests : Handler(r)
  \/ \E l \in Lines : CreateFrps(l) \/ ImportFrps(l)

Spec == Init /\ [][Next]_vars

\* --------------------------------------------------------------- properties

Statuses == {"imported", "pending", "direct", "live", "unknown", "error"}

Ports == Segment \cup LocalPorts \cup {0, ProviderPort}
Row == [inst : Insts \cup {Unbound}, line : Lines, port : Ports, local : LocalPorts,
        by : Requests \cup {"import"}, status : Statuses]

\* Where a request stands that makes or sends a tunnel, deletes an instance, or removes tunnels.
Serving == [op : {"bind", "create", "add", "reapply", "update", "create_instance"},
            pc : {"create", "enlist", "provision", "insert", "apply", "confirm", "failed"},
            inst : Insts, line : Lines, tid : TunnelIds \cup {<<>>}, port : Ports,
            local : LocalPorts, todo : {{}}, want : 0..MaxWant, who : Users \cup {Admin},
            by : Requests \cup {"import"}]
Deleting == [op : {"delete_instance"}, pc : {"unregister", "forget"}, inst : Insts, line : {<<>>},
             tid : {<<>>}, port : {0}, local : {0}, todo : {{}}, want : {0}, who : {Admin},
             by : Requests]
Sendings == SUBSET ((Insts \cup {Unbound}) \X TunnelIds)
Removing ==
  [op : {"close"}, pc : {"remove"}, inst : Insts, line : Lines, tid : TunnelIds, todo : Sendings]
    \cup [op : {"delete"}, pc : {"remove"}, inst : Insts \cup {Unbound}, line : Lines,
          tid : TunnelIds, by : Requests \cup {"import"}, todo : Sendings]
    \cup [op : {"delete_frps"}, pc : {"remove"}, inst : {Unbound}, line : Lines, tid : {<<>>},
          todo : Sendings]
Places == [pc : {"new", "done"}] \cup Serving \cup Deleting \cup Removing

\* Type invariant.
TypeOK ==
  /\ lines \in [Lines -> {"none", "up", "gone"}]
  /\ listed \in [Insts -> {NoRow, Admin} \cup Users]
  /\ quota \in [Users \X Own -> 0..MaxQuota]
  /\ Rows \subseteq TunnelIds /\ rows \in [Rows -> Row]
  /\ hosted \subseteq Insts
  /\ carried \in [Insts -> SUBSET [tid : TunnelIds, local : LocalPorts]]
  /\ req \in [Requests -> Places]
  /\ stray \subseteq Insts \X TunnelIds

\* A public port of an own line leads to one tunnel: allocRemotePortAvoiding gives
\* out free ports, and the frps can bind a port once.
PortsAreExclusive ==
  \A t, u \in Rows :
    rows[t].line \in Own /\ rows[u].line = rows[t].line /\ rows[u].port = rows[t].port => t = u

\* Once no request works on it, a tunnel the node keeps for an instance is in the
\* table under that instance.  The exceptions are the removals that did not reach
\* the node and a provider's tunnel that was bound elsewhere while bound.
NodeTunnelsAreKnown ==
  \A i \in Insts : \A c \in carried[i] :
    \/ c.tid \in Rows /\ rows[c.tid].inst = i
    \/ <<i, c.tid>> \in stray
    \/ \E r \in Requests : WorksOn(r, i, c.tid)

\* Once no request works on it, a tunnel whose status says that the node serves it is
\* on that node with the local port of the table (instanceports.go: sent again at
\* once, or frpc keeps the old configuration).
LiveRowsAreServed ==
  \A t \in Rows :
    LET row == rows[t] IN
    row.status = "live" /\ row.inst \in hosted /\ (\A r \in Requests : ~WorksOn(r, row.inst, t))
      => [tid |-> t, local |-> row.local] \in carried[row.inst]

\* The node and the table agree, whatever answers are lost: neither keeps a tunnel the
\* other has forgotten.
NodeAgreesWithTable == NodeTunnelsAreKnown /\ LiveRowsAreServed
=============================================================================
