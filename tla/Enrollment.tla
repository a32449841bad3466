------------------------------ MODULE Enrollment ------------------------------
(***************************************************************************)
(* How a node joins the panel and stays known to it: one-time tokens,      *)
(* certificate exchange, registration, heartbeats, and what an             *)
(* administrator may do to the node meanwhile (internal/panel/httpapi      *)
(* enroll.go and nodes.go, internal/panel/grpcapi, internal/daemon).       *)
(*                                                                         *)
(* A node has three identities that the code mixes: the node_uid of its    *)
(* installation (here the node itself), the node_id of its configuration   *)
(* (here the node itself too, so two nodes never share one) and the name   *)
(* in its certificate.  The nodes table has a row per uid and a name that  *)
(* an administrator may change; heartbeats carry the node_id only and find *)
(* their row by name.                                                      *)
(*                                                                         *)
(* The panel runs with mutual TLS.  Handlers of /api/enroll interleave,    *)
(* one SQL statement at a time; a client may give up and try again while   *)
(* its first request is still being served.                                *)
(***************************************************************************)
EXTENDS Naturals, Sequences, FiniteSets

CONSTANTS
  Nodes,      \* installations; each is also its node_uid and its node_id
  Exchanged,  \* those that join by certificate exchange
  Aliases,    \* other names an operator may use for a node
  Suffixes,   \* names made unique with a suffix (upsertEnrolledNode)
  Tokens,     \* join tokens that may be issued
  Handlers,   \* requests to /api/enroll that may be under way
  NoNode,     \* no uid: of a row created by hand, of an unbound token
  MaxRows,    \* bound: rows inserted into nodes
  MaxAdmin    \* bound: administrator's changes of nodes

None == "none"

ASSUME EnrollmentAssumption ==
  /\ Exchanged \subseteq Nodes
  /\ {None, NoNode} \cap (Nodes \cup Aliases \cup Suffixes \cup Handlers \cup Tokens) = {}
  /\ (Nodes \cup Aliases) \cap Suffixes = {} /\ Nodes \cap Aliases = {}
  /\ MaxRows \in Nat /\ MaxAdmin \in Nat

VARIABLES
  strict,  \* requireEnrollment: only exchanged nodes may connect
  token,   \* join_tokens: state and the uid a token is bound to
  hd,      \* the handlers of /api/enroll
  enr,     \* node_enrollments: are there valid, revoked ones of each uid
  rows,    \* nodes, in order of id; a deleted row is Gone
  creds,   \* on the node's disk: the name in node.crt, and does node.key match
  nd,      \* each daemon: where it stands and the name it connects with
  heard,   \* history: was the node's last heartbeat accepted, since it
           \* was last revoked
  granted, \* history: the nodes each token obtained a certificate for
  admin

vars == <<strict, token, hd, enr, rows, creds, nd, heard, granted, admin>>

Gone == [name |-> NoNode, uid |-> NoNode, fresh |-> FALSE]
NoRequest == [pc |-> "idle", tok |-> None, node |-> NoNode, name |-> NoNode]

Init ==
  /\ strict \in BOOLEAN
  /\ token = [t \in Tokens |-> [st |-> "unborn", for |-> NoNode]]
  /\ hd = [h \in Handlers |-> NoRequest]
  /\ enr = [n \in Nodes |-> {}]
  /\ rows = <<>>
  /\ creds = [n \in Nodes |-> [cn |-> IF n \in Exchanged THEN None ELSE n, whole |-> TRUE]]
  /\ nd = [n \in Nodes |-> [pc |-> "down", cn |-> None]]
  /\ heard = [n \in Exchanged |-> FALSE]
  /\ granted = [t \in Tokens |-> <<>>]
  /\ admin = 0

-----------------------------------------------------------------------------
(* Rows *)

Ids == 1..Len(rows)
Named(name) == {r \in Ids : rows[r].name = name}
OfUid(n) == {r \in Ids : rows[r].uid = n}

\* SELECT ... WHERE name = ?: the first of the rows of that name.
First(R) == CHOOSE r \in R : \A q \in R : r <= q
UidNamed(name) == IF Named(name) = {} THEN NoNode ELSE rows[First(Named(name))].uid

Row(name, n, fresh) == [name |-> name, uid |-> n, fresh |-> fresh]
Insert(row) == Len(rows) < MaxRows /\ rows' = Append(rows, row)

-----------------------------------------------------------------------------
(* Joining: the token and POST /api/enroll *)

handleIssueJoinToken(t, n) ==
  /\ token[t].st = "unborn"
  /\ token' = [token EXCEPT ![t] = [st |-> "valid", for |-> n]]
  /\ UNCHANGED <<strict, hd, enr, rows, creds, nd, heard, granted, admin>>

\* Fifteen minutes after it was issued.
TokenExpires(t) ==
  /\ token[t].st = "valid"
  /\ token' = [token EXCEPT ![t].st = "expired"]
  /\ UNCHANGED <<strict, hd, enr, rows, creds, nd, heard, granted, admin>>

\* atl-daemon enroll posts the token under the name it was given.
Enroll(n, t, name, h) ==
  /\ n \in Exchanged
  /\ token[t].st # "unborn"
  /\ name \in {n} \cup Aliases
  /\ hd[h].pc = "idle"
  /\ hd' = [hd EXCEPT ![h] = [pc |-> "consume", tok |-> t, node |-> n, name |-> name]]
  /\ UNCHANGED <<strict, token, enr, rows, creds, nd, heard, granted, admin>>

Goto(h, pc) == hd' = [hd EXCEPT ![h].pc = pc]

Done(h) == hd' = [hd EXCEPT ![h] = NoRequest]

\* Mutant: the token is looked up, and marked as used without the condition
Consume_LooksFirst(h) ==
  /\ hd[h].pc = "consume"
  /\ \/ /\ token[hd[h].tok].st \in {"valid", "used"}
        /\ token' = [token EXCEPT ![hd[h].tok].st = "used"]
        /\ Goto(h, "record")
     \/ Done(h) /\ UNCHANGED token
  /\ UNCHANGED <<strict, enr, rows, creds, nd, heard, granted, admin>>

\* The rate limiter may refuse.  One conditional UPDATE marks the token as
\* used if it is valid, and says whether it was.
Consume(h) ==
  /\ hd[h].pc = "consume"
  /\ \/ /\ token[hd[h].tok].st = "valid"
        /\ token' = [token EXCEPT ![hd[h].tok].st = "used"]
        /\ Goto(h, "record")
     \/ Done(h) /\ UNCHANGED token
  /\ UNCHANGED <<strict, enr, rows, creds, nd, heard, granted, admin>>

\* The token must be for this uid, the CSR must be fit to sign, and the row
\* of the enrollment must go in.  The token stays used whatever happens.
Record(h) ==
  /\ hd[h].pc = "record"
  /\ \/ /\ token[hd[h].tok].for \in {NoNode, hd[h].node}
        /\ enr' = [enr EXCEPT ![hd[h].node] = @ \cup {"valid"}]
        /\ granted' = [granted EXCEPT ![hd[h].tok] = Append(@, hd[h].node)]
        /\ Goto(h, "upsert")
     \/ Done(h) /\ UNCHANGED <<enr, granted>>
  /\ UNCHANGED <<strict, token, rows, creds, nd, heard, admin>>

\* upsertEnrolledNode: the uid's row takes the name; a new row takes it too
\* unless another row has it.
upsertEnrolledNode(n, name) ==
  IF OfUid(n) # {}
    THEN rows' = [rows EXCEPT ![First(OfUid(n))].name = name]
    ELSE IF Named(name) = {}
      THEN Insert(Row(name, n, FALSE))
      ELSE \E s \in Suffixes : Named(s) = {} /\ Insert(Row(s, n, FALSE))

\* The answer reaches the command or is lost (the command gives up after
\* 30 s); node.crt is written first and node.key second.
Upsert(h) ==
  /\ hd[h].pc = "upsert"
  /\ upsertEnrolledNode(hd[h].node, hd[h].name)
  /\ Done(h)
  /\ \/ creds' = [creds EXCEPT ![hd[h].node] = [cn |-> hd[h].name, whole |-> FALSE]]
     \/ UNCHANGED creds
  /\ UNCHANGED <<strict, token, enr, nd, heard, granted, admin>>

WriteKey(n) ==
  /\ ~creds[n].whole
  /\ creds' = [creds EXCEPT ![n].whole = TRUE]
  /\ UNCHANGED <<strict, token, hd, enr, rows, nd, heard, granted, admin>>

\* A join request made on the node (BuildJoinRequest) is pasted into the
\* panel, which may happen more than once within its half hour; the
\* certificate goes back by hand.
handleEnrollImport(n) ==
  /\ n \in Exchanged /\ admin < MaxAdmin
  /\ enr' = [enr EXCEPT ![n] = @ \cup {"valid"}]
  /\ upsertEnrolledNode(n, n)
  /\ \/ creds' = [creds EXCEPT ![n] = [cn |-> n, whole |-> TRUE]]
     \/ UNCHANGED creds
  /\ admin' = admin + 1
  /\ UNCHANGED <<strict, token, hd, nd, heard, granted>>

\* The same key is recorded again; a uid that was never enrolled has no key
\* to compare with.
handleEnrollRenew(n) ==
  /\ "revoked" \notin enr[n]
  /\ OfUid(n) # {}
  /\ enr' = [enr EXCEPT ![n] = @ \cup {"valid"}]
  /\ UNCHANGED <<strict, token, hd, rows, creds, nd, heard, granted, admin>>

-----------------------------------------------------------------------------
(* Registration and heartbeats *)

verifyPeerNode(n) == nd[n].cn = n
checkEnrollmentRequired(uid) == strict => uid # NoNode /\ "valid" \in enr[uid]
nodeRevoked(n) ==
  \/ Named(n) = {}
  \/ UidNamed(n) # NoNode /\ "revoked" \in enr[UidNamed(n)]

RegisterAccepts(n) == verifyPeerNode(n) /\ checkEnrollmentRequired(n)
PingAccepts(n) ==
  verifyPeerNode(n) /\ checkEnrollmentRequired(UidNamed(n)) /\ ~nodeRevoked(n)

\* Mutant: a node that registers anew is inserted without its node_uid
RegisterRow_ForgetsUid(n) ==
  CASE OfUid(n) # {} ->
         rows' = [rows EXCEPT ![First(OfUid(n))] = Row(n, n, TRUE)]
    [] OfUid(n) = {} /\ Named(n) # {} ->
         rows' = [rows EXCEPT ![First(Named(n))] =
                    Row(n, IF @.uid = NoNode THEN n ELSE @.uid, TRUE)]
    [] OTHER -> Insert(Row(n, NoNode, TRUE))

\* Register's search: by uid, and then the name follows the node; by name,
\* and then an empty uid is filled in; else a new row.
RegisterRow(n) ==
  CASE OfUid(n) # {} ->
         rows' = [rows EXCEPT ![First(OfUid(n))] = Row(n, n, TRUE)]
    [] OfUid(n) = {} /\ Named(n) # {} ->
         rows' = [rows EXCEPT ![First(Named(n))] =
                    Row(n, IF @.uid = NoNode THEN n ELSE @.uid, TRUE)]
    [] OTHER -> Insert(Row(n, n, TRUE))

\* The daemon loads its certificate when it starts; systemd starts it again
\* when it ended with an error.
Boot(n) ==
  /\ nd[n].pc = "down" /\ creds[n].cn # None /\ creds[n].whole
  /\ nd' = [nd EXCEPT ![n] = [pc |-> "registering", cn |-> creds[n].cn]]
  /\ UNCHANGED <<strict, token, hd, enr, rows, creds, heard, granted, admin>>

\* registerWithRetry: a refusal ends the daemon; when the answer is lost the
\* daemon tries again, although the panel has registered it.
Register(n) ==
  /\ nd[n].pc = "registering"
  /\ IF RegisterAccepts(n)
       THEN /\ RegisterRow(n)
            /\ \/ nd' = [nd EXCEPT ![n].pc = "beating"]
               \/ UNCHANGED nd
       ELSE /\ nd' = [nd EXCEPT ![n] = [pc |-> "down", cn |-> None]]
            /\ UNCHANGED rows
  /\ UNCHANGED <<strict, token, hd, enr, creds, heard, granted, admin>>

\* Mutant: a daemon whose heartbeat was refused gives up
Ping_GivesUp(n) ==
  /\ nd[n].pc = "beating"
  /\ IF PingAccepts(n)
       THEN /\ rows' = [r \in Ids |->
                 IF rows[r].name = n THEN [rows[r] EXCEPT !.fresh = TRUE] ELSE rows[r]]
            /\ heard' = [e \in Exchanged |-> e = n \/ heard[e]]
            /\ UNCHANGED nd
       ELSE /\ nd' = [nd EXCEPT ![n].pc = "slow"]
            /\ heard' = [e \in Exchanged |-> e # n /\ heard[e]]
            /\ UNCHANGED rows
  /\ UNCHANGED <<strict, token, hd, enr, creds, granted, admin>>

\* A heartbeat, every ten seconds or, once refused, every five minutes for
\* good.  An accepted one marks every row of that name as seen (heartbeats
\* within 30 s of one that was written change nothing that is ever read).
Ping(n) ==
  /\ nd[n].pc \in {"beating", "slow"}
  /\ IF PingAccepts(n)
       THEN /\ rows' = [r \in Ids |->
                 IF rows[r].name = n THEN [rows[r] EXCEPT !.fresh = TRUE] ELSE rows[r]]
            /\ heard' = [e \in Exchanged |-> e = n \/ heard[e]]
            /\ UNCHANGED nd
       ELSE /\ nd' = [nd EXCEPT ![n].pc = "slow"]
            /\ heard' = [e \in Exchanged |-> e # n /\ heard[e]]
            /\ UNCHANGED rows
  /\ UNCHANGED <<strict, token, hd, enr, creds, granted, admin>>

\* nodeOnline: 90 s pass without a heartbeat that was written.  How long a
\* heartbeat takes is not modelled, so this may happen to any row.
Stale(r) ==
  /\ rows[r].fresh
  /\ rows' = [rows EXCEPT ![r].fresh = FALSE]
  /\ UNCHANGED <<strict, token, hd, enr, creds, nd, heard, granted, admin>>

DaemonStops(n) ==
  /\ nd[n].pc # "down"
  /\ nd' = [nd EXCEPT ![n] = [pc |-> "down", cn |-> None]]
  /\ UNCHANGED <<strict, token, hd, enr, rows, creds, heard, granted, admin>>

-----------------------------------------------------------------------------
(* The administrator *)

Admin(r) == rows[r] # Gone /\ admin < MaxAdmin /\ admin' = admin + 1

\* A node that is deployed over SSH is registered by hand first, under a
\* name no row has.
handleCreateNode(n) ==
  /\ n \notin Exchanged /\ Named(n) = {}
  /\ admin < MaxAdmin /\ admin' = admin + 1
  /\ Insert(Row(n, NoNode, FALSE))
  /\ UNCHANGED <<strict, token, hd, enr, creds, nd, heard, granted>>

\* Only the display name matters here: an alias, or the node's own again.
handleUpdateNode(r, name) ==
  /\ Admin(r)
  /\ rows' = [rows EXCEPT ![r].name = name]
  /\ UNCHANGED <<strict, token, hd, enr, creds, nd, heard, granted>>

\* The enrollments are marked first.  The row goes too, unless it still has
\* instances; a deletion that comes later is handleDeleteNode.
handleRevokeNodeCredential(r) ==
  /\ Admin(r)
  /\ enr' = [n \in Nodes |-> IF n = rows[r].uid /\ enr[n] # {} THEN {"revoked"} ELSE enr[n]]
  /\ heard' = [n \in Exchanged |-> n # rows[r].uid /\ heard[n]]
  /\ \/ rows' = [rows EXCEPT ![r] = Gone]
     \/ UNCHANGED rows
  /\ UNCHANGED <<strict, token, hd, creds, nd, granted>>

handleDeleteNode(r) ==
  /\ Admin(r)
  /\ rows' = [rows EXCEPT ![r] = Gone]
  /\ UNCHANGED <<strict, token, hd, enr, creds, nd, heard, granted>>

-----------------------------------------------------------------------------
NodeStep(n) ==
  \/ Boot(n) \/ Register(n) \/ Ping(n) \/ DaemonStops(n)
  \/ WriteKey(n)
  \/ \E t \in Tokens, name \in Nodes \cup Aliases, h \in Handlers : Enroll(n, t, name, h)

PanelStep ==
  \/ \E h \in Handlers : Consume(h) \/ Record(h) \/ Upsert(h)
  \/ \E t \in Tokens : TokenExpires(t)
  \/ \E n \in Nodes : handleEnrollRenew(n)
  \/ \E r \in Ids : Stale(r)

AdminStep ==
  \/ \E t \in Tokens, n \in Nodes \cup {NoNode} : handleIssueJoinToken(t, n)
  \/ \E n \in Nodes : handleEnrollImport(n) \/ handleCreateNode(n)
  \/ \E r \in Ids : \/ handleRevokeNodeCredential(r) \/ handleDeleteNode(r)
                    \/ \E name \in Aliases \cup ({rows[r].uid} \ {NoNode}) :
                         handleUpdateNode(r, name)

Next == (\E n \in Nodes : NodeStep(n)) \/ PanelStep \/ AdminStep

\* Neither the registration's loop nor that of the heartbeats ends by itself.
Fairness == \A n \in Nodes : WF_vars(Register(n)) /\ WF_vars(Ping(n))

Spec == Init /\ [][Next]_vars /\ Fairness

-----------------------------------------------------------------------------
(* Properties *)

AllNames == Nodes \cup Aliases \cup Suffixes

\* Every variable keeps its type (join_tokens, node_enrollments, nodes).
TypeOK ==
  /\ strict \in BOOLEAN
  /\ token \in [Tokens -> [st : {"unborn", "valid", "used", "expired"},
                           for : Nodes \cup {NoNode}]]
  /\ hd \in [Handlers -> [pc : {"idle", "consume", "record", "upsert"},
                          tok : Tokens \cup {None}, node : Exchanged \cup {NoNode},
                          name : Nodes \cup Aliases \cup {NoNode}]]
  /\ enr \in [Nodes -> SUBSET {"valid", "revoked"}]
  /\ rows \in Seq([name : AllNames \cup {NoNode}, uid : Nodes \cup {NoNode}, fresh : BOOLEAN])
  /\ Len(rows) <= MaxRows
  /\ creds \in [Nodes -> [cn : {None} \cup Nodes \cup Aliases, whole : BOOLEAN]]
  /\ nd \in [Nodes -> [pc : {"down", "registering", "beating", "slow"},
                       cn : {None} \cup Nodes \cup Aliases]]
  /\ heard \in [Exchanged -> BOOLEAN]
  /\ granted \in [Tokens -> Seq(Nodes)]
  /\ admin \in 0..MaxAdmin

\* A join token buys one certificate, and one that is bound to a node buys it
\* for that node only, however many requests race for it and whatever became
\* of the first one's answer (handleEnroll's conditional UPDATE).
OneCertificatePerToken == \A t \in Tokens :
  /\ Len(granted[t]) <= 1
  /\ token[t].for # NoNode => \A i \in 1..Len(granted[t]) : granted[t][i] = token[t].for

\* Once its certificate is revoked, no heartbeat of a node is accepted: not
\* after the row is deleted, the daemon restarts and registers anew, or
\* somebody renames rows (nodeRevoked: the node cannot come back).
RevokedIsRefused == \A n \in Exchanged : "revoked" \in enr[n] => ~heard[n]

Welcome(n) ==
  /\ nd[n].pc # "down" /\ verifyPeerNode(n)
  /\ checkEnrollmentRequired(n) /\ checkEnrollmentRequired(UidNamed(n))
  /\ ~nodeRevoked(n)
Online(n) == \E r \in Named(n) : rows[r].fresh

\* A daemon that stays up and that the panel would accept is shown online
\* again and again, whatever it was told before: a refusal that was
\* withdrawn, an outage, a row deleted and made anew do not silence it
\* (the heartbeat loop never ends, registration is retried).
AcceptedComesOnline == \A n \in Nodes : <>[]Welcome(n) => []<>Online(n)

\* What the daemon and the panel tell an operator whose node is refused: let
\* the panel issue a token and run atl-daemon enroll.  So a node that has
\* enrolled since it was last revoked and has its row and its name is not
\* refused (daemon.go, Run; server.go, Ping).
ReenrolledIsHeard == [][\A n \in Exchanged :
  nd[n].pc = "beating" /\ nd'[n].pc = "slow" =>
    ~(verifyPeerNode(n) /\ UidNamed(n) = n /\ "valid" \in enr[n])]_vars

=============================================================================
