--------------------------- MODULE EnrollmentProofs ---------------------------
(***************************************************************************)
(* Proofs about module Enrollment: its type invariant, that a join token   *)
(* buys one certificate, and that a revoked node is refused, for any       *)
(* number of nodes, tokens, requests and changes by the administrator.     *)
(***************************************************************************)
EXTENDS Enrollment, TLAPS, SequenceTheorems, FiniteSetTheorems, WellFoundedInduction

RowType == [name : AllNames \cup {NoNode}, uid : Nodes \cup {NoNode}, fresh : BOOLEAN]

\* A row that bears the name of a node is the row of that node; only a row that an
\* administrator made for a node that does not join by exchange may lack the uid.
OwnName(row) ==
  row.name \in Nodes => \/ row.uid = row.name
                        \/ row.uid = NoNode /\ row.name \notin Exchanged

RowsFacts ==
  /\ rows \in Seq(RowType) /\ Len(rows) <= MaxRows
  /\ \A r \in Ids : OwnName(rows[r])

\* A request that is under way carries a token, a node and a name.
HandlerFacts == \A h \in Handlers : hd[h].pc # "idle" =>
  hd[h].tok \in Tokens /\ hd[h].node \in Exchanged /\ hd[h].name \in {hd[h].node} \cup Aliases

Recording(h, t) == hd[h].pc = "record" /\ hd[h].tok = t

\* A token that is used for good was marked by one request, which either still has to
\* record the certificate or has done so.
TokenFacts == \A t \in Tokens :
  /\ granted[t] # <<>> => token[t].st = "used"
  /\ \A h \in Handlers : Recording(h, t) => token[t].st = "used" /\ granted[t] = <<>>
  /\ \A h, g \in Handlers : Recording(h, t) /\ Recording(g, t) => h = g

IInv ==
  /\ TypeOK /\ RowsFacts /\ HandlerFacts /\ TokenFacts
  /\ OneCertificatePerToken /\ RevokedIsRefused

-----------------------------------------------------------------------------
(* Rows *)

\* A query for the first row of some finds one of them.
LEMMA FirstIsMember ==
  ASSUME NEW R, R \subseteq Nat, R # {}
  PROVE  First(R) \in R
<1> DEFINE Below == {1..r : r \in R}
\* The intervals below the members of R are finite sets: one of them is minimal.
<1>1. Below \subseteq FiniteSubsetsOf(Nat) /\ Below # {}
  <2>1. \A r \in R : IsFiniteSet(1..r) /\ 1..r \subseteq Nat
    BY FS_Interval
  <2> QED
    BY <2>1 DEF FiniteSubsetsOf
<1>2. PICK b \in Below : \A c \in Below : <<c, b>> \notin StrictSubsetOrdering(Nat)
  BY <1>1, FS_StrictSubsetOrderingWellFounded, WFMin
<1>3. PICK r \in R : b = 1..r
  BY <1>2
<1>4. ASSUME NEW q \in R PROVE r <= q
  <2>1. 1..q \in Below /\ 1..q \subseteq Nat /\ 1..r \subseteq Nat
    OBVIOUS
  <2>2. ~(1..q \subseteq 1..r /\ 1..q # 1..r)
    BY <1>2, <1>3, <2>1 DEF StrictSubsetOrdering
  <2>3. SUFFICES ASSUME q < r PROVE FALSE
    OBVIOUS
  <2>4. 1..q \subseteq 1..r /\ r \in 1..r /\ r \notin 1..q
    BY <2>3
  <2> QED
    BY <2>2, <2>4
<1> QED
  BY <1>4 DEF First

LEMMA FoundRows ==
  ASSUME RowsFacts, NEW x
  PROVE  /\ Named(x) # {} => First(Named(x)) \in Named(x)
         /\ OfUid(x) # {} => First(OfUid(x)) \in OfUid(x)
<1>1. Ids \subseteq Nat
  BY LenProperties DEF RowsFacts, Ids
<1> QED
  BY <1>1, FirstIsMember DEF Named, OfUid

LEMMA RowsHaveTheirType ==
  ASSUME RowsFacts
  PROVE  /\ Len(rows) \in Nat /\ DOMAIN rows = Ids
         /\ \A r \in Ids : rows[r] \in RowType
BY LenProperties, ElementOfSeq DEF RowsFacts, Ids

\* Rows stay good when a good one is added, when one is replaced by a good one, and
\* when only their heartbeats change.
LEMMA RowAdded ==
  ASSUME RowsFacts, NEW row \in RowType, OwnName(row), Insert(row)
  PROVE  RowsFacts'
<1>1. rows' = Append(rows, row) /\ Len(rows) < MaxRows
  BY DEF Insert
<1>2. rows \in Seq(RowType) /\ Len(rows) \in Nat /\ MaxRows \in Nat
  BY LenProperties, EnrollmentAssumption DEF RowsFacts
<1>3. /\ rows' \in Seq(RowType) /\ Len(rows') = Len(rows) + 1
      /\ \A r \in 1..Len(rows) : rows'[r] = rows[r]
      /\ rows'[Len(rows) + 1] = row
  BY <1>1, <1>2, AppendProperties
<1>4. ASSUME NEW r \in 1..Len(rows') PROVE OwnName(rows'[r])
  <2>1. CASE r = Len(rows) + 1
    BY <2>1, <1>3
  <2>2. CASE r # Len(rows) + 1
    <3>1. r \in 1..Len(rows)
      BY <2>2, <1>2, <1>3
    <3> QED
      BY <3>1, <1>3 DEF RowsFacts, Ids
  <2> QED
    BY <2>1, <2>2
<1>5. Len(rows') <= MaxRows
  BY <1>1, <1>2, <1>3
<1>6. \A r \in Ids' : OwnName(rows[r])'
  BY <1>4 DEF Ids, OwnName
<1> QED
  BY <1>3, <1>5, <1>6 DEF RowsFacts

LEMMA RowsRewritten ==
  ASSUME RowsFacts, DOMAIN rows' = Ids, rows' = [r \in Ids |-> rows'[r]],
         \A r \in Ids : rows'[r] \in RowType /\ OwnName(rows'[r])
  PROVE  RowsFacts'
<1>1. Len(rows) \in Nat /\ Ids = 1..Len(rows)
  BY RowsHaveTheirType DEF Ids
<1>2. rows' \in [1..Len(rows) -> RowType]
  BY <1>1
<1>3. rows' \in Seq(RowType)
  BY <1>1, <1>2, SeqDef
<1>4. Len(rows') = Len(rows)
  BY <1>1, <1>3, LenProperties
<1>5. Ids' = Ids
  BY <1>4 DEF Ids
<1>6. \A r \in Ids' : OwnName(rows[r])'
  BY <1>5 DEF OwnName
<1> QED
  BY <1>3, <1>4, <1>6 DEF RowsFacts

LEMMA RowReplaced ==
  ASSUME RowsFacts, NEW s, NEW row \in RowType, OwnName(row), rows' = [rows EXCEPT ![s] = row]
  PROVE  RowsFacts'
<1>1. DOMAIN rows = Ids /\ \A r \in Ids : rows[r] \in RowType /\ OwnName(rows[r])
  BY RowsHaveTheirType DEF RowsFacts
<1>2. DOMAIN rows' = Ids /\ \A r \in Ids : rows'[r] = IF r = s THEN row ELSE rows[r]
  BY <1>1
<1>3. rows' = [r \in Ids |-> rows'[r]]
  BY <1>1
<1>4. \A r \in Ids : rows'[r] \in RowType /\ OwnName(rows'[r])
  BY <1>1, <1>2
<1> QED
  BY <1>2, <1>3, <1>4, RowsRewritten

\* Registration leaves the rows good: the row it finds is the node's own.
LEMMA RegisterRowKeeps ==
  ASSUME RowsFacts, NEW n \in Nodes, RegisterRow(n)
  PROVE  RowsFacts'
<1>1. n \in AllNames \cup {NoNode} /\ n # NoNode
  BY EnrollmentAssumption DEF AllNames
<1>2. CASE OfUid(n) # {}
  <2>1. rows' = [rows EXCEPT ![First(OfUid(n))] = Row(n, n, TRUE)]
    BY <1>2 DEF RegisterRow
  <2>2. Row(n, n, TRUE) \in RowType /\ OwnName(Row(n, n, TRUE))
    BY <1>1 DEF Row, RowType, OwnName
  <2> QED
    BY <2>1, <2>2, RowReplaced
<1>3. CASE OfUid(n) = {} /\ Named(n) # {}
  <2> DEFINE f == First(Named(n))
             row == Row(n, IF rows[f].uid = NoNode THEN n ELSE rows[f].uid, TRUE)
  <2>1. f \in Ids /\ rows[f].name = n
    BY <1>3, FoundRows DEF Named
  <2>2. rows[f].uid \in {n, NoNode}
    BY <2>1 DEF RowsFacts, OwnName
  <2>3. rows' = [rows EXCEPT ![f] = row]
    BY <1>3 DEF RegisterRow
  <2>4. row = Row(n, n, TRUE)
    BY <2>2
  <2>5. row \in RowType /\ OwnName(row)
    BY <1>1, <2>4 DEF Row, RowType, OwnName
  <2> HIDE DEF f, row
  <2> QED
    BY <2>3, <2>5, RowReplaced
<1>4. CASE OfUid(n) = {} /\ Named(n) = {}
  <2>1. Insert(Row(n, n, TRUE))
    BY <1>4 DEF RegisterRow
  <2>2. Row(n, n, TRUE) \in RowType /\ OwnName(Row(n, n, TRUE))
    BY <1>1 DEF Row, RowType, OwnName
  <2> QED
    BY <2>1, <2>2, RowAdded
<1> QED
  BY <1>2, <1>3, <1>4

\* A row that changes its name only, to an alias or to that of its node.
LEMMA RowRenamed ==
  ASSUME RowsFacts, NEW r \in Ids, NEW name, name \in Aliases \cup ({rows[r].uid} \ {NoNode}),
         rows' = [rows EXCEPT ![r].name = name]
  PROVE  RowsFacts'
<1> DEFINE row == [rows[r] EXCEPT !.name = name]
<1>1. rows[r] \in RowType
  BY RowsHaveTheirType
<1>2. rows[r].uid \in Nodes \cup {NoNode}
  BY <1>1 DEF RowType
<1>3. name \in AllNames
  BY <1>2 DEF AllNames
<1>4. row \in RowType
  BY <1>1, <1>3 DEF RowType
<1>5. row.name = name /\ row.uid = rows[r].uid
  BY <1>1 DEF RowType
<1>6. OwnName(row)
  BY <1>5, EnrollmentAssumption DEF OwnName
<1>7. rows' = [rows EXCEPT ![r] = row]
  OBVIOUS
<1> HIDE DEF row
<1> QED
  BY <1>4, <1>6, <1>7, RowReplaced

\* So does an enrollment, under the node's name, an alias or a name made unique.
LEMMA UpsertKeeps ==
  ASSUME RowsFacts, NEW n \in Nodes, NEW name, name \in {n} \cup Aliases,
         upsertEnrolledNode(n, name)
  PROVE  RowsFacts'
<1>1. n # NoNode /\ name \in AllNames
  BY EnrollmentAssumption DEF AllNames
<1>2. CASE OfUid(n) # {}
  <2>1. First(OfUid(n)) \in Ids /\ rows[First(OfUid(n))].uid = n
    BY <1>2, FoundRows DEF OfUid
  <2>2. rows' = [rows EXCEPT ![First(OfUid(n))].name = name]
    BY <1>2 DEF upsertEnrolledNode
  <2> QED
    BY <1>1, <2>1, <2>2, RowRenamed
<1>3. CASE OfUid(n) = {}
  <2>1. PICK s \in Suffixes \cup {name} : Insert(Row(s, n, FALSE))
    BY <1>3 DEF upsertEnrolledNode
  <2>2. Row(s, n, FALSE) \in RowType
    BY <1>1 DEF Row, RowType, AllNames
  <2>3. OwnName(Row(s, n, FALSE))
    BY EnrollmentAssumption DEF Row, OwnName
  <2> QED
    BY <2>1, <2>2, <2>3, RowAdded
<1> QED
  BY <1>2, <1>3

-----------------------------------------------------------------------------
(* Initial states *)

LEMMA InitIInv == Init => IInv
<1> SUFFICES ASSUME Init PROVE IInv
  OBVIOUS
<1> USE DEF Init
<1>1. rows = <<>> /\ Len(rows) = 0 /\ rows \in Seq(RowType) /\ Ids = {}
  BY EmptySeq DEF Ids
<1>2. \A t \in Tokens : granted[t] = <<>> /\ Len(granted[t]) = 0 /\ granted[t] \in Seq(Nodes)
  BY EmptySeq
<1>3. TypeOK
  <2>1. rows \in Seq([name : AllNames \cup {NoNode}, uid : Nodes \cup {NoNode}, fresh : BOOLEAN])
    BY <1>1 DEF RowType
  <2>2. creds \in [Nodes -> [cn : {None} \cup Nodes \cup Aliases, whole : BOOLEAN]]
    OBVIOUS
  <2>3. granted \in [Tokens -> Seq(Nodes)]
    BY <1>2
  <2>4. Len(rows) <= MaxRows
    BY <1>1, EnrollmentAssumption
  <2>5. admin \in 0..MaxAdmin
    BY EnrollmentAssumption
  <2> QED
    BY <2>1, <2>2, <2>3, <2>4, <2>5 DEF TypeOK, NoRequest
<1>4. RowsFacts
  BY <1>1, EnrollmentAssumption DEF RowsFacts
<1>5. HandlerFacts /\ TokenFacts
  BY <1>2 DEF HandlerFacts, TokenFacts, Recording, NoRequest
<1>6. OneCertificatePerToken
  BY <1>2 DEF OneCertificatePerToken
<1>7. RevokedIsRefused
  BY DEF RevokedIsRefused
<1> QED
  BY <1>3, <1>4, <1>5, <1>6, <1>7 DEF IInv

-----------------------------------------------------------------------------
(* Rows and requests *)

LEMMA RowsPreserved == IInv /\ [Next]_vars => RowsFacts'
<1> SUFFICES ASSUME IInv, [Next]_vars PROVE RowsFacts'
  OBVIOUS
<1> USE DEF IInv
<1>1. Ids \subseteq Nat /\ \A r \in Ids : rows[r] \in RowType
  BY RowsHaveTheirType DEF Ids
<1>2. ASSUME UNCHANGED rows PROVE RowsFacts'
  BY <1>2 DEF RowsFacts, Ids, OwnName
<1>3. ASSUME NEW r \in Ids, rows' = [rows EXCEPT ![r] = Gone] PROVE RowsFacts'
  BY <1>3, RowReplaced, EnrollmentAssumption DEF Gone, RowType, OwnName
<1>4. ASSUME NEW n \in Nodes, Boot(n) \/ DaemonStops(n) \/ WriteKey(n) \/ handleEnrollRenew(n)
      PROVE RowsFacts'
  BY <1>2, <1>4 DEF Boot, DaemonStops, WriteKey, handleEnrollRenew
<1>5. ASSUME NEW n \in Nodes, Register(n) PROVE RowsFacts'
  BY <1>2, <1>5, RegisterRowKeeps DEF Register
<1>6. ASSUME NEW n \in Nodes, Ping(n) PROVE RowsFacts'
  <2>1. CASE PingAccepts(n)
    <3>1. rows' = [r \in Ids |-> IF rows[r].name = n THEN [rows[r] EXCEPT !.fresh = TRUE] ELSE rows[r]]
      BY <1>6, <2>1 DEF Ping
    <3>2. \A r \in Ids : [rows[r] EXCEPT !.fresh = TRUE] \in RowType
      BY <1>1 DEF RowType
    <3>3. ASSUME NEW r \in Ids PROVE OwnName(rows'[r])
      <4>1. rows'[r].name = rows[r].name /\ rows'[r].uid = rows[r].uid
        BY <3>1, <1>1 DEF RowType
      <4> QED
        BY <4>1 DEF RowsFacts, OwnName
    <3>4. \A r \in Ids : rows'[r] \in RowType
      BY <1>1, <3>1, <3>2
    <3>5. DOMAIN rows' = Ids /\ rows' = [r \in Ids |-> rows'[r]]
      BY <3>1
    <3> QED
      BY <3>3, <3>4, <3>5, RowsRewritten
  <2>2. CASE ~PingAccepts(n)
    BY <1>2, <1>6, <2>2 DEF Ping
  <2> QED
    BY <2>1, <2>2
<1>7. ASSUME NEW h \in Handlers, Consume(h) \/ Record(h) PROVE RowsFacts'
  BY <1>2, <1>7 DEF Consume, Record
<1>8. ASSUME NEW h \in Handlers, Upsert(h) PROVE RowsFacts'
  <2>1. hd[h].node \in Nodes /\ hd[h].name \in {hd[h].node} \cup Aliases
    BY <1>8, EnrollmentAssumption DEF Upsert, HandlerFacts
  <2> QED
    BY <1>8, <2>1, UpsertKeeps DEF Upsert
<1>9. ASSUME NEW n \in Nodes, handleEnrollImport(n) PROVE RowsFacts'
  BY <1>9, UpsertKeeps DEF handleEnrollImport
<1>10. ASSUME NEW n \in Nodes, handleCreateNode(n) PROVE RowsFacts'
  <2>1. Insert(Row(n, NoNode, FALSE)) /\ n \notin Exchanged
    BY <1>10 DEF handleCreateNode
  <2>2. Row(n, NoNode, FALSE) \in RowType /\ OwnName(Row(n, NoNode, FALSE))
    BY <2>1 DEF Row, RowType, OwnName, AllNames
  <2> QED
    BY <2>1, <2>2, RowAdded
<1>11. ASSUME NEW r \in Ids, Stale(r) PROVE RowsFacts'
  <2> DEFINE row == [rows[r] EXCEPT !.fresh = FALSE]
  <2>1. row \in RowType /\ row.name = rows[r].name /\ row.uid = rows[r].uid
    BY <1>1 DEF RowType
  <2>2. OwnName(row)
    BY <2>1 DEF RowsFacts, OwnName
  <2>3. rows' = [rows EXCEPT ![r] = row]
    BY <1>11 DEF Stale
  <2> HIDE DEF row
  <2> QED
    BY <2>1, <2>2, <2>3, RowReplaced
<1>12. ASSUME NEW r \in Ids, NEW name \in Aliases \cup ({rows[r].uid} \ {NoNode}),
              handleUpdateNode(r, name)
       PROVE RowsFacts'
  BY <1>12, RowRenamed DEF handleUpdateNode
<1>13. ASSUME NEW r \in Ids, handleRevokeNodeCredential(r) \/ handleDeleteNode(r) PROVE RowsFacts'
  BY <1>2, <1>3, <1>13 DEF handleRevokeNodeCredential, handleDeleteNode
<1>14. ASSUME NEW n \in Nodes, NEW t \in Tokens, NEW name, NEW h \in Handlers, Enroll(n, t, name, h)
       PROVE RowsFacts'
  BY <1>2, <1>14 DEF Enroll
<1>15. ASSUME NEW t \in Tokens, NEW n, TokenExpires(t) \/ handleIssueJoinToken(t, n) PROVE RowsFacts'
  BY <1>2, <1>15 DEF TokenExpires, handleIssueJoinToken
<1>16. CASE UNCHANGED vars
  BY <1>2, <1>16 DEF vars
<1> QED
  BY <1>4, <1>5, <1>6, <1>7, <1>8, <1>9, <1>10, <1>11, <1>12, <1>13, <1>14, <1>15, <1>16
  DEF Next, NodeStep, PanelStep, AdminStep

\* What a request carries was fixed when it arrived.
LEMMA HandlersPreserved == IInv /\ [Next]_vars => HandlerFacts'
<1> SUFFICES ASSUME IInv, [Next]_vars PROVE HandlerFacts'
  OBVIOUS
<1> USE DEF IInv
<1>0. DOMAIN hd = Handlers
  BY DEF TypeOK
<1>1. ASSUME UNCHANGED hd PROVE HandlerFacts'
  BY <1>1 DEF HandlerFacts
<1>2. ASSUME NEW h \in Handlers, Done(h) PROVE HandlerFacts'
  BY <1>0, <1>2 DEF HandlerFacts, Done, NoRequest
<1>3. ASSUME NEW h \in Handlers, NEW pc, hd[h].pc # "idle", Goto(h, pc) PROVE HandlerFacts'
  <2>1. ASSUME NEW g \in Handlers
        PROVE /\ hd'[g].tok = hd[g].tok /\ hd'[g].node = hd[g].node /\ hd'[g].name = hd[g].name
              /\ hd'[g].pc # "idle" => hd[g].pc # "idle"
    <3>1. hd[g] \in [pc : {"idle", "consume", "record", "upsert"}, tok : Tokens \cup {None},
                     node : Exchanged \cup {NoNode}, name : Nodes \cup Aliases \cup {NoNode}]
      BY DEF TypeOK
    <3> QED
      BY <1>0, <1>3, <3>1 DEF Goto
  <2> QED
    BY <2>1 DEF HandlerFacts
<1>4. ASSUME NEW h \in Handlers, Consume(h) \/ Record(h) \/ Upsert(h) PROVE HandlerFacts'
  BY <1>2, <1>3, <1>4 DEF Consume, Record, Upsert
<1>5. ASSUME NEW n \in Nodes, NEW t \in Tokens, NEW name, NEW h \in Handlers, Enroll(n, t, name, h)
      PROVE HandlerFacts'
  BY <1>0, <1>5 DEF Enroll, HandlerFacts
<1>6. ASSUME NEW n \in Nodes,
             \/ Boot(n) \/ DaemonStops(n) \/ WriteKey(n) \/ handleEnrollRenew(n) \/ Register(n)
             \/ Ping(n) \/ handleEnrollImport(n) \/ handleCreateNode(n)
      PROVE HandlerFacts'
  BY <1>1, <1>6 DEF Boot, DaemonStops, WriteKey, handleEnrollRenew, Register, Ping,
     handleEnrollImport, handleCreateNode
<1>7. ASSUME NEW r \in Ids, \/ Stale(r) \/ handleRevokeNodeCredential(r) \/ handleDeleteNode(r)
                            \/ \E name : handleUpdateNode(r, name)
      PROVE HandlerFacts'
  BY <1>1, <1>7 DEF Stale, handleRevokeNodeCredential, handleDeleteNode, handleUpdateNode
<1>8. ASSUME NEW t \in Tokens, NEW n, TokenExpires(t) \/ handleIssueJoinToken(t, n) PROVE HandlerFacts'
  BY <1>1, <1>8 DEF TokenExpires, handleIssueJoinToken
<1>9. CASE UNCHANGED vars
  BY <1>1, <1>9 DEF vars
<1> QED
  BY <1>4, <1>5, <1>6, <1>7, <1>8, <1>9 DEF Next, NodeStep, PanelStep, AdminStep

-----------------------------------------------------------------------------
(* Tokens *)

LEMMA TokensPreserved == IInv /\ [Next]_vars => TokenFacts' /\ OneCertificatePerToken'
<1> SUFFICES ASSUME IInv, [Next]_vars PROVE TokenFacts' /\ OneCertificatePerToken'
  OBVIOUS
<1> USE DEF IInv
<1>0. /\ DOMAIN hd = Handlers /\ DOMAIN token = Tokens /\ DOMAIN granted = Tokens
      /\ \A t \in Tokens : /\ token[t] \in [st : {"unborn", "valid", "used", "expired"},
                                            for : Nodes \cup {NoNode}]
                           /\ granted[t] \in Seq(Nodes)
  BY DEF TypeOK
<1>1. ASSUME UNCHANGED <<token, hd, granted>> PROVE TokenFacts' /\ OneCertificatePerToken'
  BY <1>1 DEF TokenFacts, OneCertificatePerToken, Recording
\* A token that is not yet used has no certificate and no request records one.
<1>2. ASSUME NEW t \in Tokens, token[t].st # "used", UNCHANGED <<hd, granted>>,
             NEW v, token' = [token EXCEPT ![t] = v]
      PROVE  TokenFacts' /\ OneCertificatePerToken'
  <2>1. granted[t] = <<>> /\ Len(granted[t]) = 0 /\ \A h \in Handlers : ~Recording(h, t)
    BY <1>2, EmptySeq DEF TokenFacts
  <2>2. TokenFacts'
    BY <1>0, <1>2, <2>1 DEF TokenFacts, Recording
  <2>3. OneCertificatePerToken'
    BY <1>0, <1>2, <2>1 DEF OneCertificatePerToken
  <2> QED
    BY <2>2, <2>3
\* A request that ends or has not begun leaves fewer of them recording.
<1>3. ASSUME NEW h \in Handlers, NEW v, v.pc # "record", hd' = [hd EXCEPT ![h] = v],
             UNCHANGED <<token, granted>>
      PROVE  TokenFacts' /\ OneCertificatePerToken'
  BY <1>0, <1>3 DEF TokenFacts, OneCertificatePerToken, Recording
<1>4. ASSUME NEW h \in Handlers, Consume(h) PROVE TokenFacts' /\ OneCertificatePerToken'
  <2> DEFINE t == hd[h].tok
  <2>1. t \in Tokens /\ hd[h].pc = "consume"
    BY <1>4 DEF Consume, HandlerFacts
  <2>2. CASE Done(h) /\ UNCHANGED token
    BY <1>3, <1>4, <2>2 DEF Consume, Done, NoRequest
  <2>3. CASE /\ token[t].st = "valid" /\ token' = [token EXCEPT ![t].st = "used"]
             /\ Goto(h, "record")
    <3>1. granted' = granted /\ granted[t] = <<>> /\ \A g \in Handlers : ~Recording(g, t)
      BY <1>4, <2>1, <2>3 DEF Consume, TokenFacts
    <3>2. \A g \in Handlers : hd'[g] = IF g = h THEN [hd[h] EXCEPT !.pc = "record"] ELSE hd[g]
      BY <1>0, <2>3 DEF Goto
    <3>3. hd'[h].tok = t
      <4>1. hd[h] \in [pc : {"idle", "consume", "record", "upsert"}, tok : Tokens \cup {None},
                       node : Exchanged \cup {NoNode}, name : Nodes \cup Aliases \cup {NoNode}]
        BY DEF TypeOK
      <4> QED
        BY <3>2, <4>1
    <3>4. ASSUME NEW u \in Tokens, NEW g \in Handlers, Recording(g, u)'
          PROVE  IF g = h THEN u = t ELSE Recording(g, u) /\ u # t
      BY <3>1, <3>2, <3>3, <3>4 DEF Recording
    <3>5. \A u \in Tokens : token'[u].st = IF u = t THEN "used" ELSE token[u].st
      BY <1>0, <2>1, <2>3
    <3>6. \A u \in Tokens : token'[u].for = token[u].for
      BY <1>0, <2>1, <2>3
    <3>7. \A u \in Tokens : granted'[u] # <<>> => token'[u].st = "used"
      BY <3>1, <3>5 DEF TokenFacts
    <3>8. \A u \in Tokens, g \in Handlers : Recording(g, u)' => token'[u].st = "used" /\ granted'[u] = <<>>
      BY <2>1, <3>1, <3>4, <3>5 DEF TokenFacts
    <3>9. \A u \in Tokens : \A g, k \in Handlers : Recording(g, u)' /\ Recording(k, u)' => g = k
      BY <3>1, <3>4 DEF TokenFacts
    <3>10. TokenFacts'
      BY <3>7, <3>8, <3>9 DEF TokenFacts
    <3>11. OneCertificatePerToken'
      BY <3>1, <3>6 DEF OneCertificatePerToken
    <3> QED
      BY <3>10, <3>11
  <2> QED
    BY <1>4, <2>2, <2>3 DEF Consume
<1>5. ASSUME NEW h \in Handlers, Record(h) PROVE TokenFacts' /\ OneCertificatePerToken'
  <2> DEFINE t == hd[h].tok
             n == hd[h].node
  <2>1. t \in Tokens /\ n \in Nodes /\ hd[h].pc = "record"
    BY <1>5, EnrollmentAssumption DEF Record, HandlerFacts
  <2>2. CASE Done(h) /\ UNCHANGED <<enr, granted>>
    BY <1>3, <1>5, <2>2 DEF Record, Done, NoRequest
  <2>3. CASE /\ token[t].for \in {NoNode, n}
             /\ granted' = [granted EXCEPT ![t] = Append(@, n)]
             /\ Goto(h, "upsert")
    <3>1. token' = token /\ granted[t] = <<>> /\ token[t].st = "used"
      BY <1>5, <2>1 DEF Record, TokenFacts, Recording
    <3>2. \A g \in Handlers : hd'[g] = IF g = h THEN [hd[h] EXCEPT !.pc = "upsert"] ELSE hd[g]
      BY <1>0, <2>3 DEF Goto
    <3>3. hd'[h].pc = "upsert"
      <4>1. hd[h] \in [pc : {"idle", "consume", "record", "upsert"}, tok : Tokens \cup {None},
                       node : Exchanged \cup {NoNode}, name : Nodes \cup Aliases \cup {NoNode}]
        BY DEF TypeOK
      <4> QED
        BY <3>2, <4>1
    <3>4. \A g \in Handlers, u \in Tokens : Recording(g, u)' => g # h /\ Recording(g, u) /\ u # t
      BY <2>1, <3>2, <3>3 DEF Recording, TokenFacts
    <3>5. \A u \in Tokens : granted'[u] = IF u = t THEN Append(<<>>, n) ELSE granted[u]
      BY <1>0, <2>1, <2>3, <3>1
    <3>6. Len(Append(<<>>, n)) = 1 /\ Append(<<>>, n)[1] = n
      OBVIOUS
    <3>7. TokenFacts'
      <4>1. \A u \in Tokens : granted'[u] # <<>> => token'[u].st = "used"
        BY <3>1, <3>5 DEF TokenFacts
      <4>2. \A u \in Tokens, g \in Handlers : Recording(g, u)' => token'[u].st = "used" /\ granted'[u] = <<>>
        BY <3>1, <3>4, <3>5 DEF TokenFacts
      <4>3. \A u \in Tokens : \A g, k \in Handlers : Recording(g, u)' /\ Recording(k, u)' => g = k
        BY <3>4 DEF TokenFacts
      <4> QED
        BY <4>1, <4>2, <4>3 DEF TokenFacts
    <3>8. OneCertificatePerToken'
      <4> SUFFICES ASSUME NEW u \in Tokens
                   PROVE  /\ Len(granted'[u]) <= 1
                          /\ token'[u].for # NoNode =>
                               \A i \in 1..Len(granted'[u]) : granted'[u][i] = token'[u].for
        BY DEF OneCertificatePerToken
      <4>1. CASE u = t
        <5>1. granted'[u] = Append(<<>>, n) /\ token'[u].for \in {NoNode, n}
          BY <2>3, <3>1, <3>5, <4>1
        <5> QED
          BY <3>6, <5>1
      <4>2. CASE u # t
        <5>1. granted'[u] = granted[u] /\ token'[u] = token[u]
          BY <3>1, <3>5, <4>2
        <5> QED
          BY <5>1 DEF OneCertificatePerToken
      <4> QED
        BY <4>1, <4>2
    <3> QED
      BY <3>7, <3>8
  <2> QED
    BY <1>5, <2>2, <2>3 DEF Record
<1>6. ASSUME NEW h \in Handlers, Upsert(h) PROVE TokenFacts' /\ OneCertificatePerToken'
  BY <1>3, <1>6 DEF Upsert, Done, NoRequest
<1>7. ASSUME NEW n \in Nodes, NEW t \in Tokens, NEW name, NEW h \in Handlers, Enroll(n, t, name, h)
      PROVE TokenFacts' /\ OneCertificatePerToken'
  BY <1>3, <1>7 DEF Enroll
<1>8. ASSUME NEW t \in Tokens, NEW n, TokenExpires(t) \/ handleIssueJoinToken(t, n)
      PROVE TokenFacts' /\ OneCertificatePerToken'
  <2>1. CASE TokenExpires(t)
    <3>1. token[t].st = "valid" /\ token' = [token EXCEPT ![t] = [token[t] EXCEPT !.st = "expired"]]
      BY <2>1 DEF TokenExpires
    <3> QED
      BY <1>2, <2>1, <3>1 DEF TokenExpires
  <2>2. CASE handleIssueJoinToken(t, n)
    BY <1>2, <2>2 DEF handleIssueJoinToken
  <2> QED
    BY <1>8, <2>1, <2>2
<1>9. ASSUME NEW n \in Nodes,
             \/ Boot(n) \/ DaemonStops(n) \/ WriteKey(n) \/ handleEnrollRenew(n) \/ Register(n)
             \/ Ping(n) \/ handleEnrollImport(n) \/ handleCreateNode(n)
      PROVE TokenFacts' /\ OneCertificatePerToken'
  BY <1>1, <1>9 DEF Boot, DaemonStops, WriteKey, handleEnrollRenew, Register, Ping,
     handleEnrollImport, handleCreateNode
<1>10. ASSUME NEW r \in Ids, \/ Stale(r) \/ handleRevokeNodeCredential(r) \/ handleDeleteNode(r)
                             \/ \E name : handleUpdateNode(r, name)
       PROVE TokenFacts' /\ OneCertificatePerToken'
  BY <1>1, <1>10 DEF Stale, handleRevokeNodeCredential, handleDeleteNode, handleUpdateNode
<1>11. CASE UNCHANGED vars
  BY <1>1, <1>11 DEF vars
<1> QED
  BY <1>4, <1>5, <1>6, <1>7, <1>8, <1>9, <1>10, <1>11 DEF Next, NodeStep, PanelStep, AdminStep

-----------------------------------------------------------------------------
(* Revocation *)

\* A heartbeat of an exchanged node is judged by the enrollments of that node itself.
LEMMA OwnEnrollmentsDecide ==
  ASSUME RowsFacts, NEW n \in Exchanged, PingAccepts(n)
  PROVE  "revoked" \notin enr[n]
<1>1. Named(n) # {} /\ (UidNamed(n) # NoNode => "revoked" \notin enr[UidNamed(n)])
  BY DEF PingAccepts, nodeRevoked
<1>2. First(Named(n)) \in Ids /\ rows[First(Named(n))].name = n
  BY <1>1, FoundRows DEF Named
<1>3. UidNamed(n) = n
  BY <1>1, <1>2, EnrollmentAssumption DEF UidNamed, RowsFacts, OwnName
<1> QED
  BY <1>1, <1>3, EnrollmentAssumption

LEMMA RevocationPreserved == IInv /\ [Next]_vars => RevokedIsRefused'
<1> SUFFICES ASSUME IInv, [Next]_vars PROVE RevokedIsRefused'
  OBVIOUS
<1> USE DEF IInv
<1>0. /\ Exchanged \subseteq Nodes /\ DOMAIN enr = Nodes /\ DOMAIN heard = Exchanged
  BY EnrollmentAssumption DEF TypeOK
\* Enrolling once more revokes nothing.
<1>1. ASSUME UNCHANGED heard, \A n \in Nodes : "revoked" \in enr'[n] => "revoked" \in enr[n]
      PROVE  RevokedIsRefused'
  BY <1>0, <1>1 DEF RevokedIsRefused
<1>2. ASSUME NEW n \in Nodes, UNCHANGED heard, enr' = [enr EXCEPT ![n] = @ \cup {"valid"}]
      PROVE  RevokedIsRefused'
  <2>1. \A m \in Nodes : enr'[m] = IF m = n THEN enr[m] \cup {"valid"} ELSE enr[m]
    BY <1>0, <1>2
  <2> QED
    BY <1>1, <1>2, <2>1
<1>3. ASSUME NEW n \in Nodes, Ping(n) PROVE RevokedIsRefused'
  <2>1. UNCHANGED enr
    BY <1>3 DEF Ping
  <2>2. CASE PingAccepts(n)
    <3>1. heard' = [e \in Exchanged |-> e = n \/ heard[e]]
      BY <1>3, <2>2 DEF Ping
    <3>2. n \in Exchanged => "revoked" \notin enr[n]
      BY <2>2, OwnEnrollmentsDecide
    <3>3. \A e \in Exchanged : heard'[e] => e = n \/ heard[e]
      BY <3>1
    <3> QED
      BY <2>1, <3>2, <3>3 DEF RevokedIsRefused
  <2>3. CASE ~PingAccepts(n)
    <3>1. heard' = [e \in Exchanged |-> e # n /\ heard[e]]
      BY <1>3, <2>3 DEF Ping
    <3>2. \A e \in Exchanged : heard'[e] => heard[e]
      BY <3>1
    <3> QED
      BY <2>1, <3>2 DEF RevokedIsRefused
  <2> QED
    BY <2>2, <2>3
<1>4. ASSUME NEW r \in Ids, handleRevokeNodeCredential(r) PROVE RevokedIsRefused'
  <2>1. /\ enr' = [n \in Nodes |-> IF n = rows[r].uid /\ enr[n] # {} THEN {"revoked"} ELSE enr[n]]
        /\ heard' = [n \in Exchanged |-> n # rows[r].uid /\ heard[n]]
    BY <1>4 DEF handleRevokeNodeCredential
  <2>2. \A n \in Exchanged : heard'[n] => n # rows[r].uid /\ heard[n]
    BY <2>1
  <2>3. \A n \in Exchanged : n # rows[r].uid => enr'[n] = enr[n]
    BY <1>0, <2>1
  <2> QED
    BY <2>2, <2>3 DEF RevokedIsRefused
<1>5. ASSUME NEW h \in Handlers, Consume(h) \/ Upsert(h) PROVE RevokedIsRefused'
  BY <1>1, <1>5 DEF Consume, Upsert
<1>6. ASSUME NEW h \in Handlers, Record(h) PROVE RevokedIsRefused'
  <2>1. hd[h].node \in Nodes
    BY <1>0, <1>6 DEF Record, HandlerFacts
  <2> QED
    BY <1>1, <1>2, <1>6, <2>1 DEF Record
<1>7. ASSUME NEW n \in Nodes, handleEnrollImport(n) \/ handleEnrollRenew(n) PROVE RevokedIsRefused'
  BY <1>2, <1>7 DEF handleEnrollImport, handleEnrollRenew
<1>8. ASSUME NEW n \in Nodes, Boot(n) \/ DaemonStops(n) \/ WriteKey(n) \/ Register(n) \/ handleCreateNode(n)
      PROVE RevokedIsRefused'
  BY <1>1, <1>8 DEF Boot, DaemonStops, WriteKey, Register, handleCreateNode
<1>9. ASSUME NEW r \in Ids, Stale(r) \/ handleDeleteNode(r) \/ \E name : handleUpdateNode(r, name)
      PROVE RevokedIsRefused'
  BY <1>1, <1>9 DEF Stale, handleDeleteNode, handleUpdateNode
<1>10. ASSUME NEW n \in Nodes, NEW t \in Tokens, NEW name, NEW h \in Handlers, Enroll(n, t, name, h)
       PROVE RevokedIsRefused'
  BY <1>1, <1>10 DEF Enroll
<1>11. ASSUME NEW t \in Tokens, NEW n, TokenExpires(t) \/ handleIssueJoinToken(t, n)
       PROVE RevokedIsRefused'
  BY <1>1, <1>11 DEF TokenExpires, handleIssueJoinToken
<1>12. CASE UNCHANGED vars
  BY <1>1, <1>12 DEF vars
<1> QED
  BY <1>3, <1>4, <1>5, <1>6, <1>7, <1>8, <1>9, <1>10, <1>11, <1>12
  DEF Next, NodeStep, PanelStep, AdminStep


-----------------------------------------------------------------------------
(* Types *)

LEMMA TypePreserved == IInv /\ [Next]_vars => TypeOK'
<1> SUFFICES ASSUME IInv, [Next]_vars PROVE TypeOK'
  OBVIOUS
<1> DEFINE Node == Nodes \cup {NoNode}
           TokenT == [st : {"unborn", "valid", "used", "expired"}, for : Node]
           Request == [pc : {"idle", "consume", "record", "upsert"},
                       tok : Tokens \cup {None}, node : Exchanged \cup {NoNode},
                       name : Nodes \cup Aliases \cup {NoNode}]
           Cred == [cn : {None} \cup Nodes \cup Aliases, whole : BOOLEAN]
           Daemon == [pc : {"down", "registering", "beating", "slow"},
                      cn : {None} \cup Nodes \cup Aliases]
\* The types of the rows are RowsPreserved's; the others are taken one at a time.
<1>1. /\ rows' \in Seq([name : AllNames \cup {NoNode}, uid : Nodes \cup {NoNode}, fresh : BOOLEAN])
      /\ Len(rows') <= MaxRows
  BY RowsPreserved DEF RowsFacts, RowType
<1>2. /\ strict \in BOOLEAN /\ token \in [Tokens -> TokenT] /\ hd \in [Handlers -> Request]
      /\ enr \in [Nodes -> SUBSET {"valid", "revoked"}] /\ creds \in [Nodes -> Cred]
      /\ nd \in [Nodes -> Daemon] /\ heard \in [Exchanged -> BOOLEAN]
      /\ granted \in [Tokens -> Seq(Nodes)] /\ admin \in 0..MaxAdmin /\ MaxAdmin \in Nat
      /\ Exchanged \subseteq Nodes /\ HandlerFacts
  BY EnrollmentAssumption DEF IInv, TypeOK
<1> DEFINE Rest == /\ strict' \in BOOLEAN /\ token' \in [Tokens -> TokenT]
                   /\ hd' \in [Handlers -> Request]
                   /\ enr' \in [Nodes -> SUBSET {"valid", "revoked"}]
                   /\ creds' \in [Nodes -> Cred] /\ nd' \in [Nodes -> Daemon]
                   /\ heard' \in [Exchanged -> BOOLEAN]
                   /\ granted' \in [Tokens -> Seq(Nodes)] /\ admin' \in 0..MaxAdmin
<1>3. SUFFICES Rest
  BY <1>1 DEF TypeOK
<1> HIDE DEF TokenT, Request, Cred, Daemon
<1>4. /\ NoRequest \in Request
      /\ \A q \in Request, pc \in {"upsert", "record"} : [q EXCEPT !.pc = pc] \in Request
      /\ \A q \in TokenT, st \in {"used", "expired"} : [q EXCEPT !.st = st] \in TokenT
      /\ \A q \in Daemon, pc \in {"beating", "slow"} : [q EXCEPT !.pc = pc] \in Daemon
      /\ [pc |-> "down", cn |-> None] \in Daemon
      /\ \A q \in Cred : [q EXCEPT !.whole = TRUE] \in Cred
  BY DEF NoRequest, Request, TokenT, Daemon, Cred
<1>5. ASSUME NEW h \in Handlers, Consume(h) PROVE Rest
  <2>1. /\ hd' \in [Handlers -> Request] /\ token' \in [Tokens -> TokenT]
    <3>1. CASE Done(h) /\ UNCHANGED token
      BY <1>2, <1>4, <3>1 DEF Done
    <3>2. CASE token' = [token EXCEPT ![hd[h].tok].st = "used"] /\ Goto(h, "record")
      <4>1. hd' = [hd EXCEPT ![h] = [hd[h] EXCEPT !.pc = "record"]]
        BY <3>2 DEF Goto
      <4>2. token' = [token EXCEPT ![hd[h].tok] = [token[hd[h].tok] EXCEPT !.st = "used"]]
        BY <3>2
      <4>3. hd[h].tok \in Tokens
        BY <1>2, <1>5 DEF Consume, HandlerFacts
      <4> QED
        BY <1>2, <1>4, <4>1, <4>2, <4>3
    <3> QED
      BY <1>5, <3>1, <3>2 DEF Consume
  <2> QED
    BY <1>2, <1>5, <2>1 DEF Consume
<1>6. ASSUME NEW h \in Handlers, Record(h) PROVE Rest
  <2>1. hd[h].node \in Nodes /\ hd[h].tok \in Tokens
    BY <1>2, <1>6 DEF Record, HandlerFacts
  <2>2. /\ hd' \in [Handlers -> Request] /\ granted' \in [Tokens -> Seq(Nodes)]
        /\ enr' \in [Nodes -> SUBSET {"valid", "revoked"}]
    <3>1. CASE Done(h) /\ UNCHANGED <<enr, granted>>
      BY <1>2, <1>4, <3>1 DEF Done
    <3>2. CASE /\ enr' = [enr EXCEPT ![hd[h].node] = @ \cup {"valid"}]
               /\ granted' = [granted EXCEPT ![hd[h].tok] = Append(@, hd[h].node)]
               /\ Goto(h, "upsert")
      <4>1. hd' = [hd EXCEPT ![h] = [hd[h] EXCEPT !.pc = "upsert"]]
        BY <3>2 DEF Goto
      <4>2. granted[hd[h].tok] \in Seq(Nodes)
        BY <1>2, <2>1
      <4>3. Append(granted[hd[h].tok], hd[h].node) \in Seq(Nodes)
        BY <2>1, <4>2, AppendProperties
      <4>4. granted' \in [Tokens -> Seq(Nodes)]
        BY <1>2, <3>2, <4>3
      <4>5. enr' \in [Nodes -> SUBSET {"valid", "revoked"}]
        BY <1>2, <3>2, <2>1
      <4> QED
        BY <1>2, <1>4, <4>1, <4>4, <4>5
    <3> QED
      BY <1>6, <3>1, <3>2 DEF Record
  <2> QED
    BY <1>2, <1>6, <2>2 DEF Record
<1>7. ASSUME NEW h \in Handlers, Upsert(h) PROVE Rest
  <2>1. hd[h].node \in Nodes /\ hd[h].name \in Nodes \cup Aliases
    BY <1>2, <1>7 DEF Upsert, HandlerFacts
  <2>2. [cn |-> hd[h].name, whole |-> FALSE] \in Cred
    BY <2>1 DEF Cred
  <2>3. creds' \in [Nodes -> Cred]
    BY <1>2, <1>7, <2>2 DEF Upsert
  <2> QED
    BY <1>2, <1>4, <1>7, <2>3 DEF Upsert, Done
<1>8. ASSUME NEW n \in Nodes, handleEnrollImport(n) PROVE Rest
  <2>1. [cn |-> n, whole |-> TRUE] \in Cred
    BY DEF Cred
  <2>2. creds' \in [Nodes -> Cred]
    BY <1>2, <1>8, <2>1 DEF handleEnrollImport
  <2>3. admin' \in 0..MaxAdmin
    BY <1>2, <1>8 DEF handleEnrollImport
  <2>4. enr' \in [Nodes -> SUBSET {"valid", "revoked"}]
    BY <1>2, <1>8 DEF handleEnrollImport
  <2> QED
    BY <1>2, <1>8, <2>2, <2>3, <2>4 DEF handleEnrollImport
<1>9. ASSUME NEW n \in Nodes, handleEnrollRenew(n) PROVE Rest
  BY <1>2, <1>9 DEF handleEnrollRenew
<1>10. ASSUME NEW n \in Nodes, handleCreateNode(n) PROVE Rest
  BY <1>2, <1>10 DEF handleCreateNode
<1>11. ASSUME NEW n \in Nodes, Boot(n) PROVE Rest
  <2>1. creds[n].cn \in {None} \cup Nodes \cup Aliases
    BY <1>2 DEF Cred
  <2>2. [pc |-> "registering", cn |-> creds[n].cn] \in Daemon
    BY <2>1 DEF Daemon
  <2> QED
    BY <1>2, <1>11, <2>2 DEF Boot
<1>12. ASSUME NEW n \in Nodes, Register(n) PROVE Rest
  <2>1. \/ nd' = [nd EXCEPT ![n] = [nd[n] EXCEPT !.pc = "beating"]]
        \/ nd' = nd
        \/ nd' = [nd EXCEPT ![n] = [pc |-> "down", cn |-> None]]
    BY <1>12 DEF Register
  <2>2. nd' \in [Nodes -> Daemon]
    <3>1. /\ [nd[n] EXCEPT !.pc = "beating"] \in Daemon /\ [nd[n] EXCEPT !.pc = "slow"] \in Daemon
          /\ [pc |-> "down", cn |-> None] \in Daemon
      BY <1>2, <1>4
    <3> QED
      BY <1>2, <2>1, <3>1
  <2> QED
    BY <1>2, <1>12, <2>2 DEF Register
<1>13. ASSUME NEW n \in Nodes, Ping(n) PROVE Rest
  <2>1. nd' = nd \/ nd' = [nd EXCEPT ![n] = [nd[n] EXCEPT !.pc = "slow"]]
    BY <1>13 DEF Ping
  <2>2. nd' \in [Nodes -> Daemon]
    <3>1. /\ [nd[n] EXCEPT !.pc = "beating"] \in Daemon /\ [nd[n] EXCEPT !.pc = "slow"] \in Daemon
          /\ [pc |-> "down", cn |-> None] \in Daemon
      BY <1>2, <1>4
    <3> QED
      BY <1>2, <2>1, <3>1
  <2>3. \/ heard' = [e \in Exchanged |-> e = n \/ heard[e]]
        \/ heard' = [e \in Exchanged |-> e # n /\ heard[e]]
    BY <1>13 DEF Ping
  <2>4. heard' \in [Exchanged -> BOOLEAN]
    BY <2>3
  <2> QED
    BY <1>2, <1>13, <2>2, <2>4 DEF Ping
<1>14. ASSUME NEW n \in Nodes, DaemonStops(n) \/ WriteKey(n) PROVE Rest
  <2>1. CASE DaemonStops(n)
    BY <1>2, <1>4, <2>1 DEF DaemonStops
  <2>2. CASE WriteKey(n)
    <3>1. creds' = [creds EXCEPT ![n] = [creds[n] EXCEPT !.whole = TRUE]]
      BY <2>2 DEF WriteKey
    <3> QED
      BY <1>2, <1>4, <2>2, <3>1 DEF WriteKey
  <2> QED
    BY <1>14, <2>1, <2>2
<1>15. ASSUME NEW n \in Nodes, NEW t \in Tokens, NEW name \in Nodes \cup Aliases,
              NEW h \in Handlers, Enroll(n, t, name, h)
       PROVE Rest
  <2>1. [pc |-> "consume", tok |-> t, node |-> n, name |-> name] \in Request
    BY <1>15 DEF Request, Enroll
  <2> QED
    BY <1>2, <1>15, <2>1 DEF Enroll
<1>16. ASSUME NEW t \in Tokens, TokenExpires(t) PROVE Rest
  <2>1. token' = [token EXCEPT ![t] = [token[t] EXCEPT !.st = "expired"]]
    BY <1>16 DEF TokenExpires
  <2>2. [token[t] EXCEPT !.st = "expired"] \in TokenT
    BY <1>2, <1>4
  <2>3. token' \in [Tokens -> TokenT]
    BY <1>2, <2>1, <2>2
  <2> QED
    BY <1>2, <1>16, <2>3 DEF TokenExpires
<1>17. ASSUME NEW t \in Tokens, NEW n \in Nodes \cup {NoNode}, handleIssueJoinToken(t, n) PROVE Rest
  <2>1. [st |-> "valid", for |-> n] \in TokenT
    BY DEF TokenT
  <2> QED
    BY <1>2, <1>17, <2>1 DEF handleIssueJoinToken
<1>18. ASSUME NEW r \in Ids, Stale(r) PROVE Rest
  BY <1>2, <1>18 DEF Stale
<1>19. ASSUME NEW r \in Ids, handleRevokeNodeCredential(r) PROVE Rest
  <2>1. heard' = [n \in Exchanged |-> n # rows[r].uid /\ heard[n]]
    BY <1>19 DEF handleRevokeNodeCredential
  <2>2. heard' \in [Exchanged -> BOOLEAN]
    BY <2>1
  <2>3. enr' = [n \in Nodes |-> IF n = rows[r].uid /\ enr[n] # {} THEN {"revoked"} ELSE enr[n]]
    BY <1>19 DEF handleRevokeNodeCredential
  <2>4. enr' \in [Nodes -> SUBSET {"valid", "revoked"}]
    BY <1>2, <2>3
  <2>5. admin' \in 0..MaxAdmin
    BY <1>2, <1>19 DEF handleRevokeNodeCredential, Admin
  <2> QED
    BY <1>2, <1>19, <2>2, <2>4, <2>5 DEF handleRevokeNodeCredential
<1>20. ASSUME NEW r \in Ids, handleDeleteNode(r) \/ \E name : handleUpdateNode(r, name) PROVE Rest
  BY <1>2, <1>20 DEF handleDeleteNode, handleUpdateNode, Admin
<1>21. CASE UNCHANGED vars
  BY <1>2, <1>21 DEF vars
<1> HIDE DEF Rest
<1> QED
  BY <1>5, <1>6, <1>7, <1>8, <1>9, <1>10, <1>11, <1>12, <1>13, <1>14, <1>15, <1>16, <1>17,
     <1>18, <1>19, <1>20, <1>21
  DEF Next, NodeStep, PanelStep, AdminStep

-----------------------------------------------------------------------------
(* Theorems *)

LEMMA Inductive == Spec => []IInv
<1>1. IInv /\ [Next]_vars => IInv'
  <2> SUFFICES ASSUME IInv, [Next]_vars PROVE IInv'
    OBVIOUS
  <2>1. TypeOK' /\ RowsFacts' /\ HandlerFacts'
    BY TypePreserved, RowsPreserved, HandlersPreserved
  <2>2. TokenFacts' /\ OneCertificatePerToken' /\ RevokedIsRefused'
    BY TokensPreserved, RevocationPreserved
  <2> QED
    BY <2>1, <2>2 DEF IInv
<1> QED
  BY <1>1, InitIInv, PTL DEF Spec

\* Every variable keeps its type, and the nodes table its bound.
THEOREM TypeCorrect == Spec => []TypeOK
<1>1. IInv => TypeOK
  BY DEF IInv
<1> QED
  BY <1>1, Inductive, PTL

\* However many requests race for a join token, one of them obtains a certificate, and
\* for the node the token is bound to (handleEnroll).
THEOREM OneCertificate == Spec => []OneCertificatePerToken
<1>1. IInv => OneCertificatePerToken
  BY DEF IInv
<1> QED
  BY <1>1, Inductive, PTL

\* No heartbeat of a node is accepted after its certificate was revoked, whatever
\* becomes of its row, its name and its daemon (nodeRevoked, Register).
THEOREM RevokedStaysOut == Spec => []RevokedIsRefused
<1>1. IInv => RevokedIsRefused
  BY DEF IInv
<1> QED
  BY <1>1, Inductive, PTL
=============================================================================
