------------------------- MODULE InstanceFilesProofs ---------------------------
(***************************************************************************)
(* Proofs about module InstanceFiles: its type invariant, that what an     *)
(* upload or a compress job puts under a name is whole, and that nothing   *)
(* is lost unasked, for any files, requests, numbers of parts and ends of  *)
(* the Daemon.                                                             *)
(***************************************************************************)
EXTENDS InstanceFiles, TLAPS

LEMMA NoOpTyped == NoOp \in OpType
BY ConstantsAssumption DEF NoOp, OpType, Kinds, Single, Jobs, Steps, Ids

-----------------------------------------------------------------------------
(* What a step of one request does to the table of requests *)

\* A step of request o changes its own place in the table only: it goes on as
\* the same request, or is over.
GoesOn(o) ==
  /\ Active(o)
  /\ op' \in [Slots -> OpType]
  /\ \A p \in Slots \ {o} : op'[p] = op[p]
  /\ \/ op'[o] = NoOp
     \/ /\ op'[o].pc # "idle"
        /\ op'[o].kind = op[o].kind /\ op'[o].id = op[o].id
        /\ op'[o].from = op[o].from /\ op'[o].to = op[o].to
        /\ op'[o].over = op[o].over /\ op'[o].alone = op[o].alone

LEMMA EndsGoesOn ==
  ASSUME TypeOK, NEW o \in Slots, Active(o), Ends(o)
  PROVE  GoesOn(o) /\ op'[o] = NoOp
BY NoOpTyped DEF TypeOK, Ends, GoesOn, NoOp

LEMMA GoGoesOn ==
  ASSUME TypeOK, NEW o \in Slots, Active(o), NEW pc \in Steps, pc # "idle", Go(o, pc)
  PROVE  /\ GoesOn(o)
         /\ op'[o].pc = pc /\ op'[o].kind = op[o].kind
         /\ op'[o].id = op[o].id /\ op'[o].ino = op[o].ino
         /\ op'[o].src = op[o].src /\ op'[o].ver = op[o].ver
<1>1. op[o] \in OpType /\ op' = [op EXCEPT ![o] = [op[o] EXCEPT !.pc = pc]]
  BY DEF TypeOK, Go
<1>2. [op[o] EXCEPT !.pc = pc] \in OpType
  BY <1>1 DEF OpType
<1>3. op' \in [Slots -> OpType] /\ op'[o] = [op[o] EXCEPT !.pc = pc]
  BY <1>1, <1>2 DEF TypeOK
<1>4. /\ op'[o].pc = pc /\ op'[o].kind = op[o].kind
      /\ op'[o].id = op[o].id /\ op'[o].ino = op[o].ino
      /\ op'[o].from = op[o].from /\ op'[o].to = op[o].to
      /\ op'[o].over = op[o].over /\ op'[o].alone = op[o].alone
      /\ op'[o].src = op[o].src /\ op'[o].ver = op[o].ver
  BY <1>1, <1>3 DEF OpType
<1> QED BY <1>1, <1>3, <1>4 DEF TypeOK, GoesOn

\* The same where the step also says which file object the request writes.
LEMMA BeginGoesOn ==
  ASSUME TypeOK, NEW o \in Slots, Active(o), NEW pc \in Steps, pc # "idle",
         op' = [op EXCEPT ![o].pc = pc, ![o].ino = op[o].id]
  PROVE  GoesOn(o) /\ op'[o] = [op[o] EXCEPT !.pc = pc, !.ino = op[o].id]
<1>1. op[o] \in OpType /\ op[o].id \in Ids
  BY DEF TypeOK, OpType
<1>2. [op[o] EXCEPT !.pc = pc, !.ino = op[o].id] \in OpType
  BY <1>1 DEF OpType
<1>3. op' = [op EXCEPT ![o] = [op[o] EXCEPT !.pc = pc, !.ino = op[o].id]]
  BY <1>1 DEF TypeOK, OpType
<1> QED BY <1>1, <1>2, <1>3 DEF TypeOK, GoesOn, OpType

-----------------------------------------------------------------------------
(* What it must leave to the others *)

\* A name leads to what some name led to before, or to the request's own object.
EntriesKept(o) ==
  /\ dir' \in [Names -> Ids \cup {None}]
  /\ \A n \in Names : dir'[n] \in {None, op[o].id} \/ \E m \in Names : dir'[n] = dir[m]

\* It writes to its own object, to one in the directory, or adds to one that was
\* not complete.
ObjectsKept(o) ==
  /\ data' \in [Ids -> Content]
  /\ \A i \in Ids : \/ i = op[o].id
                    \/ \E n \in Names : dir[n] = i
                    \/ data'[i] = data[i]
                    \/ data[i].got # Size /\ data'[i].how = data[i].how

\* Its own object, as long as it runs.
HiddenOf(o) ==
  Active(o) /\ op[o].kind \in {"upload", "compress"} =>
    /\ \A n \in Names : dir[n] # op[o].id
    /\ op[o].pc \in {"recv", "write", "commit"} => op[o].ino = op[o].id
CompleteOf(o) ==
  /\ At(o, {"upload"}, "commit") => data[op[o].id].got = Size
  /\ At(o, {"compress"}, "commit") /\ data[op[o].id].how = "placed"
       => data[op[o].id].got = Size

LEMMA OthersKept ==
  ASSUME IInv, NEW o \in Slots, GoesOn(o), made' = made,
         EntriesKept(o), ObjectsKept(o), HiddenOf(o)', CompleteOf(o)'
  PROVE  OwnIds' /\ Hidden' /\ Complete'
<1> USE ConstantsAssumption
<1>1. \A p \in Slots : op[p].id \in Ids
  BY DEF IInv, TypeOK, OpType
<1>2. OwnIds'
  <2>1. \A n \in Names : dir'[n] # None => dir'[n] <= made
    BY DEF IInv, TypeOK, OwnIds, EntriesKept, GoesOn, Exists, Active
  <2>2. ASSUME NEW p \in Slots
        PROVE  IF op'[p].pc # "idle" THEN op'[p].id <= made /\ {op'[p].from, op'[p].to} \subseteq Names
                                     ELSE op'[p] = NoOp
    BY DEF IInv, OwnIds, GoesOn, Active, Named, NoOp
  <2>3. ASSUME NEW p \in Slots, NEW q \in Slots, op'[p].pc # "idle", op'[q].pc # "idle", p # q
        PROVE  op'[p].id # op'[q].id
    BY <2>3 DEF IInv, OwnIds, GoesOn, Active, NoOp
  <2> QED BY <2>1, <2>2, <2>3 DEF OwnIds, Exists, Active, Named
<1>3. ASSUME NEW p \in Slots, p # o PROVE HiddenOf(p)'
  <2>1. op'[p] = op[p]
    BY <1>3 DEF GoesOn
  <2>2. ASSUME Active(p), op[p].kind \in {"upload", "compress"}, NEW n \in Names
        PROVE  dir'[n] # op[p].id
    BY <1>1, <1>3, <2>2 DEF IInv, OwnIds, Hidden, EntriesKept, GoesOn, Ids
  <2> QED BY <2>1, <2>2 DEF HiddenOf, IInv, Hidden, Active
<1>4. ASSUME NEW p \in Slots, p # o PROVE CompleteOf(p)'
  <2>1. op'[p] = op[p]
    BY <1>4 DEF GoesOn
  <2>2. ASSUME Active(p), op[p].kind \in {"upload", "compress"}
        PROVE  \/ data'[op[p].id] = data[op[p].id]
               \/ data[op[p].id].got # Size /\ data'[op[p].id].how = data[op[p].id].how
    <3>1. op[p].id # op[o].id /\ \A n \in Names : dir[n] # op[p].id
      BY <1>4, <2>2 DEF IInv, OwnIds, Hidden, GoesOn
    <3> QED BY <1>1, <3>1 DEF ObjectsKept
  <2> QED BY <2>1, <2>2 DEF CompleteOf, At, Active, IInv, Complete
<1> QED BY <1>2, <1>3, <1>4 DEF Hidden, HiddenOf, Complete, CompleteOf

\* A step that changes neither the directory nor the contents.
LEMMA FilesUntouched ==
  ASSUME IInv, NEW o \in Slots, GoesOn(o), UNCHANGED <<dir, data>>, Counters,
         HiddenOf(o)', CompleteOf(o)'
  PROVE  IInv'
<1>1. EntriesKept(o) /\ ObjectsKept(o)
  BY DEF IInv, TypeOK, EntriesKept, ObjectsKept
<1>2. OwnIds' /\ Hidden' /\ Complete'
  BY <1>1, OthersKept DEF Counters
<1>3. TypeOK'
  BY DEF IInv, TypeOK, GoesOn, Counters
<1>4. ArrivesWhole'
  BY DEF IInv, ArrivesWhole, Exists
<1> QED BY <1>2, <1>3, <1>4 DEF IInv

-----------------------------------------------------------------------------
(* The steps of a request *)

\* The panel's side of an upload.
LEMMA PanelStep ==
  ASSUME IInv, NEW o \in Slots, PanelSends(o) \/ PanelCloses(o) \/ BrowserLeaves(o)
  PROVE  IInv'
<1>0. op[o].kind = "upload" /\ Active(o)
  BY DEF IInv, OwnIds, NoOp, PanelSends, PanelCloses, BrowserLeaves
<1>1. GoesOn(o) /\ op'[o].pc = op[o].pc /\ op'[o].ino = op[o].ino
  <2>1. CASE PanelSends(o)
    <3>1. op[o].sent + 1 \in 0..Size
      BY <2>1, ConstantsAssumption DEF PanelSends, IInv, TypeOK, OpType
    <3> QED BY <1>0, <2>1, <3>1 DEF PanelSends, GoesOn, IInv, TypeOK, OpType, Active
  <2>2. CASE PanelCloses(o)
    BY <1>0, <2>2 DEF PanelCloses, GoesOn, IInv, TypeOK, OpType, Active
  <2>3. CASE BrowserLeaves(o)
    BY <1>0, <2>3 DEF BrowserLeaves, GoesOn, IInv, TypeOK, OpType, Active
  <2> QED BY <2>1, <2>2, <2>3
<1>2. UNCHANGED <<dir, data>> /\ Counters
  BY DEF PanelSends, PanelCloses, BrowserLeaves
<1>3. op'[o].kind = op[o].kind /\ op'[o].id = op[o].id
  BY <1>0, <1>1 DEF GoesOn, NoOp, Active
<1>4. HiddenOf(o)' /\ CompleteOf(o)'
  BY <1>0, <1>1, <1>2, <1>3 DEF HiddenOf, CompleteOf, IInv, Hidden, Complete, At, Active
<1> QED BY <1>1, <1>2, <1>4, FilesUntouched

\* Requests that end, or go on to a step in which they write no object of theirs.
LEMMA IdleStep ==
  ASSUME IInv, NEW o \in Slots, Active(o), UNCHANGED <<dir, data>>, Counters,
         Ends(o) \/ (Go(o, op'[o].pc) /\ op'[o].pc \in {"open", "drop", "clear", "rename"}
                      /\ op[o].kind \notin {"upload", "compress"})
  PROVE  IInv'
<1>1. GoesOn(o)
  BY EndsGoesOn, GoGoesOn DEF IInv, Steps
<1>2. HiddenOf(o)' /\ CompleteOf(o)'
  BY <1>1, EndsGoesOn DEF IInv, HiddenOf, CompleteOf, GoesOn, NoOp, At, Active
<1> QED BY <1>1, <1>2, FilesUntouched

LEMMA ChecksStep ==
  ASSUME IInv, NEW o \in Slots,
         \/ Fails(o) \/ CopyChecks(o) \/ Filled(o)
         \/ MoveChecks(o) \/ RenameChecks(o) \/ MoveCrosses(o)
  PROVE  IInv'
<1>1. Active(o) /\ UNCHANGED <<dir, data>> /\ Counters
  BY DEF Fails, CopyChecks, Filled, MoveChecks, RenameChecks, MoveCrosses, At, Active
<1>2. ASSUME NEW pc \in {"open", "drop", "clear", "rename"}, Go(o, pc),
             op[o].kind \in {"copy", "move", "rename"}
      PROVE  IInv'
  <2>1. pc \in Steps /\ pc # "idle"
    BY DEF Steps
  <2>2. op'[o].pc = pc
    BY <1>1, <1>2, <2>1, GoGoesOn DEF IInv
  <2> QED BY <1>1, <1>2, <2>2, IdleStep
<1>3. CASE Ends(o)
  BY <1>1, <1>3, IdleStep
<1>4. CASE Fails(o)
  BY <1>3, <1>4 DEF Fails
<1>5. CASE CopyChecks(o) \/ MoveCrosses(o)
  BY <1>2, <1>5 DEF CopyChecks, MoveCrosses, At
<1>6. CASE MoveChecks(o) \/ RenameChecks(o)
  <2>1. op[o].kind \in {"move", "rename"} /\ (Go(o, "clear") \/ Go(o, "rename"))
    BY <1>6 DEF MoveChecks, RenameChecks, At
  <2> QED BY <1>2, <2>1
<1>7. CASE Filled(o)
  <2>1. (op[o].kind = "move" /\ Go(o, "drop")) \/ Ends(o)
    BY <1>7 DEF Filled
  <2> QED BY <1>2, <1>3, <2>1
<1> QED
  BY <1>4, <1>5, <1>6, <1>7

LEMMA BeginsStep ==
  ASSUME IInv, NEW o \in Slots, UploadBegins(o) \/ CompressBegins(o)
  PROVE  IInv'
<1>1. Active(o) /\ op[o].kind \in {"upload", "compress"} /\ op[o].pc = "begin"
  BY DEF UploadBegins, CompressBegins, At, Active
<1>2. /\ GoesOn(o) /\ op'[o].ino = op[o].id
      /\ op'[o].id = op[o].id /\ op'[o].pc \in {"recv", "write"}
  <2>1. PICK pc \in {"recv", "write"} : op' = [op EXCEPT ![o].pc = pc, ![o].ino = op[o].id]
    BY DEF UploadBegins, CompressBegins
  <2>2. op'[o] = [op[o] EXCEPT !.pc = pc, !.ino = op[o].id] /\ GoesOn(o)
    BY <1>1, <2>1, BeginGoesOn DEF IInv, Steps
  <2>3. op[o] \in OpType
    BY DEF IInv, TypeOK
  <2> QED BY <2>2, <2>3 DEF OpType
<1>3. dir' = dir /\ Counters
  BY DEF UploadBegins, CompressBegins
<1>4. /\ data' \in [Ids -> Content]
      /\ \A i \in Ids : i # op[o].id => data'[i] = data[i]
  <2>1. \A i \in Ids : data[i] \in Content /\ [data[i] EXCEPT !.got = 0] \in Content
    BY ConstantsAssumption DEF IInv, TypeOK, Content
  <2>2. data' = data \/ data' = [data EXCEPT ![op[o].id] = [data[op[o].id] EXCEPT !.got = 0]]
    BY DEF UploadBegins, CompressBegins, IInv, TypeOK
  <2>3. op[o].id \in Ids /\ data \in [Ids -> Content]
    BY DEF IInv, TypeOK, OpType
  <2> QED BY <2>1, <2>2, <2>3
<1>5. EntriesKept(o) /\ ObjectsKept(o)
  BY <1>3, <1>4 DEF IInv, TypeOK, EntriesKept, ObjectsKept
<1>6. HiddenOf(o)' /\ CompleteOf(o)'
  BY <1>1, <1>2, <1>3 DEF HiddenOf, CompleteOf, IInv, Hidden, At
<1>7. OwnIds' /\ Hidden' /\ Complete'
  BY <1>2, <1>3, <1>5, <1>6, OthersKept DEF Counters
<1>8. TypeOK'
  BY <1>2, <1>3, <1>4 DEF IInv, TypeOK, GoesOn, Counters
<1>9. ArrivesWhole'
  BY <1>1, <1>3, <1>4 DEF IInv, TypeOK, ArrivesWhole, Exists, Hidden
<1> QED BY <1>7, <1>8, <1>9 DEF IInv

\* An upload receives a chunk, or a compress job writes.
LEMMA PartStep ==
  ASSUME IInv, NEW o \in Slots, UploadReceives(o) \/ CompressWrites(o)
  PROVE  IInv'
<1> DEFINE i == op[o].id
<1>1. /\ Active(o) /\ op[o].kind \in {"upload", "compress"}
      /\ op[o].pc \in {"recv", "write"} /\ op[o].ino = i /\ i \in Ids
  BY DEF UploadReceives, CompressWrites, At, Active, IInv, Hidden, TypeOK, OpType
<1>2. data[i] \in Content /\ data[i].got < Size
  <2>1. op[o].sent \in 0..Size /\ data[i] \in Content
    BY <1>1 DEF IInv, TypeOK, OpType
  <2> QED BY <1>1, <2>1, ConstantsAssumption DEF UploadReceives, CompressWrites, Content
<1>3. /\ data' = [data EXCEPT ![i] = [data[i] EXCEPT !.got = data[i].got + 1]]
      /\ [data[i] EXCEPT !.got = data[i].got + 1] \in Content
  <2>1. data' = [data EXCEPT ![i] = [data[i] EXCEPT !.got = data[i].got + 1]]
    BY <1>1 DEF UploadReceives, CompressWrites, IInv, TypeOK
  <2>2. data[i].got + 1 \in 0..Size
    BY <1>2, ConstantsAssumption DEF Content
  <2> QED BY <1>2, <2>1, <2>2 DEF Content
<1>4. UNCHANGED <<dir, op>> /\ Counters
  BY DEF UploadReceives, CompressWrites
<1>5. GoesOn(o) /\ EntriesKept(o) /\ ObjectsKept(o)
  BY <1>1, <1>3, <1>4 DEF IInv, TypeOK, GoesOn, EntriesKept, ObjectsKept, Active
<1>6. HiddenOf(o)' /\ CompleteOf(o)'
  BY <1>1, <1>4 DEF HiddenOf, CompleteOf, IInv, Hidden, At, Active
<1>7. OwnIds' /\ Hidden' /\ Complete'
  BY <1>4, <1>5, <1>6, OthersKept DEF Counters
<1>8. TypeOK'
  BY <1>1, <1>3, <1>4 DEF IInv, TypeOK, Counters
<1>9. ArrivesWhole'
  BY <1>1, <1>3, <1>4 DEF IInv, TypeOK, ArrivesWhole, Exists, Hidden
<1> QED BY <1>7, <1>8, <1>9 DEF IInv

LEMMA UploadEndsStep ==
  ASSUME IInv, NEW o \in Slots, UploadEnds(o)
  PROVE  IInv'
<1>1. Active(o) /\ op[o].kind = "upload" /\ op[o].pc = "recv" /\ op[o].ino = op[o].id
  BY DEF UploadEnds, At, Active, IInv, Hidden
<1>2. UNCHANGED <<dir, data>> /\ Counters /\ data[op[o].id].got = Size
  BY <1>1 DEF UploadEnds
<1>3. GoesOn(o) /\ op'[o].id = op[o].id /\ op'[o].ino = op[o].ino /\ op'[o].kind = "upload"
  <2>1. "commit" \in Steps /\ Go(o, "commit")
    BY DEF UploadEnds, Steps
  <2> QED BY <1>1, <2>1, GoGoesOn DEF IInv
<1>4. HiddenOf(o)' /\ CompleteOf(o)'
  BY <1>1, <1>2, <1>3 DEF HiddenOf, CompleteOf, IInv, Hidden, At, Active
<1> QED BY <1>2, <1>3, <1>4, FilesUntouched

LEMMA CompressClosesStep ==
  ASSUME IInv, NEW o \in Slots, CompressCloses(o)
  PROVE  IInv'
<1> DEFINE i == op[o].id
<1>1. /\ Active(o) /\ op[o].kind = "compress" /\ op[o].pc = "write"
      /\ op[o].ino = i /\ i \in Ids /\ data[i] \in Content
  BY DEF CompressCloses, At, Active, IInv, Hidden, TypeOK, OpType
<1>2. /\ data' \in [Ids -> Content]
      /\ \A j \in Ids : j # i => data'[j] = data[j]
      /\ data'[i].how = "placed" => data'[i].got = Size
  <2>1. /\ [data[i] EXCEPT !.got = Size] \in Content
        /\ [data[i] EXCEPT !.how = "unclosed"] \in Content
    BY <1>1, ConstantsAssumption DEF Content
  <2>2. /\ [data[i] EXCEPT !.got = Size].got = Size
        /\ [data[i] EXCEPT !.how = "unclosed"].how = "unclosed"
    BY <1>1 DEF Content
  <2>3. \/ data' = [data EXCEPT ![i] = [data[i] EXCEPT !.got = Size]]
        \/ data' = [data EXCEPT ![i] = [data[i] EXCEPT !.how = "unclosed"]]
    BY <1>1 DEF CompressCloses, IInv, TypeOK
  <2>4. data \in [Ids -> Content]
    BY DEF IInv, TypeOK
  <2> QED BY <1>1, <2>1, <2>2, <2>3, <2>4
<1>3. dir' = dir /\ Counters
  BY DEF CompressCloses
<1>4. /\ GoesOn(o) /\ op'[o].id = i /\ op'[o].ino = i
      /\ op'[o].kind = "compress" /\ op'[o].pc = "commit"
  <2>1. "commit" \in Steps /\ Go(o, "commit")
    BY DEF CompressCloses, Steps
  <2> QED BY <1>1, <2>1, GoGoesOn DEF IInv
<1>5. EntriesKept(o) /\ ObjectsKept(o)
  BY <1>1, <1>2, <1>3 DEF IInv, TypeOK, EntriesKept, ObjectsKept
<1>6. HiddenOf(o)' /\ CompleteOf(o)'
  BY <1>1, <1>2, <1>3, <1>4 DEF HiddenOf, CompleteOf, IInv, TypeOK, Hidden, At
<1>7. OwnIds' /\ Hidden' /\ Complete'
  BY <1>3, <1>4, <1>5, <1>6, OthersKept DEF Counters
<1>8. TypeOK'
  BY <1>1, <1>2, <1>3, <1>4 DEF IInv, TypeOK, GoesOn, Counters
<1>9. ArrivesWhole'
  BY <1>1, <1>2, <1>3 DEF IInv, TypeOK, ArrivesWhole, Exists, Hidden
<1> QED BY <1>7, <1>8, <1>9 DEF IInv

\* The rename that gives an upload or an archive its name.
LEMMA CommitStep ==
  ASSUME IInv, NEW o \in Slots, UploadCommits(o) \/ CompressCommits(o)
  PROVE  IInv'
<1> DEFINE i == op[o].id
<1>1. /\ Active(o) /\ op[o].ino = i /\ i \in Ids /\ op[o].to \in Names
      /\ data[i].how = "placed" => data[i].got = Size
  BY DEF UploadCommits, CompressCommits, At, Active, IInv, OwnIds, Named, Hidden, Complete,
         TypeOK, OpType
<1>2. dir' = [dir EXCEPT ![op[o].to] = i] /\ data' = data /\ Counters
  BY <1>1 DEF UploadCommits, CompressCommits
<1>3. GoesOn(o) /\ op'[o] = NoOp
  BY <1>1, EndsGoesOn DEF UploadCommits, CompressCommits, IInv
<1>4. EntriesKept(o) /\ ObjectsKept(o)
  BY <1>1, <1>2 DEF IInv, TypeOK, EntriesKept, ObjectsKept
<1>5. HiddenOf(o)' /\ CompleteOf(o)'
  BY <1>3 DEF HiddenOf, CompleteOf, NoOp, At, Active
<1>6. OwnIds' /\ Hidden' /\ Complete'
  BY <1>2, <1>3, <1>4, <1>5, OthersKept DEF Counters
<1>7. TypeOK'
  BY <1>2, <1>3, <1>4 DEF IInv, TypeOK, GoesOn, EntriesKept, Counters
<1>8. ArrivesWhole'
  BY <1>1, <1>2 DEF IInv, TypeOK, ArrivesWhole, Exists
<1> QED BY <1>6, <1>7, <1>8 DEF IInv

\* Entries move or go; the objects stay as they are.
LEMMA EntryStep ==
  ASSUME IInv, NEW o \in Slots, MoveClears(o) \/ Renames(o) \/ MoveDrops(o) \/ Deletes(o)
  PROVE  IInv'
<1>1. /\ Active(o) /\ op[o].kind \notin {"upload", "compress"}
      /\ op[o].from \in Names /\ op[o].to \in Names
  BY DEF MoveClears, Renames, MoveDrops, Deletes, At, Active, IInv, OwnIds, Named
<1>2. /\ dir' \in [Names -> Ids \cup {None}]
      /\ \A n \in Names : dir'[n] = None \/ \E m \in Names : dir'[n] = dir[m]
  BY <1>1 DEF MoveClears, Renames, MoveDrops, Deletes, IInv, TypeOK
<1>3. data' = data /\ Counters
  BY DEF MoveClears, Renames, MoveDrops, Deletes
<1>4. GoesOn(o) /\ (op'[o].kind \notin {"upload", "compress"})
  <2>1. CASE Ends(o)
    <3>1. GoesOn(o) /\ op'[o] = NoOp
      BY <1>1, <2>1, EndsGoesOn DEF IInv
    <3> QED BY <3>1 DEF NoOp
  <2>2. CASE Go(o, "rename")
    BY <1>1, <2>2, GoGoesOn DEF IInv, Steps
  <2> QED BY <2>1, <2>2 DEF MoveClears, Renames, MoveDrops, Deletes
<1>5. EntriesKept(o) /\ ObjectsKept(o) /\ HiddenOf(o)' /\ CompleteOf(o)'
  BY <1>2, <1>3, <1>4 DEF IInv, TypeOK, EntriesKept, ObjectsKept, HiddenOf, CompleteOf, At
<1>6. OwnIds' /\ Hidden' /\ Complete'
  BY <1>3, <1>4, <1>5, OthersKept DEF Counters
<1>7. TypeOK'
  BY <1>2, <1>3, <1>4 DEF IInv, TypeOK, GoesOn, Counters
<1>8. ArrivesWhole'
  BY <1>2, <1>3 DEF IInv, ArrivesWhole, Exists
<1> QED BY <1>6, <1>7, <1>8 DEF IInv

\* A file opened to be written in place: what led to it, or the request's object.
LEMMA OpensStep ==
  ASSUME IInv, NEW o \in Slots, Opens(o)
  PROVE  IInv'
<1> DEFINE ino == IF Exists(op[o].to) THEN dir[op[o].to] ELSE op[o].id
           src == IF CopyOpens(o) THEN dir[op[o].from] ELSE None
           ver == IF src # None THEN data[src].of ELSE op[o].id
           c   == [of |-> ver, got |-> 0, how |-> "inplace"]
           r   == [op[o] EXCEPT !.pc = "fill", !.ino = ino, !.src = src, !.ver = ver]
<1>1. /\ Active(o) /\ op[o].kind \notin {"upload", "compress"}
      /\ op[o] \in OpType /\ op[o].id \in Ids
      /\ op[o].from \in Names /\ op[o].to \in Names
  BY DEF Opens, WriteOpens, ExtractOpens, CopyOpens, At, Active, IInv, OwnIds, Named,
         TypeOK, OpType
<1>2. ino \in Ids /\ src \in Ids \cup {None}
  BY <1>1 DEF IInv, TypeOK, Exists
<1>3. ver \in Ids
  BY <1>1, <1>2 DEF IInv, TypeOK, Content
<1>4. /\ dir' = [dir EXCEPT ![op[o].to] = ino] /\ data' = [data EXCEPT ![ino] = c]
      /\ op' = [op EXCEPT ![o].pc = "fill", ![o].ino = ino, ![o].src = src, ![o].ver = ver]
      /\ Counters
  BY DEF Opens
<1>5. ino = op[o].id \/ \E n \in Names : dir[n] = ino
  BY <1>1
<1> HIDE DEF ino, src, ver
<1>6. c \in Content /\ c.how = "inplace" /\ r \in OpType
  <2>1. c \in Content /\ c.how = "inplace"
    BY <1>3, ConstantsAssumption DEF Content
  <2>2. "fill" \in Steps
    BY DEF Steps
  <2>3. r \in OpType
    BY <1>1, <1>2, <1>3, <2>2 DEF OpType
  <2> QED BY <2>1, <2>3
<1>7. /\ r.pc = "fill" /\ r.kind = op[o].kind /\ r.id = op[o].id
      /\ r.from = op[o].from /\ r.to = op[o].to
      /\ r.over = op[o].over /\ r.alone = op[o].alone
  BY <1>1 DEF OpType
<1>8. op' = [op EXCEPT ![o] = r]
  BY <1>4 DEF IInv, TypeOK
<1> HIDE DEF c, r
<1>9. GoesOn(o) /\ op'[o].kind = op[o].kind
  BY <1>1, <1>6, <1>7, <1>8 DEF GoesOn, IInv, TypeOK
<1>10. EntriesKept(o) /\ ObjectsKept(o) /\ HiddenOf(o)' /\ CompleteOf(o)'
  <2>1. EntriesKept(o)
    BY <1>1, <1>2, <1>4, <1>5 DEF IInv, TypeOK, EntriesKept
  <2>2. ObjectsKept(o)
    BY <1>2, <1>4, <1>5, <1>6 DEF IInv, TypeOK, ObjectsKept
  <2>3. HiddenOf(o)' /\ CompleteOf(o)'
    BY <1>1, <1>9 DEF HiddenOf, CompleteOf, At
  <2> QED BY <2>1, <2>2, <2>3
<1>11. OwnIds' /\ Hidden' /\ Complete'
  BY <1>4, <1>9, <1>10, OthersKept DEF Counters
<1>12. TypeOK'
  BY <1>4, <1>9, <1>10 DEF IInv, TypeOK, GoesOn, EntriesKept, ObjectsKept, Counters
<1>13. ArrivesWhole'
  BY <1>1, <1>2, <1>4, <1>6 DEF IInv, TypeOK, ArrivesWhole, Exists
<1> QED BY <1>11, <1>12, <1>13 DEF IInv

\* A part written in place goes to an object that was not complete.
LEMMA FillsStep ==
  ASSUME IInv, NEW o \in Slots, Fills(o)
  PROVE  IInv'
<1> DEFINE i == op[o].ino
           ver == IF op[o].src = None \/ data[op[o].src].of = op[o].ver
                  THEN data[i].of ELSE op[o].id
           c == [of |-> ver, got |-> data[i].got + 1, how |-> data[i].how]
<1>1. /\ Active(o) /\ op[o].pc = "fill" /\ op[o] \in OpType
      /\ i \in Ids /\ op[o].id \in Ids /\ data[i] \in Content /\ ver \in Ids
  BY DEF Fills, Active, IInv, TypeOK, OpType, Content
<1>2. data[i].got # Size /\ data[i].got + 1 \in 0..Size
  <2>1. Available(o) \in 0..Size
    BY <1>1, ConstantsAssumption DEF IInv, TypeOK, OpType, Content, Available
  <2>2. data[i].got \in 0..Size /\ data[i].got < Available(o)
    BY <1>1 DEF Fills, Content
  <2> QED BY <2>1, <2>2, ConstantsAssumption
<1>3. data' = [data EXCEPT ![i] = c] /\ UNCHANGED <<dir, op>> /\ Counters
  <2>1. data' = [data EXCEPT ![i] = c]
    BY Zenon DEF Fills
  <2> QED BY <2>1 DEF Fills
<1> HIDE DEF ver
<1>4. c \in Content /\ c.how = data[i].how
  BY <1>1, <1>2 DEF Content
<1> HIDE DEF c, i
<1>5. GoesOn(o)
  BY <1>1, <1>3 DEF GoesOn, Active, IInv, TypeOK
<1>6. EntriesKept(o) /\ ObjectsKept(o)
  BY <1>1, <1>2, <1>3, <1>4 DEF IInv, TypeOK, EntriesKept, ObjectsKept
<1>7. HiddenOf(o)' /\ CompleteOf(o)'
  BY <1>1, <1>3 DEF HiddenOf, CompleteOf, IInv, Hidden, At, Active
<1>8. OwnIds' /\ Hidden' /\ Complete'
  BY <1>3, <1>5, <1>6, <1>7, OthersKept DEF Counters
<1>9. TypeOK'
  BY <1>3, <1>6 DEF IInv, TypeOK, ObjectsKept, Counters
<1>10. ArrivesWhole'
  <2>1. ASSUME NEW n \in Names, dir[n] = i, c.how = "placed" PROVE FALSE
    <3>1. dir[n] # None
      BY <1>1, <2>1, ConstantsAssumption DEF Ids
    <3> QED BY <1>2, <1>4, <2>1, <3>1 DEF IInv, ArrivesWhole, Exists
  <2> QED BY <1>1, <1>3, <2>1 DEF IInv, TypeOK, ArrivesWhole, Exists
<1> QED BY <1>8, <1>9, <1>10 DEF IInv

\* A request arrives: its identity is new, so no name leads to its object.
LEMMA RequestStep ==
  ASSUME IInv, NEW o \in Slots, NEW kind \in Kinds, NEW from \in Names, NEW to \in Names,
         NEW over \in BOOLEAN, Request(o, kind, from, to, over)
  PROVE  IInv'
<1> USE ConstantsAssumption
<1> DEFINE met == {p \in Slots \ {o} : Active(p) /\ Meets(p, {from, to})}
           new == [NoOp EXCEPT !.kind = kind, !.pc = "begin", !.from = from, !.to = to,
                               !.over = over, !.id = made + 1, !.alone = met = {}]
           old(p) == IF p \in met THEN [op[p] EXCEPT !.alone = FALSE] ELSE op[p]
<1>1. /\ op' = [p \in Slots |-> IF p = o THEN new ELSE old(p)]
      /\ made' = made + 1 /\ UNCHANGED <<dir, data, crashes>>
      /\ ~Active(o) /\ made + 1 \in Ids /\ made \in Nat
  <2>1. op' = [p \in Slots |-> IF p = o THEN new ELSE old(p)]
    BY Zenon DEF Request
  <2>2. made \in Ids
    BY DEF IInv, TypeOK
  <2>3. /\ made' = made + 1 /\ UNCHANGED <<dir, data, crashes>>
        /\ ~Active(o) /\ made < MaxOps
    BY Zenon DEF Request
  <2>4. made + 1 \in Ids /\ made \in Nat
    BY <2>2, <2>3 DEF Ids
  <2> QED BY <2>1, <2>3, <2>4, Zenon
<1> DEFINE alone == (met = {})
<1>2. /\ new \in OpType
      /\ new.kind = kind /\ new.pc = "begin" /\ new.from = from /\ new.to = to
      /\ new.id = made + 1
  <2>1. alone \in BOOLEAN
    OBVIOUS
  <2>2. new = [NoOp EXCEPT !.kind = kind, !.pc = "begin", !.from = from, !.to = to,
                           !.over = over, !.id = made + 1, !.alone = alone]
    OBVIOUS
  <2> HIDE DEF new, met, alone
  <2> QED BY <1>1, <2>1, <2>2, NoOpTyped DEF OpType, Steps
<1>3. ASSUME NEW p \in Slots
      PROVE  /\ old(p) \in OpType
             /\ old(p).kind = op[p].kind /\ old(p).pc = op[p].pc /\ old(p).id = op[p].id
             /\ old(p).from = op[p].from /\ old(p).to = op[p].to /\ old(p).ino = op[p].ino
  <2>1. op[p] \in OpType
    BY DEF IInv, TypeOK
  <2> HIDE DEF met
  <2> QED BY <2>1 DEF OpType
<1>4. ASSUME NEW p \in Slots, ~Active(p) PROVE old(p) = NoOp
  <2>1. op[p] = NoOp /\ p \notin met
    BY <1>4 DEF IInv, OwnIds
  <2> HIDE DEF met
  <2> QED BY <2>1
<1>5. \A p \in Slots : op'[p] = IF p = o THEN new ELSE old(p)
  BY <1>1
<1> HIDE DEF new, old, met, alone
<1>6. TypeOK'
  BY <1>1, <1>2, <1>3 DEF IInv, TypeOK
<1>7. \A n \in Names : dir[n] # made + 1
  BY <1>1 DEF IInv, TypeOK, OwnIds, Exists, Ids
<1>8. \A p \in Slots : Active(p) => op[p].id <= made /\ op[p].id # made + 1
  BY <1>1 DEF IInv, TypeOK, OpType, OwnIds, Ids
<1>9. OwnIds'
  <2>1. \A n \in Names : dir[n] # None => dir[n] <= made + 1
    BY <1>1 DEF IInv, TypeOK, OwnIds, Exists, Ids
  <2>2. ASSUME NEW p \in Slots
        PROVE  IF op'[p].pc # "idle" THEN op'[p].id <= made + 1 /\ {op'[p].from, op'[p].to} \subseteq Names
                                     ELSE op'[p] = NoOp
    <3>1. CASE p = o
      BY <1>1, <1>2, <1>5, <3>1
    <3>2. CASE p # o /\ Active(p)
      <4>1. op[p].id <= made /\ op[p].id \in Ids /\ {op[p].from, op[p].to} \subseteq Names
        BY <3>2 DEF IInv, TypeOK, OpType, OwnIds, Named
      <4> QED BY <1>1, <1>3, <1>5, <3>2, <4>1 DEF Active, Ids
    <3>3. CASE p # o /\ ~Active(p)
      <4>1. op'[p] = NoOp
        BY <1>4, <1>5, <3>3
      <4> QED BY <4>1 DEF NoOp
    <3> QED BY <3>1, <3>2, <3>3
  <2>3. ASSUME NEW p \in Slots, NEW q \in Slots, op'[p].pc # "idle", op'[q].pc # "idle", p # q
        PROVE  op'[p].id # op'[q].id
    BY <1>2, <1>3, <1>5, <1>8, <2>3 DEF IInv, OwnIds, Active
  <2> QED BY <1>1, <2>1, <2>2, <2>3 DEF OwnIds, Exists, Active, Named
<1>10. Hidden'
  <2>1. ASSUME NEW p \in Slots PROVE HiddenOf(p)'
    <3>1. CASE p = o
      BY <1>1, <1>2, <1>5, <1>7, <3>1 DEF HiddenOf
    <3>2. CASE p # o
      BY <1>1, <1>3, <1>5, <3>2 DEF HiddenOf, IInv, Hidden, Active
    <3> QED BY <3>1, <3>2
  <2> QED BY <2>1 DEF Hidden, HiddenOf
<1>11. Complete'
  <2>1. ASSUME NEW p \in Slots PROVE CompleteOf(p)'
    <3>1. CASE p = o
      BY <1>2, <1>5, <3>1 DEF CompleteOf, At
    <3>2. CASE p # o
      BY <1>1, <1>3, <1>5, <3>2 DEF CompleteOf, IInv, Complete, At
    <3> QED BY <3>1, <3>2
  <2> QED BY <2>1 DEF Complete, CompleteOf
<1>12. ArrivesWhole'
  BY <1>1 DEF IInv, ArrivesWhole, Exists
<1> QED BY <1>6, <1>9, <1>10, <1>11, <1>12 DEF IInv

\* The Daemon ends: what was under way is gone, the files stay.
LEMMA CrashStep ==
  ASSUME IInv, DaemonCrashes
  PROVE  IInv'
<1>1. /\ \A o \in Slots : op'[o] = NoOp
      /\ op' \in [Slots -> OpType]
      /\ UNCHANGED <<dir, data, made>> /\ crashes' \in 0..MaxCrash
  BY NoOpTyped, ConstantsAssumption DEF DaemonCrashes, IInv, TypeOK
<1>2. TypeOK' /\ ArrivesWhole'
  BY <1>1 DEF IInv, TypeOK, ArrivesWhole, Exists
<1>3. OwnIds' /\ Hidden' /\ Complete'
  BY <1>1 DEF IInv, OwnIds, Hidden, Complete, NoOp, Active, Exists, At
<1> QED BY <1>2, <1>3 DEF IInv

-----------------------------------------------------------------------------
(* The invariant *)

LEMMA InitIInv == Init => IInv
<1> SUFFICES ASSUME Init PROVE IInv
  OBVIOUS
<1> USE ConstantsAssumption
<1>1. 0 \in Ids /\ made = 0 /\ crashes = 0 /\ \A o \in Slots : op[o] = NoOp
  BY DEF Init, Ids
<1>2. \A n \in Names : dir[n] \in {0, None}
  BY DEF Init
<1>3. data[0].got = Size
  BY <1>1 DEF Init
<1>4. TypeOK
  <2>1. data \in [Ids -> Content]
    BY DEF Init, Content
  <2>2. dir \in [Names -> Ids \cup {None}] /\ op \in [Slots -> OpType]
    BY <1>1, NoOpTyped DEF Init
  <2> QED BY <1>1, <2>1, <2>2 DEF TypeOK
<1>5. OwnIds /\ Hidden /\ Complete
  <2>1. \A o \in Slots : ~Active(o) /\ op[o].pc = "idle"
    BY <1>1 DEF NoOp, Active
  <2>2. OwnIds
    BY <1>1, <1>2, <2>1 DEF OwnIds, Exists
  <2> QED BY <2>1, <2>2 DEF Hidden, Complete, At
<1>6. ArrivesWhole
  BY <1>2, <1>3 DEF ArrivesWhole, Exists
<1> QED BY <1>4, <1>5, <1>6 DEF IInv

LEMMA StepIInv == IInv /\ [Next]_vars => IInv'
<1> SUFFICES ASSUME IInv, [Next]_vars PROVE IInv'
  OBVIOUS
<1>1. CASE UNCHANGED vars
  BY <1>1 DEF vars, IInv, TypeOK, OwnIds, Hidden, Complete, ArrivesWhole, Active, Named,
              Exists, At
<1>2. CASE DaemonCrashes
  BY <1>2, CrashStep
<1>3. ASSUME NEW o \in Slots, NEW kind \in Kinds, NEW from \in Names, NEW to \in Names,
             NEW over \in BOOLEAN, Request(o, kind, from, to, over)
      PROVE  IInv'
  BY <1>3, RequestStep
<1>4. ASSUME NEW o \in Slots, Upload(o) PROVE IInv'
  BY <1>4, PanelStep, BeginsStep, PartStep, UploadEndsStep, CommitStep DEF Upload
<1>5. ASSUME NEW o \in Slots, Compress(o) PROVE IInv'
  BY <1>5, BeginsStep, PartStep, CompressClosesStep, CommitStep DEF Compress
<1>6. ASSUME NEW o \in Slots, InPlace(o) PROVE IInv'
  BY <1>6, ChecksStep, OpensStep, FillsStep DEF InPlace
<1>7. ASSUME NEW o \in Slots, Entry(o) \/ Fails(o) PROVE IInv'
  BY <1>7, ChecksStep, EntryStep DEF Entry
<1> QED BY <1>1, <1>2, <1>3, <1>4, <1>5, <1>6, <1>7 DEF Next

\* The invariant holds in every state, and with it the types.
THEOREM InvariantHolds == Spec => []IInv
BY InitIInv, StepIInv, PTL DEF Spec

THEOREM TypesKept == Spec => []TypeOK
<1>1. IInv => TypeOK
  BY DEF IInv
<1> QED BY <1>1, InvariantHolds, PTL

\* What an upload or a compress job put under a name is whole, whatever failed,
\* died or was renamed on the way (grpcapi/fileops.go:445, archive.go:104).
THEOREM FilesArriveWhole == Spec => []ArrivesWhole
<1>1. IInv => ArrivesWhole
  BY DEF IInv
<1> QED BY <1>1, InvariantHolds, PTL

-----------------------------------------------------------------------------
(* Nothing is lost unasked.  What keeps it so: no two names lead to one file; *)
(* a file that a request has yet to open is in no one's hand; a request that  *)
(* met no other finds its names as it left them, so what it checked holds,    *)
(* and a move to another file system removes its source only after a copy     *)
(* that is as long as the source.                                             *)

\* The request's own object is not yet a file.
Unopened(o) == Active(o) /\ op[o].pc \notin {"fill", "drop"}

OneName == \A n, m \in Names : Exists(n) /\ dir[n] = dir[m] => n = m

FreshOf(o) == Unopened(o) =>
  /\ \A n \in Names : dir[n] # op[o].id
  /\ \A p \in Slots : op[p].pc = "fill" => op[p].ino # op[o].id

KnownOf(o) == op[o].pc = "fill" => op[o].ino <= made

\* What was checked when the request began.
AskedOf(o) == Active(o) =>
  /\ op[o].kind \in Single <=> op[o].from = op[o].to
  /\ op[o].kind = "rename" => ~op[o].over
  /\ /\ op[o].kind \in {"upload", "copy", "move", "rename"}
     /\ op[o].pc \in {"recv", "commit", "open", "clear", "rename"}
     /\ op[o].alone /\ Exists(op[o].to)
     => op[o].over

ApartOf(o) == Active(o) /\ op[o].alone =>
  \A p \in Slots \ {o} : Active(p) =>
    /\ Named(p) \cap Named(o) = {}
    /\ op[p].pc = "fill" => \A n \in Named(o) : dir[n] # op[p].ino

CopiedOf(o) ==
  op[o].kind = "move" /\ op[o].pc \in {"fill", "drop"} /\ op[o].alone =>
    /\ op[o].pc = "drop" => op[o].src # None
    /\ op[o].src # None =>
         /\ dir[op[o].from] = op[o].src /\ dir[op[o].to] = op[o].ino
         /\ data[op[o].src].of = op[o].ver /\ data[op[o].ino].of = op[o].ver
         /\ op[o].pc = "drop" => data[op[o].ino].got >= data[op[o].src].got

Kept == OneName /\ \A o \in Slots : FreshOf(o) /\ KnownOf(o) /\ AskedOf(o) /\ ApartOf(o) /\ CopiedOf(o)

\* The steps of a request touch its own names and files only.
EntriesOf(o) ==
  /\ \A n \in Names \ Named(o) : dir'[n] = dir[n]
  /\ \A n \in Named(o) : \/ dir'[n] = None
                         \/ \E m \in Named(o) : dir'[n] = dir[m]
                         \/ dir'[n] = op[o].id /\ Unopened(o) /\ ~Unopened(o)'
ObjectsOf(o) ==
  \A i \in Ids : \/ data'[i] = data[i]
                 \/ Unopened(o) /\ i \in {op[o].id, dir[op[o].to]}
                 \/ op[o].pc = "fill" /\ i = op[o].ino
FileOf(o) ==
  op'[o].pc = "fill" =>
    \/ op[o].pc = "fill" /\ op'[o].ino = op[o].ino
    \/ Unopened(o) /\ op'[o].ino \in {op[o].id, dir[op[o].to]} \ {None}

StepOf(o) ==
  /\ GoesOn(o) /\ made' = made /\ (Unopened(o)' => Unopened(o))
  /\ EntriesOf(o) /\ ObjectsOf(o) /\ FileOf(o)

LEMMA Fields ==
  ASSUME IInv, NEW o \in Slots
  PROVE  /\ op[o].id \in Ids /\ op[o].ino \in Ids /\ op[o].src \in Ids \cup {None}
         /\ op[o].from \in Names \cup {None} /\ op[o].to \in Names \cup {None}
         /\ op[o].over \in BOOLEAN /\ op[o].alone \in BOOLEAN /\ op[o] \in OpType
         /\ Active(o) => op[o].id <= made /\ op[o].from \in Names /\ op[o].to \in Names
         /\ ~Active(o) => op[o] = NoOp
         /\ None \notin Ids /\ None \notin Names /\ made \in Nat /\ made \in Ids
BY ConstantsAssumption DEF IInv, TypeOK, OpType, OwnIds, Named, Ids

\* What the step leaves to request p.
LEMMA FreshKept ==
  ASSUME IInv, Kept, NEW o \in Slots, StepOf(o), NEW p \in Slots PROVE FreshOf(p)'
<1> SUFFICES ASSUME Unopened(p)'
             PROVE  /\ \A n \in Names : dir'[n] # op'[p].id
                    /\ \A q \in Slots : op'[q].pc = "fill" => op'[q].ino # op'[p].id
  BY DEF FreshOf
<1>1. Unopened(p) /\ Active(p) /\ op'[p].id = op[p].id /\ op[p].id \in Ids
  <2>1. CASE p = o
    <3>1. Unopened(o) /\ op'[o] # NoOp
      BY <2>1 DEF StepOf, Unopened, Active, NoOp
    <3> QED BY <2>1, <3>1, Fields DEF StepOf, GoesOn, Unopened
  <2>2. CASE p # o
    <3>1. op'[p] = op[p]
      BY <2>2 DEF StepOf, GoesOn
    <3> QED BY <3>1, Fields DEF Unopened, Active
  <2> QED BY <2>1, <2>2
<1>2. /\ \A n \in Names : dir[n] # op[p].id
      /\ \A q \in Slots : op[q].pc = "fill" => op[q].ino # op[p].id
  BY <1>1 DEF Kept, FreshOf
<1>3. p # o => op[p].id # op[o].id
  BY <1>1 DEF IInv, OwnIds, StepOf, GoesOn
<1>4. Named(o) \subseteq Names /\ op[p].id # None
  BY <1>1, Fields DEF Named, StepOf, GoesOn
<1>5. \A n \in Names : dir'[n] # op[p].id
  <2> SUFFICES ASSUME NEW n \in Names PROVE dir'[n] # op[p].id
    OBVIOUS
  <2>1. CASE n \notin Named(o)
    BY <1>2, <2>1 DEF StepOf, EntriesOf
  <2>2. CASE n \in Named(o)
    <3>1. \/ dir'[n] = None \/ \E m \in Named(o) : dir'[n] = dir[m]
          \/ dir'[n] = op[o].id /\ ~Unopened(o)'
      BY <2>2 DEF StepOf, EntriesOf
    <3> QED BY <1>2, <1>3, <1>4, <3>1
  <2> QED BY <2>1, <2>2
<1>6. ASSUME NEW q \in Slots, op'[q].pc = "fill" PROVE op'[q].ino # op[p].id
  <2>1. CASE q # o
    <3>1. op'[q] = op[q]
      BY <2>1 DEF StepOf, GoesOn
    <3> QED BY <1>2, <1>6, <3>1
  <2>2. CASE q = o
    <3>1. p # o
      BY <1>6, <2>2 DEF Unopened
    <3>2. op[o].to \in Names
      BY Fields DEF StepOf, GoesOn
    <3>3. \/ op[o].pc = "fill" /\ op'[o].ino = op[o].ino
          \/ op'[o].ino \in {op[o].id, dir[op[o].to]}
      BY <1>6, <2>2 DEF StepOf, FileOf
    <3> QED BY <1>2, <1>3, <2>2, <3>1, <3>2, <3>3
  <2> QED BY <2>1, <2>2
<1> QED BY <1>1, <1>5, <1>6

LEMMA KnownKept ==
  ASSUME IInv, Kept, NEW o \in Slots, StepOf(o), NEW p \in Slots PROVE KnownOf(p)'
<1> SUFFICES ASSUME op'[p].pc = "fill" PROVE op'[p].ino <= made
  BY DEF KnownOf, StepOf
<1>1. CASE p # o
  BY <1>1 DEF StepOf, GoesOn, Kept, KnownOf
<1>2. CASE p = o
  <2>1. CASE op[o].pc = "fill" /\ op'[o].ino = op[o].ino
    BY <1>2, <2>1 DEF Kept, KnownOf
  <2>2. CASE op'[o].ino = op[o].id
    BY <1>2, <2>2, Fields DEF StepOf, GoesOn
  <2>3. CASE op'[o].ino = dir[op[o].to] /\ dir[op[o].to] # None
    <3>1. op[o].to \in Names
      BY Fields DEF StepOf, GoesOn
    <3> QED BY <1>2, <2>3, <3>1 DEF IInv, OwnIds, Exists
  <2> QED BY <1>2, <2>1, <2>2, <2>3 DEF StepOf, FileOf
<1> QED BY <1>1, <1>2

\* Where request p met no other, request o names none of its files.
LEMMA ApartNames ==
  ASSUME IInv, Kept, NEW o \in Slots, Active(o), NEW p \in Slots, p # o, Active(p), op[p].alone
  PROVE  /\ Named(p) \subseteq Names /\ Named(o) \subseteq Names
         /\ Named(p) \cap Named(o) = {}
         /\ \A n \in Named(p) : /\ op[o].pc = "fill" => dir[n] # op[o].ino
                                /\ Unopened(o) => dir[n] # op[o].id
                                /\ \A m \in Named(o) : Exists(m) => dir[n] # dir[m]
<1>1. Named(p) \subseteq Names /\ Named(o) \subseteq Names
  BY Fields DEF Named
<1>2. Named(p) \cap Named(o) = {} /\ (op[o].pc = "fill" => \A n \in Named(p) : dir[n] # op[o].ino)
  BY DEF Kept, ApartOf
<1>3. Unopened(o) => \A n \in Named(p) : dir[n] # op[o].id
  BY <1>1 DEF Kept, FreshOf
<1>4. \A n \in Named(p), m \in Named(o) : Exists(m) => dir[n] # dir[m]
  BY <1>1, <1>2 DEF Kept, OneName
<1> QED BY <1>1, <1>2, <1>3, <1>4

LEMMA ApartKept ==
  ASSUME IInv, Kept, NEW o \in Slots, StepOf(o), NEW p \in Slots PROVE ApartOf(p)'
<1> SUFFICES ASSUME Active(p)', op'[p].alone, NEW q \in Slots \ {p}, Active(q)'
             PROVE  /\ Named(q)' \cap Named(p)' = {}
                    /\ op'[q].pc = "fill" => \A n \in Named(p)' : dir'[n] # op'[q].ino
  BY DEF ApartOf
<1>0. Active(o)
  BY DEF StepOf, GoesOn
<1>1. ASSUME NEW s \in Slots, Active(s)'
      PROVE  /\ Active(s) /\ Named(s)' = Named(s) /\ op'[s].alone = op[s].alone
             /\ s # o => op'[s] = op[s]
  <2>1. CASE s # o
    BY <2>1, <1>1 DEF StepOf, GoesOn, Active, Named
  <2>2. CASE s = o
    <3>1. op'[o] # NoOp
      BY <1>1, <2>2 DEF Active, NoOp
    <3> QED BY <1>0, <2>2, <3>1 DEF StepOf, GoesOn, Named
  <2> QED BY <2>1, <2>2
<1>2. /\ Active(p) /\ op[p].alone /\ Active(q) /\ Named(p)' = Named(p) /\ Named(q)' = Named(q)
  BY <1>1
<1>3. Named(q) \cap Named(p) = {} /\ (op[q].pc = "fill" => \A n \in Named(p) : dir[n] # op[q].ino)
  BY <1>2 DEF Kept, ApartOf
<1>4. ASSUME op'[q].pc = "fill", NEW n \in Named(p) PROVE dir'[n] # op'[q].ino
  <2>1. CASE p # o
    <3>1. /\ Named(p) \cap Named(o) = {} /\ n \in Names
          /\ op[o].pc = "fill" => dir[n] # op[o].ino
          /\ Unopened(o) => dir[n] # op[o].id
          /\ \A m \in Named(o) : Exists(m) => dir[n] # dir[m]
      BY <1>0, <1>2, <2>1, ApartNames
    <3>2. dir'[n] = dir[n]
      BY <3>1 DEF StepOf, EntriesOf
    <3>3. CASE q # o
      BY <1>1, <1>3, <1>4, <3>2, <3>3
    <3>4. CASE q = o
      <4>1. \/ op[o].pc = "fill" /\ op'[o].ino = op[o].ino
            \/ Unopened(o) /\ op'[o].ino = op[o].id
            \/ Unopened(o) /\ op'[o].ino = dir[op[o].to] /\ Exists(op[o].to)
        BY <1>4, <3>4 DEF StepOf, FileOf, Exists
      <4> QED BY <3>1, <3>2, <3>4, <4>1 DEF Named
    <3> QED BY <3>3, <3>4
  <2>2. CASE p = o
    <3>1. op'[q] = op[q] /\ op[q].pc = "fill" /\ op[q].ino \in Ids /\ op[q].ino # None
      BY <1>1, <1>4, <2>2, Fields
    <3>2. \/ dir'[n] = None \/ \E m \in Named(o) : dir'[n] = dir[m]
          \/ dir'[n] = op[o].id /\ Unopened(o)
      BY <1>4, <2>2 DEF StepOf, EntriesOf
    <3>3. Unopened(o) => op[q].ino # op[o].id
      BY <3>1 DEF Kept, FreshOf
    <3> QED BY <1>3, <2>2, <3>1, <3>2, <3>3
  <2> QED BY <2>1, <2>2
<1> QED BY <1>2, <1>3, <1>4

\* What a request without company has checked and copied, another one's step leaves.
LEMMA OthersFilesKept ==
  ASSUME IInv, Kept, NEW o \in Slots, StepOf(o), NEW p \in Slots, p # o
  PROVE  AskedOf(p)' /\ CopiedOf(p)'
<1>1. op'[p] = op[p] /\ Active(o)
  BY DEF StepOf, GoesOn
<1>2. ASSUME Active(p), op[p].alone, NEW n \in Named(p)
      PROVE  /\ dir'[n] = dir[n]
             /\ dir[n] # None => data'[dir[n]] = data[dir[n]]
  <2>1. /\ n \in Names /\ n \notin Named(o) /\ op[o].to \in Named(o)
        /\ op[o].pc = "fill" => dir[n] # op[o].ino
        /\ Unopened(o) => dir[n] # op[o].id
        /\ \A m \in Named(o) : Exists(m) => dir[n] # dir[m]
    <3>1. /\ Named(p) \subseteq Names /\ Named(p) \cap Named(o) = {}
          /\ op[o].pc = "fill" => dir[n] # op[o].ino
          /\ Unopened(o) => dir[n] # op[o].id
          /\ \A m \in Named(o) : Exists(m) => dir[n] # dir[m]
      BY <1>1, <1>2, ApartNames
    <3>2. op[o].to \in Named(o)
      BY DEF Named
    <3> QED BY <1>2, <3>1, <3>2
  <2>2. dir'[n] = dir[n]
    BY <2>1 DEF StepOf, EntriesOf
  <2>3. ASSUME dir[n] # None PROVE data'[dir[n]] = data[dir[n]]
    <3>1. dir[n] \in Ids /\ dir[n] # dir[op[o].to]
      BY <2>1, <2>3 DEF IInv, TypeOK, Exists
    <3> QED BY <2>1, <3>1 DEF StepOf, ObjectsOf
  <2> QED BY <2>2, <2>3
<1>3. AskedOf(p)'
  <2>1. AskedOf(p)
    BY DEF Kept
  <2>2. Active(p) /\ op[p].alone => dir'[op[p].to] = dir[op[p].to]
    BY <1>2 DEF Named
  <2> QED BY <1>1, <2>1, <2>2 DEF AskedOf, Active, Exists
<1>4. CopiedOf(p)'
  <2> SUFFICES ASSUME op[p].kind = "move", op[p].pc \in {"fill", "drop"}, op[p].alone
               PROVE  CopiedOf(p)'
    BY <1>1 DEF CopiedOf
  <2>1. CopiedOf(p) /\ Active(p) /\ op[p].ino # None
    BY Fields DEF Kept, Active
  <2>2. /\ dir'[op[p].from] = dir[op[p].from] /\ dir'[op[p].to] = dir[op[p].to]
        /\ dir[op[p].from] # None => data'[dir[op[p].from]] = data[dir[op[p].from]]
        /\ dir[op[p].to] # None => data'[dir[op[p].to]] = data[dir[op[p].to]]
    BY <1>2, <2>1 DEF Named
  <2> QED BY <1>1, <2>1, <2>2 DEF CopiedOf
<1> QED BY <1>3, <1>4

LEMMA KeptStep ==
  ASSUME IInv, Kept, NEW o \in Slots, StepOf(o), OneName', AskedOf(o)', CopiedOf(o)'
  PROVE  Kept'
BY FreshKept, KnownKept, ApartKept, OthersFilesKept DEF Kept

\* Steps that leave directory and contents alone.
LEMMA QuietStep ==
  ASSUME IInv, Kept, NEW o \in Slots, GoesOn(o), UNCHANGED <<dir, data>>, made' = made,
         Unopened(o)' => Unopened(o),
         op'[o].pc = "fill" => op[o].pc = "fill" /\ op'[o].ino = op[o].ino,
         AskedOf(o)', CopiedOf(o)'
  PROVE  Kept'
<1>1. EntriesOf(o) /\ ObjectsOf(o) /\ FileOf(o)
  BY DEF EntriesOf, ObjectsOf, FileOf
<1>2. OneName'
  BY DEF Kept, OneName, Exists
<1> QED BY <1>1, <1>2, KeptStep DEF StepOf

LEMMA OverKept ==
  ASSUME IInv, Kept, NEW o \in Slots, GoesOn(o), StepOf(o), OneName',
         op'[o] = NoOp
  PROVE  Kept'
<1>1. AskedOf(o)' /\ CopiedOf(o)'
  BY DEF AskedOf, CopiedOf, NoOp, Active
<1> QED BY <1>1, KeptStep

LEMMA EndKeeps ==
  ASSUME IInv, Kept, NEW o \in Slots, Active(o), Ends(o), UNCHANGED <<dir, data>>, Counters
  PROVE  Kept'
<1>1. GoesOn(o) /\ op'[o] = NoOp
  BY EndsGoesOn DEF IInv
<1>2. ~Unopened(o)' /\ op'[o].pc # "fill" /\ AskedOf(o)' /\ CopiedOf(o)'
  BY <1>1 DEF Unopened, Active, NoOp, AskedOf, CopiedOf
<1> QED BY <1>1, <1>2, QuietStep DEF Counters

LEMMA PanelKeeps ==
  ASSUME IInv, Kept, NEW o \in Slots, PanelSends(o) \/ PanelCloses(o) \/ BrowserLeaves(o)
  PROVE  Kept'
<1>0. op[o].kind = "upload" /\ Active(o)
  BY DEF IInv, OwnIds, NoOp, PanelSends, PanelCloses, BrowserLeaves
<1>1. GoesOn(o) /\ op'[o].pc = op[o].pc /\ op'[o].ino = op[o].ino
  <2>1. CASE PanelSends(o)
    <3>1. op[o].sent + 1 \in 0..Size
      BY <2>1, ConstantsAssumption DEF PanelSends, IInv, TypeOK, OpType
    <3> QED BY <1>0, <2>1, <3>1 DEF PanelSends, GoesOn, IInv, TypeOK, OpType, Active
  <2>2. CASE PanelCloses(o)
    BY <1>0, <2>2 DEF PanelCloses, GoesOn, IInv, TypeOK, OpType, Active
  <2>3. CASE BrowserLeaves(o)
    BY <1>0, <2>3 DEF BrowserLeaves, GoesOn, IInv, TypeOK, OpType, Active
  <2> QED BY <2>1, <2>2, <2>3
<1>2. UNCHANGED <<dir, data>> /\ made' = made
  BY DEF PanelSends, PanelCloses, BrowserLeaves, Counters
<1>3. /\ op'[o].kind = op[o].kind /\ op'[o].from = op[o].from /\ op'[o].to = op[o].to
      /\ op'[o].over = op[o].over /\ op'[o].alone = op[o].alone
  BY <1>0, <1>1 DEF GoesOn, NoOp, Active
<1>4. Unopened(o)' => Unopened(o)
  BY <1>1 DEF Unopened, Active
<1>5. AskedOf(o)
  BY DEF Kept
<1>6. AskedOf(o)' /\ CopiedOf(o)'
  BY <1>0, <1>1, <1>2, <1>3, <1>5 DEF AskedOf, CopiedOf, Active, Exists
<1> QED BY <1>1, <1>2, <1>4, <1>6, QuietStep

\* A request has looked at its names, and goes on.
LEMMA GoKeeps ==
  ASSUME IInv, Kept, NEW o \in Slots, Unopened(o), NEW pc \in {"commit", "open", "clear", "rename"},
         Go(o, pc), UNCHANGED <<dir, data>>, Counters,
         op[o].kind \in {"upload", "copy", "move", "rename"} /\ op[o].alone /\ Exists(op[o].to)
           => op[o].over
  PROVE  Kept'
<1>1. pc \in Steps /\ pc \notin {"idle", "fill", "drop"} /\ Active(o)
  BY DEF Steps, Unopened
<1>2. GoesOn(o) /\ op'[o].pc = pc /\ op'[o].kind = op[o].kind
  BY <1>1, GoGoesOn DEF IInv
<1>3. /\ op'[o].from = op[o].from /\ op'[o].to = op[o].to
      /\ op'[o].over = op[o].over /\ op'[o].alone = op[o].alone
  BY <1>1, <1>2 DEF GoesOn, NoOp
<1>4. AskedOf(o)
  BY DEF Kept
<1>5. AskedOf(o)' /\ CopiedOf(o)'
  BY <1>1, <1>2, <1>3, <1>4 DEF AskedOf, CopiedOf, Exists
<1> QED BY <1>1, <1>2, <1>5, QuietStep DEF Counters

LEMMA ChecksKeep ==
  ASSUME IInv, Kept, NEW o \in Slots,
         CopyChecks(o) \/ MoveChecks(o) \/ RenameChecks(o) \/ MoveCrosses(o) \/ UploadEnds(o)
  PROVE  Kept'
<1>1. Unopened(o) /\ UNCHANGED <<dir, data>> /\ Counters
  BY DEF CopyChecks, MoveChecks, RenameChecks, MoveCrosses, UploadEnds, At, Active, Unopened
<1>2. CASE CopyChecks(o)
  BY <1>1, <1>2, GoKeeps DEF CopyChecks
<1>3. CASE MoveChecks(o)
  BY <1>1, <1>3, GoKeeps DEF MoveChecks
<1>4. CASE RenameChecks(o)
  BY <1>1, <1>4, GoKeeps DEF RenameChecks
<1>5. CASE MoveCrosses(o)
  BY <1>1, <1>5, GoKeeps DEF MoveCrosses
<1>6. CASE UploadEnds(o)
  <2>1. AskedOf(o)
    BY DEF Kept
  <2>2. op[o].alone /\ Exists(op[o].to) => op[o].over
    BY <1>1, <1>6, <2>1 DEF UploadEnds, AskedOf, Unopened, At
  <2> QED BY <1>1, <1>6, <2>2, GoKeeps DEF UploadEnds
<1> QED BY <1>2, <1>3, <1>4, <1>5, <1>6

\* A copy across file systems has read to the end.
LEMMA FilledKeeps ==
  ASSUME IInv, Kept, NEW o \in Slots, Filled(o)
  PROVE  Kept'
<1>1. Active(o) /\ op[o].pc = "fill" /\ UNCHANGED <<dir, data>> /\ Counters
  BY DEF Filled, Active
<1>2. CASE op[o].kind # "move"
  BY <1>1, <1>2, EndKeeps DEF Filled
<1>3. CASE op[o].kind = "move"
  <2>1. Go(o, "drop") /\ op[o].src # None /\ data[op[o].ino].got >= data[op[o].src].got
    BY <1>3 DEF Filled, Available
  <2>2. "drop" \in Steps
    BY DEF Steps
  <2>3. /\ GoesOn(o) /\ op'[o].pc = "drop" /\ op'[o].kind = op[o].kind
        /\ op'[o].ino = op[o].ino /\ op'[o].src = op[o].src /\ op'[o].ver = op[o].ver
    BY <1>1, <2>1, <2>2, GoGoesOn DEF IInv
  <2>4. /\ op'[o].from = op[o].from /\ op'[o].to = op[o].to
        /\ op'[o].over = op[o].over /\ op'[o].alone = op[o].alone
    BY <2>3 DEF GoesOn, NoOp
  <2>5. AskedOf(o) /\ CopiedOf(o)
    BY DEF Kept
  <2>6. AskedOf(o)'
    BY <1>1, <2>3, <2>4, <2>5 DEF AskedOf
  <2>7. CopiedOf(o)'
    BY <1>1, <1>3, <2>1, <2>3, <2>4, <2>5 DEF CopiedOf
  <2>8. ~Unopened(o)'
    BY <2>3 DEF Unopened
  <2> QED BY <1>1, <2>3, <2>6, <2>7, <2>8, QuietStep DEF Counters
<1> QED BY <1>2, <1>3

\* Steps on the object of an upload or a job, which no name leads to.
LEMMA OwnObject ==
  ASSUME IInv, NEW o \in Slots,
         \/ UploadBegins(o) \/ UploadReceives(o)
         \/ CompressBegins(o) \/ CompressWrites(o) \/ CompressCloses(o)
  PROVE  /\ Unopened(o) /\ op[o].kind \in {"upload", "compress"} /\ dir' = dir /\ Counters
         /\ op[o].pc \in {"begin", "recv", "write"}
         /\ \A i \in Ids : i # op[o].id => data'[i] = data[i]
<1>1. op[o].kind \in {"upload", "compress"} /\ op[o].pc \in {"begin", "recv", "write"} /\ dir' = dir /\ Counters
  BY DEF UploadBegins, UploadReceives, CompressBegins, CompressWrites, CompressCloses, At
<1>2. Active(o) /\ Unopened(o)
  BY <1>1 DEF Active, Unopened
<1>3. op[o].pc \in {"recv", "write"} => op[o].ino = op[o].id
  BY <1>1, <1>2 DEF IInv, Hidden
<1>4. \A i \in Ids : i # op[o].id => data'[i] = data[i]
  BY <1>3 DEF UploadBegins, UploadReceives, CompressBegins, CompressWrites, CompressCloses, At, IInv, TypeOK
<1> QED BY <1>1, <1>2, <1>4

LEMMA OwnKeeps ==
  ASSUME IInv, Kept, NEW o \in Slots,
         \/ UploadBegins(o) \/ UploadReceives(o)
         \/ CompressBegins(o) \/ CompressWrites(o) \/ CompressCloses(o)
  PROVE  Kept'
<1>1. /\ Unopened(o) /\ op[o].kind \in {"upload", "compress"} /\ dir' = dir /\ Counters
      /\ \A i \in Ids : i # op[o].id => data'[i] = data[i]
  BY OwnObject
<1>2. Active(o)
  BY <1>1 DEF Unopened
<1>3. /\ GoesOn(o) /\ op'[o].pc \in {"recv", "write", "commit"} /\ op'[o].kind = op[o].kind
      /\ op'[o].pc = "recv" /\ op[o].pc # "recv" => (Exists(op[o].to) => op[o].over)
      /\ op[o].pc = "recv" => op'[o].pc = "recv"
      /\ op'[o].pc = "commit" => op[o].kind = "compress"
  <2>1. CASE UploadBegins(o) \/ CompressBegins(o)
    <3>1. PICK pc \in {"recv", "write"} : op' = [op EXCEPT ![o].pc = pc, ![o].ino = op[o].id]
      BY <2>1 DEF UploadBegins, CompressBegins
    <3>2. op'[o] = [op[o] EXCEPT !.pc = pc, !.ino = op[o].id] /\ GoesOn(o)
      BY <1>2, <3>1, BeginGoesOn DEF IInv, Steps
    <3>3. op'[o].pc = pc /\ op'[o].kind = op[o].kind
      BY <3>2, Fields DEF OpType
    <3>4. UploadBegins(o) \/ pc = "write"
      BY <2>1, <3>1, <3>3 DEF CompressBegins, IInv, TypeOK, OpType
    <3>5. op[o].pc = "begin"
      BY <2>1 DEF UploadBegins, CompressBegins, At
    <3> QED BY <3>2, <3>3, <3>4, <3>5 DEF UploadBegins
  <2>2. CASE UploadReceives(o) \/ CompressWrites(o)
    <3>1. op' = op /\ op[o].pc \in {"recv", "write"}
      BY <2>2 DEF UploadReceives, CompressWrites, At
    <3> QED BY <1>2, <3>1 DEF GoesOn, IInv, TypeOK
  <2>3. CASE CompressCloses(o)
    <3>1. Go(o, "commit") /\ "commit" \in Steps /\ op[o].kind = "compress" /\ op[o].pc = "write"
      BY <2>3 DEF CompressCloses, Steps, At
    <3> QED BY <1>2, <3>1, GoGoesOn DEF IInv
  <2> QED BY <2>1, <2>2, <2>3
<1>4. /\ op'[o].from = op[o].from /\ op'[o].to = op[o].to
      /\ op'[o].over = op[o].over /\ op'[o].alone = op[o].alone
  BY <1>3 DEF GoesOn, NoOp
<1>5. AskedOf(o)
  BY DEF Kept
<1>6. AskedOf(o)' /\ CopiedOf(o)'
  <2>1. op'[o].kind # "rename" /\ op'[o].kind # "move"
    BY <1>1, <1>3
  <2>2. op'[o].kind \in Single <=> op'[o].from = op'[o].to
    BY <1>2, <1>3, <1>4, <1>5 DEF AskedOf
  <2>3. ASSUME op'[o].kind = "upload", op'[o].alone, Exists(op[o].to) PROVE op'[o].over
    <3>1. op'[o].pc = "recv" \/ op'[o].pc = "write" 
      BY <1>3, <2>3
    <3>2. CASE op[o].pc = "recv"
      BY <1>2, <1>3, <1>4, <1>5, <2>3, <3>2 DEF AskedOf
    <3>3. CASE op[o].pc # "recv" /\ op'[o].pc = "recv"
      BY <1>3, <1>4, <2>3, <3>3
    <3>4. CASE op'[o].pc = "write"
      <4>1. UploadBegins(o) \/ UploadReceives(o)
        BY <1>3, <2>3 DEF CompressBegins, CompressWrites, CompressCloses, At
      <4> QED BY <3>4, <4>1, Fields DEF UploadBegins, UploadReceives, At, IInv, TypeOK, OpType
    <3> QED BY <3>1, <3>2, <3>3, <3>4
  <2>4. dir'[op'[o].to] = dir[op[o].to]
    BY <1>1, <1>4
  <2>5. AskedOf(o)'
    BY <1>1, <1>3, <2>1, <2>2, <2>3, <2>4 DEF AskedOf, Exists
  <2> QED BY <2>1, <2>5 DEF CopiedOf
<1>7. StepOf(o)
  <2>1. FileOf(o)
    BY <1>3 DEF FileOf
  <2> QED BY <1>1, <1>3, <2>1 DEF StepOf, EntriesOf, ObjectsOf, Counters
<1>8. OneName'
  BY <1>1 DEF Kept, OneName, Exists
<1> QED BY <1>6, <1>7, <1>8, KeptStep

LEMMA CommitKeeps ==
  ASSUME IInv, Kept, NEW o \in Slots, UploadCommits(o) \/ CompressCommits(o)
  PROVE  Kept'
<1>1. /\ Active(o) /\ Unopened(o) /\ op[o].ino = op[o].id
  BY DEF UploadCommits, CompressCommits, At, Active, Unopened, IInv, Hidden
<1>2. dir' = [dir EXCEPT ![op[o].to] = op[o].id] /\ data' = data /\ made' = made /\ op[o].to \in Names
  BY <1>1, Fields DEF UploadCommits, CompressCommits, Counters
<1>3. GoesOn(o) /\ op'[o] = NoOp /\ ~Unopened(o)'
  <2>1. GoesOn(o) /\ op'[o] = NoOp
    BY <1>1, EndsGoesOn DEF UploadCommits, CompressCommits, IInv
  <2> QED BY <2>1 DEF Unopened, Active, NoOp
<1>4. StepOf(o)
  <2>1. EntriesOf(o)
    BY <1>1, <1>2, <1>3 DEF EntriesOf, Named, IInv, TypeOK
  <2> QED BY <1>2, <1>3, <2>1 DEF StepOf, ObjectsOf, FileOf, NoOp
<1>5. OneName'
  <2>1. \A n \in Names : dir[n] # op[o].id
    BY <1>1 DEF Kept, FreshOf
  <2> QED BY <1>2, <2>1 DEF Kept, OneName, Exists, IInv, TypeOK
<1> QED BY <1>3, <1>4, <1>5, OverKept

\* What a step that moves or removes an entry does.
LEMMA EntryEffect ==
  ASSUME IInv, NEW o \in Slots, MoveClears(o) \/ Renames(o) \/ MoveDrops(o) \/ Deletes(o)
  PROVE  /\ Active(o) /\ op[o].from \in Names /\ op[o].to \in Names /\ data' = data /\ Counters
         /\ \/ dir' = [dir EXCEPT ![op[o].to] = None]
            \/ dir' = [dir EXCEPT ![op[o].from] = None]
            \/ dir' = [dir EXCEPT ![op[o].to] = dir[op[o].from], ![op[o].from] = None]
<1>1. Active(o) /\ op[o].from \in Names /\ op[o].to \in Names
  <2>1. Active(o)
    BY DEF MoveClears, Renames, MoveDrops, Deletes, At, Active
  <2> QED BY <2>1, Fields
<1> QED BY <1>1 DEF MoveClears, Renames, MoveDrops, Deletes

LEMMA EntryKeeps ==
  ASSUME IInv, Kept, NEW o \in Slots, MoveClears(o) \/ Renames(o) \/ MoveDrops(o) \/ Deletes(o)
  PROVE  Kept'
<1>1. /\ Active(o) /\ op[o].from \in Names /\ op[o].to \in Names /\ data' = data /\ made' = made
      /\ \/ dir' = [dir EXCEPT ![op[o].to] = None]
         \/ dir' = [dir EXCEPT ![op[o].from] = None]
         \/ dir' = [dir EXCEPT ![op[o].to] = dir[op[o].from], ![op[o].from] = None]
  BY EntryEffect DEF Counters
<1>2. EntriesOf(o)
  BY <1>1 DEF EntriesOf, Named, IInv, TypeOK
<1>3. OneName'
  BY <1>1 DEF Kept, OneName, Exists, IInv, TypeOK
<1>4. CASE ~MoveClears(o)
  <2>1. Ends(o)
    BY <1>4 DEF Renames, MoveDrops, Deletes
  <2>2. GoesOn(o) /\ op'[o] = NoOp
    BY <1>1, <2>1, EndsGoesOn DEF IInv
  <2>3. StepOf(o)
    BY <1>1, <1>2, <2>2 DEF StepOf, ObjectsOf, FileOf, NoOp, Unopened, Active
  <2> QED BY <1>3, <2>2, <2>3, OverKept
<1>5. CASE MoveClears(o)
  <2>1. /\ Go(o, "rename") /\ op[o].kind = "move" /\ op[o].pc = "clear"
        /\ dir' = [dir EXCEPT ![op[o].to] = None] /\ "rename" \in Steps
    BY <1>5 DEF MoveClears, At, Steps
  <2>2. GoesOn(o) /\ op'[o].pc = "rename" /\ op'[o].kind = "move"
    BY <1>1, <2>1, GoGoesOn DEF IInv
  <2>3. op'[o].from = op[o].from /\ op'[o].to = op[o].to
    BY <2>2 DEF GoesOn, NoOp
  <2>4. AskedOf(o)
    BY DEF Kept
  <2>5. AskedOf(o)' /\ CopiedOf(o)'
    BY <1>1, <2>1, <2>2, <2>3, <2>4 DEF AskedOf, CopiedOf, Exists, IInv, TypeOK
  <2>6. StepOf(o)
    BY <1>1, <1>2, <2>1, <2>2 DEF StepOf, ObjectsOf, FileOf, Unopened, Active
  <2> QED BY <1>3, <2>5, <2>6, KeptStep
<1> QED BY <1>4, <1>5

\* What opening a file to write it in place does.
LEMMA OpensEffect ==
  ASSUME IInv, NEW o \in Slots, Opens(o)
  PROVE  LET ino == IF Exists(op[o].to) THEN dir[op[o].to] ELSE op[o].id
             src == IF CopyOpens(o) THEN dir[op[o].from] ELSE None
             ver == IF src # None THEN data[src].of ELSE op[o].id
         IN  /\ Unopened(o) /\ op[o].to \in Names /\ op[o].from \in Names /\ made' = made
             /\ ino \in Ids /\ dir' = [dir EXCEPT ![op[o].to] = ino]
             /\ data' = [data EXCEPT ![ino] = [of |-> ver, got |-> 0, how |-> "inplace"]]
             /\ GoesOn(o) /\ op'[o].pc = "fill" /\ op'[o].ino = ino /\ op'[o].kind = op[o].kind
             /\ op'[o].src = src /\ op'[o].ver = ver
             /\ op'[o].from = op[o].from /\ op'[o].to = op[o].to
             /\ op'[o].over = op[o].over /\ op'[o].alone = op[o].alone
             /\ op[o].kind = "move" => CopyOpens(o)
<1> DEFINE ino == IF Exists(op[o].to) THEN dir[op[o].to] ELSE op[o].id
           src == IF CopyOpens(o) THEN dir[op[o].from] ELSE None
           ver == IF src # None THEN data[src].of ELSE op[o].id
           r   == [op[o] EXCEPT !.pc = "fill", !.ino = ino, !.src = src, !.ver = ver]
<1>1. Unopened(o) /\ Active(o) /\ (op[o].kind = "move" => CopyOpens(o))
  BY DEF Opens, WriteOpens, ExtractOpens, CopyOpens, At, Active, Unopened
<1>2. op[o].to \in Names /\ op[o].from \in Names /\ op[o] \in OpType /\ op[o].id \in Ids
  BY <1>1, Fields
<1>3. ino \in Ids /\ src \in Ids \cup {None}
  BY <1>2 DEF IInv, TypeOK, Exists
<1>4. ver \in Ids
  BY <1>2, <1>3 DEF IInv, TypeOK, Content
<1>5. /\ dir' = [dir EXCEPT ![op[o].to] = ino]
      /\ data' = [data EXCEPT ![ino] = [of |-> ver, got |-> 0, how |-> "inplace"]]
      /\ op' = [op EXCEPT ![o].pc = "fill", ![o].ino = ino, ![o].src = src, ![o].ver = ver]
      /\ made' = made
  BY DEF Opens, Counters
<1> HIDE DEF ino, src, ver
<1>6. /\ r \in OpType /\ r.pc = "fill" /\ r.ino = ino /\ r.src = src /\ r.ver = ver
      /\ r.kind = op[o].kind /\ r.id = op[o].id /\ r.from = op[o].from /\ r.to = op[o].to
      /\ r.over = op[o].over /\ r.alone = op[o].alone
  <2>1. "fill" \in Steps
    BY DEF Steps
  <2> QED BY <1>2, <1>3, <1>4, <2>1 DEF OpType
<1>7. op' = [op EXCEPT ![o] = r]
  BY <1>5 DEF IInv, TypeOK
<1> HIDE DEF r
<1>8. op'[o] = r /\ GoesOn(o)
  <2>1. op'[o] = r
    BY <1>7 DEF IInv, TypeOK
  <2> QED BY <1>1, <1>6, <1>7, <2>1 DEF GoesOn, IInv, TypeOK
<1>9. /\ Unopened(o) /\ op[o].to \in Names /\ op[o].from \in Names /\ made' = made
      /\ ino \in Ids /\ dir' = [dir EXCEPT ![op[o].to] = ino]
      /\ data' = [data EXCEPT ![ino] = [of |-> ver, got |-> 0, how |-> "inplace"]]
      /\ GoesOn(o) /\ op'[o].pc = "fill" /\ op'[o].ino = ino /\ op'[o].kind = op[o].kind
      /\ op'[o].src = src /\ op'[o].ver = ver
      /\ op'[o].from = op[o].from /\ op'[o].to = op[o].to
      /\ op'[o].over = op[o].over /\ op'[o].alone = op[o].alone
      /\ op[o].kind = "move" => CopyOpens(o)
  BY <1>1, <1>2, <1>3, <1>5, <1>6, <1>8
<1> QED BY <1>9 DEF ino, src, ver

LEMMA OpensKeeps ==
  ASSUME IInv, Kept, NEW o \in Slots, Opens(o)
  PROVE  Kept'
<1> DEFINE ino == IF Exists(op[o].to) THEN dir[op[o].to] ELSE op[o].id
           src == IF CopyOpens(o) THEN dir[op[o].from] ELSE None
           ver == IF src # None THEN data[src].of ELSE op[o].id
<1>1. /\ Unopened(o) /\ op[o].to \in Names /\ op[o].from \in Names /\ made' = made
      /\ ino \in Ids /\ dir' = [dir EXCEPT ![op[o].to] = ino]
      /\ data' = [data EXCEPT ![ino] = [of |-> ver, got |-> 0, how |-> "inplace"]]
      /\ GoesOn(o) /\ op'[o].pc = "fill" /\ op'[o].ino = ino /\ op'[o].kind = op[o].kind
      /\ op'[o].src = src /\ op'[o].ver = ver
      /\ op'[o].from = op[o].from /\ op'[o].to = op[o].to
      /\ op'[o].over = op[o].over /\ op'[o].alone = op[o].alone
      /\ op[o].kind = "move" => CopyOpens(o)
  BY OpensEffect
<1>2. IF Exists(op[o].to) THEN ino = dir[op[o].to] ELSE ino = op[o].id
  OBVIOUS
<1>3. op[o].kind = "move" => src = dir[op[o].from]
  BY <1>1
<1>4. src # None => ver = data[src].of
  OBVIOUS
<1>5. \A n \in Names : dir[n] # op[o].id
  BY <1>1 DEF Kept, FreshOf
<1>6. Active(o) /\ None \notin Ids /\ dir \in [Names -> Ids \cup {None}] /\ data \in [Ids -> Content]
  BY <1>1, Fields DEF Unopened, IInv, TypeOK
<1> HIDE DEF ino, src, ver
<1>7. ~Unopened(o)' /\ FileOf(o)
  BY <1>1, <1>2, <1>6 DEF Unopened, FileOf, Exists
<1>8. EntriesOf(o)
  BY <1>1, <1>2, <1>6, <1>7 DEF EntriesOf, Named
<1>9. ObjectsOf(o)
  BY <1>1, <1>2, <1>6 DEF ObjectsOf
<1>10. OneName'
  BY <1>1, <1>2, <1>5, <1>6 DEF Kept, OneName, Exists
<1>11. AskedOf(o)'
  <2>1. AskedOf(o)
    BY DEF Kept
  <2> QED BY <1>1, <1>6, <2>1 DEF AskedOf
<1>12. CopiedOf(o)'
  <2> SUFFICES ASSUME op[o].kind = "move", src # None
               PROVE  /\ dir'[op[o].from] = src /\ dir'[op[o].to] = ino
                      /\ data'[src].of = ver /\ data'[ino].of = ver
    BY <1>1 DEF CopiedOf
  <2>1. op[o].from # op[o].to
    BY <1>6 DEF Kept, AskedOf, Single
  <2>2. src = dir[op[o].from] /\ src \in Ids
    BY <1>1, <1>3, <1>6
  <2>3. src # ino
    BY <1>1, <1>2, <1>5, <2>1, <2>2 DEF Kept, OneName, Exists
  <2> QED BY <1>1, <1>4, <1>6, <2>1, <2>2, <2>3
<1> QED BY <1>1, <1>7, <1>8, <1>9, <1>10, <1>11, <1>12, KeptStep DEF StepOf

\* What writing a part of a file in place does.
LEMMA FillsEffect ==
  ASSUME IInv, NEW o \in Slots, Fills(o)
  PROVE  /\ op[o].pc = "fill" /\ Active(o) /\ op[o].ino \in Ids /\ data[op[o].ino].got # Size
         /\ \A i \in Ids : i # op[o].ino => data'[i] = data[i]
         /\ data[op[o].src].of = op[o].ver /\ op[o].src # None => data'[op[o].ino].of = data[op[o].ino].of
         /\ dir' = dir /\ op' = op /\ made' = made
<1> DEFINE i == op[o].ino
           of == IF op[o].src = None \/ data[op[o].src].of = op[o].ver THEN data[i].of ELSE op[o].id
<1>1. /\ op[o].pc = "fill" /\ Active(o) /\ i \in Ids /\ data \in [Ids -> Content] /\ op[o] \in OpType
      /\ dir' = dir /\ op' = op /\ made' = made
  BY Fields DEF Fills, Active, IInv, TypeOK, Counters
<1>2. data' = [data EXCEPT ![i] = [of |-> of, got |-> data[i].got + 1, how |-> data[i].how]]
  BY Zenon DEF Fills
<1>3. data[i].got # Size
  <2>1. Available(o) \in 0..Size
    BY <1>1, ConstantsAssumption DEF IInv, TypeOK, OpType, Content, Available
  <2>2. data[i].got \in 0..Size /\ data[i].got < Available(o)
    BY <1>1 DEF Fills, Content
  <2> QED BY <2>1, <2>2, ConstantsAssumption
<1>4. data[op[o].src].of = op[o].ver => of = data[i].of
  OBVIOUS
<1> HIDE DEF of
<1> QED BY <1>1, <1>2, <1>3, <1>4

LEMMA FillsKeeps ==
  ASSUME IInv, Kept, NEW o \in Slots, Fills(o)
  PROVE  Kept'
<1> DEFINE i == op[o].ino
<1>1. /\ op[o].pc = "fill" /\ Active(o) /\ i \in Ids
      /\ \A j \in Ids : j # i => data'[j] = data[j]
      /\ data[op[o].src].of = op[o].ver /\ op[o].src # None => data'[i].of = data[i].of
      /\ dir' = dir /\ op' = op /\ made' = made
  BY FillsEffect
<1>2. StepOf(o)
  BY <1>1 DEF StepOf, GoesOn, EntriesOf, ObjectsOf, FileOf, Unopened, IInv, TypeOK
<1>3. OneName' /\ AskedOf(o)'
  BY <1>1 DEF Kept, OneName, AskedOf, Exists, Active
<1>4. CopiedOf(o)'
  <2> SUFFICES ASSUME op[o].kind = "move", op[o].alone, op[o].src # None
               PROVE  /\ dir[op[o].from] = op[o].src /\ dir[op[o].to] = i
                      /\ data'[op[o].src].of = op[o].ver /\ data'[i].of = op[o].ver
    BY <1>1 DEF CopiedOf
  <2>1. /\ dir[op[o].from] = op[o].src /\ dir[op[o].to] = i
        /\ data[op[o].src].of = op[o].ver /\ data[i].of = op[o].ver
    BY <1>1 DEF Kept, CopiedOf
  <2>2. op[o].from \in Names /\ op[o].to \in Names /\ op[o].from # op[o].to /\ op[o].src \in Ids
    BY <1>1, Fields DEF Kept, AskedOf, Single
  <2>3. op[o].src # i
    BY <2>1, <2>2, Fields DEF Kept, OneName, Exists
  <2> QED BY <1>1, <2>1, <2>2, <2>3
<1> QED BY <1>2, <1>3, <1>4, KeptStep

\* A new request is alone if it meets no other; those it meets are alone no longer.
LEMMA RequestKeeps ==
  ASSUME IInv, Kept, NEW o \in Slots, NEW kind \in Kinds, NEW from \in Names, NEW to \in Names,
         NEW over \in BOOLEAN, Request(o, kind, from, to, over)
  PROVE  Kept'
<1>1. /\ ~Active(o) /\ made' = made + 1 /\ dir' = dir /\ data' = data
      /\ kind \in Single <=> from = to
      /\ kind = "rename" => ~over
      /\ op'[o].kind = kind /\ op'[o].pc = "begin" /\ op'[o].from = from /\ op'[o].to = to
      /\ op'[o].over = over /\ op'[o].id = made + 1
      /\ op'[o].alone => \A p \in Slots \ {o} : Active(p) => ~Meets(p, {from, to})
      /\ \A p \in Slots \ {o} :
           /\ op'[p].kind = op[p].kind /\ op'[p].pc = op[p].pc /\ op'[p].id = op[p].id
           /\ op'[p].from = op[p].from /\ op'[p].to = op[p].to /\ op'[p].ino = op[p].ino
           /\ op'[p].over = op[p].over /\ op'[p].src = op[p].src /\ op'[p].ver = op[p].ver
           /\ op'[p].alone => op[p].alone
           /\ op'[p].alone /\ Active(p) => ~Meets(p, {from, to})
  <2> USE ConstantsAssumption
  <2> DEFINE met == {p \in Slots \ {o} : Active(p) /\ Meets(p, {from, to})}
             alone == (met = {})
             new == [NoOp EXCEPT !.kind = kind, !.pc = "begin", !.from = from, !.to = to,
                                 !.over = over, !.id = made + 1, !.alone = alone]
             old(p) == IF p \in met THEN [op[p] EXCEPT !.alone = FALSE] ELSE op[p]
  <2>1. op' = [p \in Slots |-> IF p = o THEN new ELSE old(p)]
    BY Zenon DEF Request
  <2>2. /\ ~Active(o) /\ made' = made + 1 /\ dir' = dir /\ data' = data
        /\ kind \in Single <=> from = to
        /\ kind = "rename" => ~over
    BY Zenon DEF Request
  <2>3. op'[o] = new /\ \A p \in Slots \ {o} : op'[p] = old(p)
    BY <2>1
  <2>4. alone => \A p \in Slots \ {o} : Active(p) => ~Meets(p, {from, to})
    OBVIOUS
  <2>5. \A p \in Slots \ {o} : p \notin met /\ Active(p) => ~Meets(p, {from, to})
    OBVIOUS
  <2> HIDE DEF met, alone
  <2>6. /\ new.kind = kind /\ new.pc = "begin" /\ new.from = from /\ new.to = to
        /\ new.over = over /\ new.id = made + 1 /\ new.alone = alone
    BY Zenon DEF NoOp
  <2>7. ASSUME NEW p \in Slots \ {o}
        PROVE  /\ old(p).kind = op[p].kind /\ old(p).pc = op[p].pc /\ old(p).id = op[p].id
               /\ old(p).from = op[p].from /\ old(p).to = op[p].to /\ old(p).ino = op[p].ino
               /\ old(p).over = op[p].over /\ old(p).src = op[p].src /\ old(p).ver = op[p].ver
               /\ old(p).alone => op[p].alone
               /\ old(p).alone /\ Active(p) => ~Meets(p, {from, to})
    <3>1. op[p] \in OpType
      BY Fields
    <3>2. p \notin met => (Active(p) => ~Meets(p, {from, to}))
      BY <2>5
    <3>3. CASE p \in met
      <4>1. old(p) = [op[p] EXCEPT !.alone = FALSE]
        BY <3>3
      <4>2. old(p).alone = FALSE
        BY <3>1, <4>1 DEF OpType
      <4> QED BY <3>1, <4>1, <4>2 DEF OpType
    <3>4. CASE p \notin met
      <4>1. old(p) = op[p]
        BY <3>4
      <4> QED BY <3>2, <3>4, <4>1
    <3> QED BY <3>3, <3>4
  <2> HIDE DEF new, old
  <2>8. op'[o].alone => \A p \in Slots \ {o} : Active(p) => ~Meets(p, {from, to})
    BY <2>3, <2>4, <2>6
  <2>9. \A p \in Slots \ {o} :
          /\ op'[p].kind = op[p].kind /\ op'[p].pc = op[p].pc /\ op'[p].id = op[p].id
          /\ op'[p].from = op[p].from /\ op'[p].to = op[p].to /\ op'[p].ino = op[p].ino
          /\ op'[p].over = op[p].over /\ op'[p].src = op[p].src /\ op'[p].ver = op[p].ver
          /\ op'[p].alone => op[p].alone
          /\ op'[p].alone /\ Active(p) => ~Meets(p, {from, to})
    BY <2>3, <2>7
  <2> QED BY <2>2, <2>3, <2>6, <2>8, <2>9, Zenon
<1>2. \A p \in Slots \ {o} :
        /\ op'[p].kind = op[p].kind /\ op'[p].pc = op[p].pc /\ op'[p].id = op[p].id
        /\ op'[p].from = op[p].from /\ op'[p].to = op[p].to /\ op'[p].ino = op[p].ino
        /\ op'[p].over = op[p].over /\ op'[p].src = op[p].src /\ op'[p].ver = op[p].ver
        /\ op'[p].alone => op[p].alone
        /\ op'[p].alone /\ Active(p) => ~Meets(p, {from, to})
  BY <1>1
<1>3. made \in Nat
  BY Fields
<1>4. OneName'
  BY <1>1 DEF Kept, OneName, Exists
<1>5. ASSUME NEW p \in Slots PROVE FreshOf(p)'
  <2>1. ASSUME NEW q \in Slots, op'[q].pc = "fill"
        PROVE  op[q].pc = "fill" /\ op'[q].ino = op[q].ino /\ op[q].ino <= made
    BY <1>1, <1>2, <2>1 DEF Kept, KnownOf
  <2>2. CASE p = o
    <3>1. \A n \in Names : dir[n] # made + 1
      BY <1>3, Fields, ConstantsAssumption DEF IInv, OwnIds, Exists, TypeOK, Ids
    <3>2. \A q \in Slots : op'[q].pc = "fill" => op'[q].ino # made + 1
      BY <1>3, <2>1, Fields DEF Ids
    <3> QED BY <1>1, <2>2, <3>1, <3>2 DEF FreshOf
  <2>3. CASE p # o
    <3>1. FreshOf(p)
      BY DEF Kept
    <3> QED BY <1>1, <1>2, <2>1, <2>3, <3>1 DEF FreshOf, Unopened, Active
  <2> QED BY <2>2, <2>3
<1>6. ASSUME NEW p \in Slots PROVE KnownOf(p)'
  <2>1. CASE p = o
    BY <1>1, <2>1 DEF KnownOf
  <2>2. CASE p # o
    <3>1. KnownOf(p) /\ op[p].ino \in Ids
      BY Fields DEF Kept
    <3> QED BY <1>1, <1>2, <1>3, <2>2, <3>1 DEF KnownOf, Ids
  <2> QED BY <2>1, <2>2
<1>7. ASSUME NEW p \in Slots PROVE AskedOf(p)'
  <2>1. CASE p = o
    BY <1>1, <2>1 DEF AskedOf
  <2>2. CASE p # o
    <3>1. AskedOf(p)
      BY DEF Kept
    <3> QED BY <1>1, <1>2, <2>2, <3>1 DEF AskedOf, Active, Exists
  <2> QED BY <2>1, <2>2
<1>8. ASSUME NEW p \in Slots PROVE CopiedOf(p)'
  <2>1. CASE p = o
    BY <1>1, <2>1 DEF CopiedOf
  <2>2. CASE p # o
    <3>1. CopiedOf(p)
      BY DEF Kept
    <3> QED BY <1>1, <1>2, <2>2, <3>1 DEF CopiedOf
  <2> QED BY <2>1, <2>2
<1>9. ASSUME NEW p \in Slots PROVE ApartOf(p)'
  <2> SUFFICES ASSUME Active(p)', op'[p].alone, NEW q \in Slots \ {p}, Active(q)'
               PROVE  /\ {op'[q].from, op'[q].to} \cap {op'[p].from, op'[p].to} = {}
                      /\ op'[q].pc = "fill" => \A n \in {op'[p].from, op'[p].to} : dir[n] # op'[q].ino
    BY <1>1 DEF ApartOf, Named
  <2>1. CASE p = o
    <3>1. Active(q) /\ ~Meets(q, {from, to})
      BY <1>1, <1>2, <2>1 DEF Active
    <3> QED BY <1>1, <1>2, <2>1, <3>1 DEF Meets, Named
  <2>2. CASE p # o /\ q = o
    <3>1. Active(p) /\ ~Meets(p, {from, to})
      BY <1>2, <2>2 DEF Active
    <3> QED BY <1>1, <1>2, <2>2, <3>1 DEF Meets, Named
  <2>3. CASE p # o /\ q # o
    <3>1. Active(p) /\ op[p].alone /\ Active(q)
      BY <1>2, <2>3 DEF Active
    <3>2. Named(q) \cap Named(p) = {} /\ (op[q].pc = "fill" => \A n \in Named(p) : dir[n] # op[q].ino)
      BY <3>1 DEF Kept, ApartOf
    <3> QED BY <1>2, <2>3, <3>2 DEF Named
  <2> QED BY <2>1, <2>2, <2>3
<1> QED BY <1>4, <1>5, <1>6, <1>7, <1>8, <1>9 DEF Kept

LEMMA NoneKeeps ==
  ASSUME OneName, \A o \in Slots : op[o] = NoOp PROVE Kept
BY DEF Kept, FreshOf, KnownOf, AskedOf, ApartOf, CopiedOf, NoOp, Active, Unopened

LEMMA KeptInv == IInv /\ Kept /\ [Next]_vars => Kept'
<1> SUFFICES ASSUME IInv, Kept, [Next]_vars PROVE Kept'
  OBVIOUS
<1>1. CASE UNCHANGED vars
  BY <1>1 DEF vars, Kept, OneName, FreshOf, KnownOf, AskedOf, ApartOf, CopiedOf, Active,
              Unopened, Exists, Named
<1>2. CASE DaemonCrashes
  <2>1. dir' = dir /\ \A o \in Slots : op'[o] = NoOp
    BY <1>2 DEF DaemonCrashes
  <2>2. OneName'
    BY <2>1 DEF Kept, OneName, Exists
  <2> QED BY <2>1, <2>2 DEF Kept, FreshOf, KnownOf, AskedOf, ApartOf, CopiedOf, NoOp, Active, Unopened
<1>3. ASSUME NEW o \in Slots, NEW kind \in Kinds, NEW from \in Names, NEW to \in Names,
             NEW over \in BOOLEAN, Request(o, kind, from, to, over)
      PROVE  Kept'
  BY <1>3, RequestKeeps
<1>4. ASSUME NEW o \in Slots, Upload(o) PROVE Kept'
  BY <1>4, PanelKeeps, OwnKeeps, ChecksKeep, CommitKeeps DEF Upload
<1>5. ASSUME NEW o \in Slots, Compress(o) PROVE Kept'
  BY <1>5, OwnKeeps, CommitKeeps DEF Compress
<1>6. ASSUME NEW o \in Slots, InPlace(o) PROVE Kept'
  BY <1>6, ChecksKeep, OpensKeeps, FillsKeeps, FilledKeeps DEF InPlace
<1>7. ASSUME NEW o \in Slots, Entry(o) PROVE Kept'
  BY <1>7, ChecksKeep, EntryKeeps DEF Entry
<1>8. ASSUME NEW o \in Slots, Fails(o) PROVE Kept'
  BY <1>8, EndKeeps DEF Fails
<1> QED BY <1>1, <1>2, <1>3, <1>4, <1>5, <1>6, <1>7, <1>8 DEF Next

\* In every state: what requests hold is theirs, and what they checked holds as long as
\* they meet no other.
THEOREM CompanyMarked == Spec => []Kept
<1>1. Init => Kept
  <2> SUFFICES ASSUME Init PROVE Kept
    OBVIOUS
  <2>1. OneName /\ \A o \in Slots : op[o] = NoOp
    BY DEF Init, OneName, Exists
  <2> QED BY <2>1, NoneKeeps
<1>2. IInv /\ Kept /\ [Next]_vars => Kept'
  BY KeptInv
<1> QED BY <1>1, <1>2, InvariantHolds, PTL DEF Spec

\* The loss of a whole file n is one that was asked for, or one of two that met.
Excused(o, n) == n \in Named(o) /\ (MayReplace(o, n) \/ ~op[o].alone)

LEMMA KeeperFacts ==
  ASSUME IInv, NEW v \in Ids, NEW n \in Keepers(v)
  PROVE  /\ n \in Names /\ dir[n] \in Ids /\ dir[n] # None /\ Exists(n)
         /\ data[dir[n]].of = v /\ data[dir[n]].got = Size
         /\ dir'[n] = dir[n] /\ data'[dir[n]] = data[dir[n]] => n \in Keepers(v)'
BY DEF Keepers, Exists, IInv, TypeOK

\* An upload or a job takes the place of what its target led to.
LEMMA CommitLoses ==
  ASSUME IInv, Kept, NEW v \in Ids, NEW n \in Keepers(v), n \notin Keepers(v)', NEW o \in Slots,
         UploadCommits(o) \/ CompressCommits(o)
  PROVE  Excused(o, n)
<1>1. Active(o) /\ op[o].ino = op[o].id /\ op[o].to \in Names
  BY Fields DEF UploadCommits, CompressCommits, At, Active, IInv, Hidden
<1>2. dir' = [dir EXCEPT ![op[o].to] = op[o].id] /\ data' = data
  BY <1>1 DEF UploadCommits, CompressCommits
<1>3. n = op[o].to /\ dir'[n] = op[o].id
  BY <1>1, <1>2, KeeperFacts DEF IInv, TypeOK
<1>4. Exists(op[o].to)
  BY <1>3, KeeperFacts
<1>5. op[o].kind \in {"upload", "compress"} /\ (op[o].kind = "upload" /\ op[o].alone => op[o].over)
  <2>1. AskedOf(o)
    BY DEF Kept
  <2> QED BY <1>1, <1>4, <2>1 DEF UploadCommits, CompressCommits, At, AskedOf
<1> QED BY <1>3, <1>5 DEF Excused, MayReplace, Named

\* A file opened to be written in place loses what it held.
LEMMA OpensLoses ==
  ASSUME IInv, Kept, NEW v \in Ids, NEW n \in Keepers(v), n \notin Keepers(v)', NEW o \in Slots,
         Opens(o)
  PROVE  Excused(o, n)
<1> DEFINE ino == IF Exists(op[o].to) THEN dir[op[o].to] ELSE op[o].id
<1>1. /\ Unopened(o) /\ op[o].to \in Names /\ dir' = [dir EXCEPT ![op[o].to] = ino]
      /\ \A i \in Ids : i # ino => data'[i] = data[i]
  BY OpensEffect DEF IInv, TypeOK
<1>2. n = op[o].to
  <2>1. CASE dir[n] = ino
    <3>1. dir[n] # op[o].id
      BY <1>1, KeeperFacts DEF Kept, FreshOf
    <3> QED BY <1>1, <2>1, <3>1, KeeperFacts DEF Kept, OneName
  <2>2. CASE dir[n] # ino
    BY <1>1, <2>2, KeeperFacts DEF IInv, TypeOK
  <2> QED BY <2>1, <2>2
<1>3. Active(o) /\ Exists(op[o].to)
  BY <1>1, <1>2, KeeperFacts DEF Unopened
<1>4. \/ op[o].kind \in {"write", "extract"}
      \/ op[o].kind \in {"copy", "move"} /\ (op[o].alone => op[o].over)
  <2>1. AskedOf(o)
    BY DEF Kept
  <2> QED BY <1>3, <2>1 DEF Opens, WriteOpens, ExtractOpens, CopyOpens, At, AskedOf
<1> QED BY <1>2, <1>4 DEF Excused, MayReplace, Named

\* Nothing whole is written to.
LEMMA NothingElseLoses ==
  ASSUME IInv, Kept, NEW v \in Ids, NEW n \in Keepers(v), n \notin Keepers(v)', NEW o \in Slots,
         \/ Fills(o) \/ UploadBegins(o) \/ UploadReceives(o)
         \/ CompressBegins(o) \/ CompressWrites(o) \/ CompressCloses(o)
  PROVE  FALSE
<1>1. CASE Fills(o)
  BY <1>1, FillsEffect, KeeperFacts
<1>2. CASE ~Fills(o)
  <2>1. Unopened(o) /\ dir' = dir /\ \A i \in Ids : i # op[o].id => data'[i] = data[i]
    BY <1>2, OwnObject
  <2>2. dir[n] # op[o].id
    BY <2>1, KeeperFacts DEF Kept, FreshOf
  <2> QED BY <2>1, <2>2, KeeperFacts
<1> QED BY <1>1, <1>2

\* A move takes what it replaces; its source only when the copy is whole.
LEMMA EntryLoses ==
  ASSUME IInv, Kept, NEW v \in Ids, NEW n \in Keepers(v), Keepers(v)' = {}, NEW o \in Slots,
         MoveClears(o) \/ Renames(o) \/ MoveDrops(o) \/ Deletes(o)
  PROVE  Excused(o, n)
<1>1. Active(o) /\ op[o].from \in Names /\ op[o].to \in Names /\ data' = data
  BY EntryEffect
<1>2. dir \in [Names -> Ids \cup {None}] /\ n \notin Keepers(v)' /\ n \in Names
  BY KeeperFacts DEF IInv, TypeOK
<1>3. AskedOf(o) /\ CopiedOf(o)
  BY DEF Kept
<1>4. CASE Deletes(o)
  <2>1. n = op[o].to
    BY <1>1, <1>2, <1>4, KeeperFacts DEF Deletes
  <2> QED BY <1>4, <2>1 DEF Deletes, At, Excused, MayReplace, Named
<1>5. CASE MoveClears(o)
  <2>1. n = op[o].to
    BY <1>1, <1>2, <1>5, KeeperFacts DEF MoveClears
  <2>2. Exists(op[o].to)
    BY <2>1, KeeperFacts
  <2> QED BY <1>1, <1>3, <1>5, <2>1, <2>2 DEF MoveClears, At, AskedOf, Excused, MayReplace, Named
<1>6. CASE Renames(o)
  <2>1. /\ dir' = [dir EXCEPT ![op[o].to] = dir[op[o].from], ![op[o].from] = None]
        /\ op[o].kind \in {"move", "rename"} /\ op[o].pc = "rename"
    BY <1>6 DEF Renames, At
  <2>2. op[o].from # op[o].to
    BY <1>1, <1>3, <2>1 DEF AskedOf, Single
  <2>3. dir'[op[o].to] = dir[op[o].from]
    BY <1>1, <1>2, <2>1, <2>2
  <2>4. n # op[o].from
    <3> SUFFICES ASSUME n = op[o].from PROVE op[o].to \in Keepers(v)'
      OBVIOUS
    <3> QED BY <1>1, <2>3, KeeperFacts DEF Keepers, Exists
  <2>5. n = op[o].to
    BY <1>1, <1>2, <2>1, <2>4, KeeperFacts
  <2>6. op[o].alone => op[o].over /\ op[o].kind = "move"
    BY <1>1, <1>3, <2>1, <2>5, KeeperFacts DEF AskedOf
  <2> QED BY <2>1, <2>5, <2>6 DEF Excused, MayReplace, Named
<1>7. CASE MoveDrops(o)
  <2>1. dir' = [dir EXCEPT ![op[o].from] = None] /\ op[o].kind = "move" /\ op[o].pc = "drop"
    BY <1>7 DEF MoveDrops, At
  <2>2. n = op[o].from
    BY <1>1, <1>2, <2>1, KeeperFacts
  <2>3. ASSUME op[o].alone PROVE FALSE
    <3>1. /\ op[o].src # None /\ dir[op[o].from] = op[o].src /\ dir[op[o].to] = op[o].ino
          /\ data[op[o].ino].of = data[op[o].src].of
          /\ data[op[o].ino].got >= data[op[o].src].got
      BY <1>3, <2>1, <2>3 DEF CopiedOf
    <3>2. op[o].from # op[o].to
      BY <1>1, <1>3, <2>1 DEF AskedOf, Single
    <3>3. dir'[op[o].to] = op[o].ino /\ op[o].ino # None
      BY <1>1, <1>2, <2>1, <3>1, <3>2, Fields
    <3>4. data[op[o].ino].got = Size
      <4>1. data[op[o].src].got = Size /\ data[op[o].ino].got \in 0..Size
        BY <2>2, <3>1, KeeperFacts, Fields DEF IInv, TypeOK, Content
      <4> QED BY <3>1, <4>1, ConstantsAssumption
    <3>5. data[op[o].ino].of = v
      BY <2>2, <3>1, KeeperFacts
    <3>6. op[o].to \in Keepers(v)'
      BY <1>1, <3>3, <3>4, <3>5 DEF Keepers, Exists
    <3> QED BY <3>6
  <2> QED BY <2>2, <2>3 DEF Excused, Named
<1> QED BY <1>4, <1>5, <1>6, <1>7

LEMMA LossExcused ==
  ASSUME IInv, Kept, [Next]_vars, NEW v \in Ids, NEW n \in Keepers(v), Keepers(v)' = {}
  PROVE  \E o \in Slots : Excused(o, n)
<1>0. n \notin Keepers(v)'
  OBVIOUS
<1>1. ~(dir' = dir /\ data' = data)
  BY <1>0, KeeperFacts
<1>2. ~UNCHANGED vars /\ ~DaemonCrashes
  BY <1>1 DEF vars, DaemonCrashes
<1>3. ASSUME NEW o \in Slots, NEW kind \in Kinds, NEW from \in Names, NEW to \in Names,
             NEW over \in BOOLEAN, Request(o, kind, from, to, over)
      PROVE  FALSE
  <2>1. UNCHANGED <<dir, data>>
    BY <1>3, Zenon DEF Request
  <2> QED BY <1>1, <2>1
<1>4. ASSUME NEW o \in Slots,
             \/ PanelSends(o) \/ PanelCloses(o) \/ BrowserLeaves(o) \/ UploadEnds(o)
             \/ CopyChecks(o) \/ Filled(o) \/ Fails(o)
             \/ MoveChecks(o) \/ RenameChecks(o) \/ MoveCrosses(o)
      PROVE  FALSE
  BY <1>1, <1>4 DEF PanelSends, PanelCloses, BrowserLeaves, UploadEnds, CopyChecks, Filled,
                    Fails, MoveChecks, RenameChecks, MoveCrosses
<1>5. ASSUME NEW o \in Slots, Upload(o) PROVE Excused(o, n)
  BY <1>0, <1>4, <1>5, CommitLoses, NothingElseLoses DEF Upload
<1>6. ASSUME NEW o \in Slots, Compress(o) PROVE Excused(o, n)
  BY <1>0, <1>6, CommitLoses, NothingElseLoses DEF Compress
<1>7. ASSUME NEW o \in Slots, InPlace(o) PROVE Excused(o, n)
  BY <1>0, <1>4, <1>7, OpensLoses, NothingElseLoses DEF InPlace
<1>8. ASSUME NEW o \in Slots, Entry(o) PROVE Excused(o, n)
  BY <1>4, <1>8, EntryLoses DEF Entry
<1> QED BY <1>2, <1>3, <1>4, <1>5, <1>6, <1>7, <1>8 DEF Next

\* Module InstanceFiles: no content disappears from the instance unless a request was
\* asked to replace or remove it, or requests met on its name or in its file; whatever
\* fails, dies or crosses file systems (archive.go:742, Copy; 757, Move; 104).
THEOREM LostOnlyWhenAsked == Spec => NothingLostUnasked
<1>1. ASSUME IInv, Kept, [Next]_vars
      PROVE  \A v \in Ids : Keepers(v) # {} /\ Keepers(v)' = {}
               => \E n \in Keepers(v), o \in Slots :
                    n \in Named(o) /\ (MayReplace(o, n) \/ ~op[o].alone)
  <2> SUFFICES ASSUME NEW v \in Ids, NEW n \in Keepers(v), Keepers(v)' = {}
               PROVE  \E o \in Slots : Excused(o, n)
    BY DEF Excused
  <2> QED BY <1>1, LossExcused
<1> QED BY <1>1, InvariantHolds, CompanyMarked, PTL DEF Spec, NothingLostUnasked
=============================================================================
