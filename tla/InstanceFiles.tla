--------------------------- MODULE InstanceFiles ----------------------------
(***************************************************************************)
(* The files of one instance, as the file manager's requests change them:  *)
(* uploads streamed from the browser through the panel to the Daemon       *)
(* (httpapi/upload.go, grpcapi/fileops.go), compress and extract jobs,     *)
(* copies, moves, renames, writes and deletions (grpcapi/file.go,          *)
(* fileops/archive.go).  Requests run at the same time, step by step; the  *)
(* worker of the job queue is one (the default of job_workers).            *)
(*                                                                         *)
(* A name leads to a file object, as a directory entry leads to an inode:  *)
(* a rename moves the entry, O_TRUNC empties the object under every writer *)
(* that has it open.  Content is the request that produced it and how many *)
(* of its Size parts are there.  The temporary names (.upload-*, *.part)   *)
(* are no Names: the object is in its writer's hand until the rename.      *)
(* Checks that only refuse a request (paths, protected files, the core     *)
(* jar, quotas and free space) are among the reasons of Fails.             *)
(***************************************************************************)
EXTENDS Integers, FiniteSets

CONSTANTS Names,     \* files the requests are about
          Slots,     \* requests at a time
          Size,      \* parts of a content
          MaxOps,    \* bound: requests
          MaxCrash,  \* bound: ends of the Daemon
          None

ASSUME ConstantsAssumption ==
  /\ IsFiniteSet(Names) /\ IsFiniteSet(Slots)
  /\ Size \in Nat \ {0} /\ MaxOps \in Nat /\ MaxCrash \in Nat
  /\ None \notin Names /\ None \notin Nat

VARIABLES dir,     \* [Names -> Ids \cup {None}]: the directory entries
          data,    \* [Ids -> content of the file object the request created]
          op,      \* [Slots -> the request being served]
          made,    \* requests so far
          crashes

vars == <<dir, data, op, made, crashes>>

Ids    == 0..MaxOps        \* object 0 was there before the first request
Jobs   == {"compress", "extract"}
Single == {"upload", "write", "delete"}
Kinds  == Jobs \cup Single \cup {"copy", "move", "rename"}

\* over: overwrite; ino: the object it writes; src, ver: the object it copies
\* and the content it found there; sent, end: the upload stream as the panel
\* feeds it; alone (history): no other request met this one.
NoOp == [kind |-> "none", pc |-> "idle", from |-> None, to |-> None,
         over |-> FALSE, id |-> 0, ino |-> 0, src |-> None, ver |-> 0,
         sent |-> 0, end |-> "open", alone |-> TRUE]

Init ==
  /\ \E n \in Names : dir = [m \in Names |-> IF m = n THEN 0 ELSE None]
  /\ data = [i \in Ids |-> [of |-> i, got |-> IF i = 0 THEN Size ELSE 0, how |-> "placed"]]
  /\ op = [o \in Slots |-> NoOp]
  /\ made = 0 /\ crashes = 0

Active(o)   == op[o].pc # "idle"
Named(o)    == {op[o].from, op[o].to}
At(o, kinds, pc) == op[o].kind \in kinds /\ op[o].pc = pc
Go(o, pc)   == op' = [op EXCEPT ![o].pc = pc]
Ends(o)     == op' = [op EXCEPT ![o] = NoOp]
Exists(n)   == dir[n] # None
Counters    == UNCHANGED <<made, crashes>>

\* A request meets a new one on a name of both, or in a file that it is writing in
\* place and that, renamed since, one of the new one's names leads to.
Meets(p, names) ==
  \/ Named(p) \cap names # {}
  \/ op[p].pc = "fill" /\ \E n \in names : dir[n] = op[p].ino

-----------------------------------------------------------------------------
\* A request arrives.  A job waits while the worker has another one.
Request(o, kind, from, to, over) ==
  /\ ~Active(o) /\ made < MaxOps
  /\ kind \in Single <=> from = to
  /\ kind \in {"write", "delete", "rename"} \cup Jobs => ~over
  /\ kind \in Jobs => \A p \in Slots : Active(p) => op[p].kind \notin Jobs
  /\ LET met == {p \in Slots \ {o} : Active(p) /\ Meets(p, {from, to})} IN
     op' = [p \in Slots |->
       IF p = o
       THEN [NoOp EXCEPT !.kind = kind, !.pc = "begin", !.from = from, !.to = to,
                         !.over = over, !.id = made + 1, !.alone = met = {}]
       ELSE IF p \in met THEN [op[p] EXCEPT !.alone = FALSE] ELSE op[p]]
  /\ made' = made + 1
  /\ UNCHANGED <<dir, data, crashes>>

\* A request is refused or a step of it fails, a job is canceled, the caller's
\* context ends: the deferred removal takes the temporary file; what was written
\* in place stays as it is.
Fails(o) ==
  /\ Active(o)
  /\ Ends(o)
  /\ UNCHANGED <<dir, data>> /\ Counters

DaemonCrashes ==
  /\ crashes < MaxCrash
  /\ crashes' = crashes + 1
  /\ op' = [o \in Slots |-> NoOp]
  /\ UNCHANGED <<dir, data, made>>

-----------------------------------------------------------------------------
\* The panel forwards what it reads of the body (Size parts were declared),
\* half-closes the stream at its end, and cancels it when the browser leaves.
PanelSends(o) ==
  /\ op[o].kind = "upload" /\ op[o].end = "open" /\ op[o].sent < Size
  /\ op' = [op EXCEPT ![o].sent = @ + 1]
  /\ UNCHANGED <<dir, data>> /\ Counters

PanelCloses(o) ==
  /\ op[o].kind = "upload" /\ op[o].end = "open" /\ op[o].sent = Size
  /\ op' = [op EXCEPT ![o].end = "eof"]
  /\ UNCHANGED <<dir, data>> /\ Counters

BrowserLeaves(o) ==
  /\ op[o].kind = "upload" /\ op[o].end # "cut"
  /\ op' = [op EXCEPT ![o].end = "cut"]
  /\ UNCHANGED <<dir, data>> /\ Counters

\* The Daemon looks at the target and creates the temporary file.
UploadBegins_InPlace(o) ==
  /\ At(o, {"upload"}, "begin")
  /\ Exists(op[o].to) => op[o].over
  /\ data' = [data EXCEPT ![op[o].id].got = 0]
  /\ op' = [op EXCEPT ![o].pc = "recv", ![o].ino = op[o].id]
  /\ dir' = [dir EXCEPT ![op[o].to] = op[o].id]
  /\ Counters
UploadBegins(o) ==
  /\ At(o, {"upload"}, "begin")
  /\ Exists(op[o].to) => op[o].over
  /\ data' = [data EXCEPT ![op[o].id].got = 0]
  /\ op' = [op EXCEPT ![o].pc = "recv", ![o].ino = op[o].id]
  /\ UNCHANGED dir /\ Counters

\* A chunk is written unless the context was canceled.
UploadReceives(o) ==
  /\ At(o, {"upload"}, "recv")
  /\ op[o].end # "cut" /\ data[op[o].ino].got < op[o].sent
  /\ data' = [data EXCEPT ![op[o].ino].got = @ + 1]
  /\ UNCHANGED <<dir, op>> /\ Counters

\* End of the stream: what was received must be what was declared.
UploadEnds(o) ==
  /\ At(o, {"upload"}, "recv")
  /\ op[o].end = "eof" /\ data[op[o].ino].got = op[o].sent
  /\ data[op[o].ino].got = Size
  /\ Go(o, "commit")
  /\ UNCHANGED <<dir, data>> /\ Counters

\* Sync and Close are behind it; the rename replaces whatever is there now.
UploadCommits(o) ==
  /\ At(o, {"upload"}, "commit")
  /\ dir' = [dir EXCEPT ![op[o].to] = op[o].ino]
  /\ Ends(o)
  /\ UNCHANGED data /\ Counters

-----------------------------------------------------------------------------
\* Compress writes beside the target; the archive's writers are closed (the last
\* part: directory of a zip, trailer of a tar, tail of a gzip) by deferred calls
\* whose errors nobody looks at; then Sync, Close and the rename.
CompressBegins(o) ==
  /\ At(o, {"compress"}, "begin")
  /\ Exists(op[o].from)
  /\ op' = [op EXCEPT ![o].pc = "write", ![o].ino = op[o].id]
  /\ UNCHANGED <<dir, data>> /\ Counters

CompressWrites(o) ==
  /\ At(o, {"compress"}, "write") /\ data[op[o].ino].got < Size - 1
  /\ data' = [data EXCEPT ![op[o].ino].got = @ + 1]
  /\ UNCHANGED <<dir, op>> /\ Counters

CompressCloses(o) ==
  /\ At(o, {"compress"}, "write") /\ data[op[o].ino].got = Size - 1
  /\ \/ data' = [data EXCEPT ![op[o].ino].got = Size]
     \/ data' = [data EXCEPT ![op[o].ino].how = "unclosed"]
  /\ Go(o, "commit")
  /\ UNCHANGED dir /\ Counters

CompressCommits(o) ==
  /\ At(o, {"compress"}, "commit")
  /\ dir' = [dir EXCEPT ![op[o].to] = op[o].ino]
  /\ Ends(o)
  /\ UNCHANGED data /\ Counters

-----------------------------------------------------------------------------
\* Copy looks whether the target exists, and opens it later.
CopyChecks(o) ==
  /\ At(o, {"copy"}, "begin")
  /\ Exists(op[o].from) /\ (Exists(op[o].to) => op[o].over)
  /\ Go(o, "open")
  /\ UNCHANGED <<dir, data>> /\ Counters

\* Written in place: WriteFile, the entries of an archive, a copy, and a move to
\* another file system.  The target is opened with O_CREATE|O_TRUNC.
WriteOpens(o)   == At(o, {"write"}, "begin")
ExtractOpens(o) == At(o, {"extract"}, "begin") /\ Exists(op[o].from)
CopyOpens(o)    == At(o, {"copy", "move"}, "open")
Opens(o) ==
  /\ WriteOpens(o) \/ ExtractOpens(o) \/ CopyOpens(o)
  /\ LET ino == IF Exists(op[o].to) THEN dir[op[o].to] ELSE op[o].id
         src == IF CopyOpens(o) THEN dir[op[o].from] ELSE None
         ver == IF src # None THEN data[src].of ELSE op[o].id IN
     /\ dir'  = [dir EXCEPT ![op[o].to] = ino]
     /\ data' = [data EXCEPT ![ino] = [of |-> ver, got |-> 0, how |-> "inplace"]]
     /\ op'   = [op EXCEPT ![o].pc = "fill", ![o].ino = ino, ![o].src = src, ![o].ver = ver]
  /\ Counters

\* A copy reads to the end of what it opened, a mixture when that changed.
Available(o) == IF op[o].src = None THEN Size ELSE data[op[o].src].got
Fills(o) ==
  /\ op[o].pc = "fill" /\ data[op[o].ino].got < Available(o)
  /\ op[o].kind \in {"copy", "move"} => op[o].src # None
  /\ LET i == op[o].ino
         of == IF op[o].src = None \/ data[op[o].src].of = op[o].ver
               THEN data[i].of ELSE op[o].id IN
     data' = [data EXCEPT ![i] = [of |-> of, got |-> data[i].got + 1, how |-> data[i].how]]
  /\ UNCHANGED <<dir, op>> /\ Counters

Filled_ErrorIgnored(o) ==
  /\ op[o].pc = "fill"
  /\ op[o].kind # "move" => data[op[o].ino].got >= Available(o)
  /\ op[o].kind \in {"copy", "move"} => op[o].src # None
  /\ IF op[o].kind = "move" THEN Go(o, "drop") ELSE Ends(o)
  /\ UNCHANGED <<dir, data>> /\ Counters
Filled(o) ==
  /\ op[o].pc = "fill" /\ data[op[o].ino].got >= Available(o)
  /\ op[o].kind \in {"copy", "move"} => op[o].src # None
  /\ IF op[o].kind = "move" THEN Go(o, "drop") ELSE Ends(o)
  /\ UNCHANGED <<dir, data>> /\ Counters

-----------------------------------------------------------------------------
\* Move clears a target it may overwrite, and renames; where the rename fails
\* (another file system) it copies and removes the source.
MoveChecks(o) ==
  /\ At(o, {"move"}, "begin")
  /\ Exists(op[o].from) /\ (Exists(op[o].to) => op[o].over)
  /\ Go(o, IF Exists(op[o].to) THEN "clear" ELSE "rename")
  /\ UNCHANGED <<dir, data>> /\ Counters

MoveClears(o) ==
  /\ At(o, {"move"}, "clear")
  /\ dir' = [dir EXCEPT ![op[o].to] = None]
  /\ Go(o, "rename")
  /\ UNCHANGED data /\ Counters

RenameChecks(o) ==
  /\ At(o, {"rename"}, "begin")
  /\ Exists(op[o].from) /\ ~Exists(op[o].to)
  /\ Go(o, "rename")
  /\ UNCHANGED <<dir, data>> /\ Counters

Renames(o) ==
  /\ At(o, {"move", "rename"}, "rename") /\ Exists(op[o].from)
  /\ dir' = [dir EXCEPT ![op[o].to] = dir[op[o].from], ![op[o].from] = None]
  /\ Ends(o)
  /\ UNCHANGED data /\ Counters

MoveCrosses(o) ==
  /\ At(o, {"move"}, "rename")
  /\ Exists(op[o].from) /\ (Exists(op[o].to) => op[o].over)
  /\ Go(o, "open")
  /\ UNCHANGED <<dir, data>> /\ Counters

MoveDrops(o) ==
  /\ At(o, {"move"}, "drop")
  /\ dir' = [dir EXCEPT ![op[o].from] = None]
  /\ Ends(o)
  /\ UNCHANGED data /\ Counters

Deletes(o) ==
  /\ At(o, {"delete"}, "begin")
  /\ dir' = [dir EXCEPT ![op[o].to] = None]
  /\ Ends(o)
  /\ UNCHANGED data /\ Counters

Upload(o)   == \/ PanelSends(o) \/ PanelCloses(o) \/ BrowserLeaves(o)
               \/ UploadBegins(o) \/ UploadReceives(o) \/ UploadEnds(o) \/ UploadCommits(o)
Compress(o) == CompressBegins(o) \/ CompressWrites(o) \/ CompressCloses(o) \/ CompressCommits(o)
InPlace(o)  == CopyChecks(o) \/ Opens(o) \/ Fills(o) \/ Filled(o)
Entry(o)    == \/ MoveChecks(o) \/ MoveClears(o) \/ RenameChecks(o) \/ Renames(o)
               \/ MoveCrosses(o) \/ MoveDrops(o) \/ Deletes(o)

Next ==
  \/ \E o \in Slots :
       \/ \E kind \in Kinds, from, to \in Names, over \in BOOLEAN :
            Request(o, kind, from, to, over)
       \/ Upload(o) \/ Compress(o) \/ InPlace(o) \/ Entry(o) \/ Fails(o)
  \/ DaemonCrashes

Spec == Init /\ [][Next]_vars

-----------------------------------------------------------------------------
Content == [of : Ids, got : 0..Size, how : {"placed", "inplace", "unclosed"}]
Steps   == {"idle", "begin", "recv", "commit", "write", "open", "fill", "clear",
            "rename", "drop"}
OpType  == [kind : Kinds \cup {"none"}, pc : Steps,
            from : Names \cup {None}, to : Names \cup {None}, over : BOOLEAN,
            id : Ids, ino : Ids, src : Ids \cup {None}, ver : Ids,
            sent : 0..Size, end : {"open", "eof", "cut"}, alone : BOOLEAN]
TypeOK ==
  /\ dir \in [Names -> Ids \cup {None}]
  /\ data \in [Ids -> Content]
  /\ op \in [Slots -> OpType]
  /\ made \in Ids /\ crashes \in 0..MaxCrash

\* A file that an upload or a compress job put under a name is whole, whoever
\* broke off, failed or died, and wherever it was moved since ("绝不能把半截文件
\* 改名上去", fileops.go:445; archive.go:104).  Files that some request wrote in
\* place are not covered, nor archives whose closing failed unnoticed.
ArrivesWhole ==
  \A n \in Names : Exists(n) /\ data[dir[n]].how = "placed" => data[dir[n]].got = Size

\* The same with the archives whose closing failed.
ArchivesAreWhole ==
  \A n \in Names : Exists(n) /\ data[dir[n]].how # "inplace" => data[dir[n]].got = Size

\* What keeps it true.  Requests have identities of their own, and an upload's or
\* a job's file object stays out of the directory until its commit, where it is
\* complete.
OwnIds ==
  /\ \A n \in Names : Exists(n) => dir[n] <= made
  /\ \A o \in Slots : IF Active(o) THEN op[o].id <= made /\ Named(o) \subseteq Names
                                   ELSE op[o] = NoOp
  /\ \A o, p \in Slots : Active(o) /\ Active(p) /\ o # p => op[o].id # op[p].id

Hidden ==
  \A o \in Slots : Active(o) /\ op[o].kind \in {"upload", "compress"} =>
    /\ \A n \in Names : dir[n] # op[o].id
    /\ op[o].pc \in {"recv", "write", "commit"} => op[o].ino = op[o].id

Complete ==
  \A o \in Slots :
    /\ At(o, {"upload"}, "commit") => data[op[o].id].got = Size
    /\ At(o, {"compress"}, "commit") /\ data[op[o].id].how = "placed"
         => data[op[o].id].got = Size

IInv == TypeOK /\ OwnIds /\ Hidden /\ Complete /\ ArrivesWhole

Keepers(v) == {n \in Names : Exists(n) /\ data[dir[n]].of = v /\ data[dir[n]].got = Size}

\* What a request may do to a file it was asked to replace or remove: an upload
\* and a compress job only put their own file in its place.
MayReplace(o, n) ==
  /\ op[o].to = n
  /\ \/ op[o].kind \in {"write", "extract", "delete"}
     \/ op[o].kind \in {"copy", "move"} /\ op[o].over
     \/ op[o].kind = "upload" /\ op[o].over /\ dir'[n] = op[o].id
     \/ op[o].kind = "compress" /\ dir'[n] = op[o].id

\* No content disappears from the instance unless a request was asked to replace
\* or remove it, or two requests met on its name or in its file: a move, a rename, a copy or an
\* upload that fails, is refused or dies half-way loses neither file.
NothingLostUnasked ==
  [][\A v \in Ids : Keepers(v) # {} /\ Keepers(v)' = {}
       => \E n \in Keepers(v), o \in Slots :
            n \in Named(o) /\ (MayReplace(o, n) \/ ~op[o].alone)]_vars

\* The same without the exception for requests that meet.
NothingLost ==
  [][\A v \in Ids : Keepers(v) # {} /\ Keepers(v)' = {}
       => \E n \in Keepers(v), o \in Slots : MayReplace(o, n)]_vars
=============================================================================
