------------------------------- MODULE Upload -------------------------------
(***************************************************************************)
(* Uploading a file (src/src/clogic.cpp: uploadFile, fileContentRq,        *)
(* continueUpload).  The database tells which files exist and which are    *)
(* complete, the disk holds the bytes, and a table of sessions in memory   *)
(* says where each transfer in progress is.  The three are updated by      *)
(* separate calls of handlers that run at the same time in the workers of  *)
(* the pool, so each call is an action: one SQL statement (CMysql holds    *)
(* its lock for one statement), one call on the file, one access to the    *)
(* locked map.                                                             *)
(*                                                                         *)
(* The client is outside the repository; it is modelled by what the        *)
(* protocol in packdef.h asks of it: one block at a time, the next one     *)
(* after the answer, the same one again after a failure, and the resume    *)
(* protocol after it lost its connection.                                  *)
(***************************************************************************)
EXTENDS Naturals, Integers, FiniteSets, Sequences

CONSTANTS
  Transfers,    \* the uploads, each a (userid, timestamp) of a client
  user_dir,     \* the user and directory each transfer uploads to
  md5,          \* the file it uploads
  user_time,    \* the key its session has in the map
  timestamp,    \* the key continueUpload looks up
  Size,         \* bytes of a file
  Block,        \* bytes of a block (_DEF_BUFFER)
  Slots,        \* the requests that can be in the server at a time
  ShortWrites,  \* may write store a part of a block?
  FaultKinds,   \* what may go wrong, of AllFaults
  MaxFaults     \* how often something goes wrong (a bound)

(* write: it fails with -1; call: a statement or an open fails; reconnect: *)
(* a client gives up its connection; crash: the server is restarted.       *)
AllFaults == {"write", "call", "reconnect", "crash"}

ASSUME UploadAssumption ==
  /\ Size \in Nat /\ Block \in Nat \ {0}
  /\ ShortWrites \in BOOLEAN
  /\ FaultKinds \subseteq AllFaults /\ MaxFaults \in Nat

VARIABLES
  t_file,       \* rows of the database, in the order of f_id: md5, path, state
  t_user_file,  \* rows of the database: who has which file in which directory
  disk,         \* the bytes of each file
  m_mapTimstampToFileinfo,
  info,         \* the FileInfo objects created so far
  run,          \* the handler in each slot
  client,
  faults        \* how many faults are left, and of which kinds there were some

db     == <<t_file, t_user_file>>
memory == <<m_mapTimstampToFileinfo, info>>
vars   == <<db, disk, memory, run, client, faults>>

path(k) == <<user_dir[k], md5[k]>>
Paths == {path(k) : k \in Transfers}
Keys  == {user_time[k] : k \in Transfers} \cup {timestamp[k] : k \in Transfers}

(* Byte i of the file with a given md5; 0 fills a hole.                     *)
Byte(m, i) == [file |-> m, at |-> i]
Hole == [file |-> "none", at |-> 0]
Whole(m) == [i \in 1..Size |-> Byte(m, i)]

FirstOf(S) == CHOOSE i \in S : \A j \in S : i <= j
Longer(m, n) == IF m >= n THEN m ELSE n

Fault(kind) ==
  /\ kind \in FaultKinds /\ faults.left > 0
  /\ faults' = [left |-> faults.left - 1, seen |-> faults.seen \cup {kind}]

-----------------------------------------------------------------------------
(* Handlers.  lo and hi are the bytes of the block a request brings.        *)

Idle == [fn |-> "none"]
Request(fn, k, lo, hi) ==
  [fn |-> fn, k |-> k, epoch |-> client[k].epoch, step |-> "start",
   fid |-> client[k].fid, lo |-> lo, hi |-> hi, obj |-> 0, n |-> 0]

Submit(request) ==
  \E s \in Slots : /\ run[s] = Idle
                   /\ run' = [run EXCEPT ![s] = request]

Doing(s, fn, step) == run[s] # Idle /\ run[s].fn = fn /\ run[s].step = step
Goto(s, step) == run' = [run EXCEPT ![s].step = step]
Return(s) == run' = [run EXCEPT ![s] = Idle]
Key_timestampOnly(s) == timestamp[run[s].k]
Key(s) == user_time[run[s].k]

(* A select, an insert or an open that fails: the handler prints a message  *)
(* and returns, without an answer and without undoing what it has done.     *)
CallFails(s) ==
  /\ \/ \E step \in {"start", "quick", "open", "insertFile", "selectId", "insertRel"} :
          Doing(s, "uploadFile", step)
     \/ \E step \in {"select", "reopen"} : Doing(s, "continueUpload", step)
  /\ Fault("call")
  /\ Return(s)
  /\ UNCHANGED <<db, disk, memory, client>>

-----------------------------------------------------------------------------
(* uploadFile.                                                              *)

Complete(m) == {i \in 1..Len(t_file) : t_file[i].md5 = m /\ t_file[i].state = 1}

uploadFile_quick(s) ==
  /\ Doing(s, "uploadFile", "start")
  /\ LET rows == Complete(md5[run[s].k])
     IN  run' = [run EXCEPT ![s].step = IF rows = {} THEN "open" ELSE "quick",
                            ![s].fid = IF rows = {} THEN 0 ELSE FirstOf(rows)]
  /\ UNCHANGED <<db, disk, memory, client, faults>>

Relate(s, fid) ==
  t_user_file' = t_user_file \cup {[user_dir |-> user_dir[run[s].k], fid |-> fid]}

uploadFile_quickInsert(s) ==
  /\ Doing(s, "uploadFile", "quick")
  /\ Relate(s, run[s].fid)
  /\ Goto(s, "replyQuick")
  /\ UNCHANGED <<t_file, disk, memory, client, faults>>

FileInfo(p, fid) == [path |-> p, fid |-> fid, pos |-> 0, off |-> 0, alive |-> TRUE]
NewSession(s, p, fid) ==
  /\ info' = Append(info, FileInfo(p, fid))
  /\ m_mapTimstampToFileinfo' = [m_mapTimstampToFileinfo EXCEPT ![Key(s)] = Len(info) + 1]

uploadFile_open(s) ==
  /\ Doing(s, "uploadFile", "open")
  /\ LET p == path(run[s].k)
     IN  /\ disk' = [disk EXCEPT ![p] = <<>>]
         /\ NewSession(s, p, 0)
  /\ run' = [run EXCEPT ![s].step = "insertFile", ![s].obj = Len(info) + 1]
  /\ UNCHANGED <<db, client, faults>>

uploadFile_insertFile(s) ==
  /\ Doing(s, "uploadFile", "insertFile")
  /\ t_file' = Append(t_file, [md5 |-> md5[run[s].k], path |-> path(run[s].k), state |-> 0])
  /\ Goto(s, "selectId")
  /\ UNCHANGED <<t_user_file, disk, memory, client, faults>>

uploadFile_selectId(s) ==
  /\ Doing(s, "uploadFile", "selectId")
  /\ LET k == run[s].k
         fid == FirstOf({i \in 1..Len(t_file) : t_file[i].md5 = md5[k] /\ t_file[i].path = path(k)})
     IN  /\ info' = [info EXCEPT ![run[s].obj].fid = fid]
         /\ run' = [run EXCEPT ![s].step = "insertRel", ![s].fid = fid]
  /\ UNCHANGED <<db, disk, m_mapTimstampToFileinfo, client, faults>>

uploadFile_insertRel(s) ==
  /\ Doing(s, "uploadFile", "insertRel")
  /\ Relate(s, run[s].fid)
  /\ Goto(s, "reply")
  /\ UNCHANGED <<t_file, disk, memory, client, faults>>

-----------------------------------------------------------------------------
(* fileContentRq.                                                           *)

fileContentRq_find(s) ==
  /\ Doing(s, "fileContentRq", "start")
  /\ LET file == m_mapTimstampToFileinfo[Key(s)]
     IN  IF file = 0 \/ run[s].hi <= run[s].lo
         THEN Return(s)
         ELSE run' = [run EXCEPT ![s].step = "write", ![s].obj = file]
  /\ UNCHANGED <<db, disk, memory, client, faults>>

Written(file, off, bytes) ==
  [i \in 1..Longer(Len(file), off + Len(bytes)) |->
     IF off < i /\ i <= off + Len(bytes) THEN bytes[i - off]
     ELSE IF i <= Len(file) THEN file[i] ELSE Hole]

len(s) == run[s].hi - run[s].lo

(* write(fileFd, content, len) stores n bytes, or fails with -1; it fails   *)
(* when another handler has closed the file.                                *)
fileContentRq_write(s) ==
  /\ Doing(s, "fileContentRq", "write")
  /\ LET o == run[s].obj
         f == info[o]
     IN  \/ \E n \in IF ShortWrites THEN 1..len(s) ELSE {len(s)} :
              /\ f.alive
              /\ disk' = [disk EXCEPT ![f.path] = Written(@, f.off,
                            [i \in 1..n |-> Byte(md5[run[s].k], run[s].lo + i)])]
              /\ info' = [info EXCEPT ![o].off = @ + n]
              /\ run' = [run EXCEPT ![s].step = IF n = len(s) THEN "written" ELSE "failed",
                                    ![s].n = n]
              /\ UNCHANGED faults
         \/ /\ IF f.alive THEN Fault("write") ELSE UNCHANGED faults
            /\ run' = [run EXCEPT ![s].step = "failed", ![s].n = -1]
            /\ UNCHANGED <<disk, info>>
  /\ UNCHANGED <<db, m_mapTimstampToFileinfo, client>>

SeekBack_forgotten(off, n) == off
SeekBack(off, n) == off - n

fileContentRq_failed(s) ==
  /\ Doing(s, "fileContentRq", "failed")
  /\ info' = [info EXCEPT ![run[s].obj].off = SeekBack(@, run[s].n)]
  /\ run' = [run EXCEPT ![s].step = "reply", ![s].n = 0]
  /\ UNCHANGED <<db, disk, m_mapTimstampToFileinfo, client, faults>>

(* file->pos += len reads and writes pos without a lock.                    *)
fileContentRq_read(s) ==
  /\ Doing(s, "fileContentRq", "written")
  /\ run' = [run EXCEPT ![s].step = "advance", ![s].n = info[run[s].obj].pos + @]
  /\ UNCHANGED <<db, disk, memory, client, faults>>

AtEnd_early(pos) == pos + Block >= Size
AtEnd_never(pos) == pos > Size
AtEnd(pos) == pos >= Size

fileContentRq_advance(s) ==
  /\ Doing(s, "fileContentRq", "advance")
  /\ info' = [info EXCEPT ![run[s].obj].pos = run[s].n]
  /\ run' = [run EXCEPT ![s].step = IF AtEnd(run[s].n) THEN "update" ELSE "reply",
                        ![s].n = 1]
  /\ UNCHANGED <<db, disk, m_mapTimstampToFileinfo, client, faults>>

(* A failed update is printed and otherwise ignored.                        *)
fileContentRq_update(s) ==
  /\ Doing(s, "fileContentRq", "update")
  /\ \/ /\ t_file' = IF run[s].fid \in 1..Len(t_file)
                     THEN [t_file EXCEPT ![run[s].fid].state = 1] ELSE t_file
        /\ UNCHANGED faults
     \/ /\ Fault("call")
        /\ UNCHANGED t_file
  /\ Goto(s, "close")
  /\ UNCHANGED <<t_user_file, disk, memory, client>>

fileContentRq_close_keepsEntry(s) ==
  /\ Doing(s, "fileContentRq", "close")
  /\ info' = [info EXCEPT ![run[s].obj].alive = FALSE]
  /\ Goto(s, "reply")
  /\ UNCHANGED <<db, disk, m_mapTimstampToFileinfo, client, faults>>
(* close, erase, delete: a handler that has found the FileInfo before goes  *)
(* on with it, one that looks for it later finds nothing.                   *)
fileContentRq_close(s) ==
  /\ Doing(s, "fileContentRq", "close")
  /\ info' = [info EXCEPT ![run[s].obj].alive = FALSE]
  /\ m_mapTimstampToFileinfo' = [m_mapTimstampToFileinfo EXCEPT ![Key(s)] = 0]
  /\ Goto(s, "reply")
  /\ UNCHANGED <<db, disk, client, faults>>

-----------------------------------------------------------------------------
(* continueUpload.                                                          *)

continueUpload_find(s) ==
  /\ Doing(s, "continueUpload", "start")
  /\ LET file == m_mapTimstampToFileinfo[timestamp[run[s].k]]
     IN  run' = [run EXCEPT ![s].step = IF file = 0 THEN "select" ELSE "seek",
                            ![s].obj = file]
  /\ UNCHANGED <<db, disk, memory, client, faults>>

continueUpload_select(s) ==
  /\ Doing(s, "continueUpload", "select")
  /\ IF [user_dir |-> user_dir[run[s].k], fid |-> run[s].fid] \in t_user_file
     THEN Goto(s, "reopen") ELSE Return(s)
  /\ UNCHANGED <<db, disk, memory, client, faults>>

continueUpload_open(s) ==
  /\ Doing(s, "continueUpload", "reopen")
  /\ NewSession(s, t_file[run[s].fid].path, run[s].fid)
  /\ run' = [run EXCEPT ![s].step = "seek", ![s].obj = Len(info) + 1]
  /\ UNCHANGED <<db, disk, client, faults>>

SeekEnd_posOnly(file) == [file EXCEPT !.pos = Len(disk[file.path])]
SeekEnd(file) == [file EXCEPT !.pos = Len(disk[file.path]), !.off = Len(disk[file.path])]

continueUpload_seek(s) ==
  /\ Doing(s, "continueUpload", "seek")
  /\ LET o == run[s].obj
     IN  /\ info' = [info EXCEPT ![o] = SeekEnd(@)]
         /\ run' = [run EXCEPT ![s].step = "reply", ![s].n = Len(disk[info[o].path])]
  /\ UNCHANGED <<db, disk, m_mapTimstampToFileinfo, client, faults>>

-----------------------------------------------------------------------------
(* The client, and the answers it gets.  An answer to a connection it has   *)
(* given up is lost.                                                        *)

sendUpload(k) ==
  /\ client[k].phase = "new"
  /\ client' = [client EXCEPT ![k].phase = "asked"]
  /\ Submit(Request("uploadFile", k, 0, 0))
  /\ UNCHANGED <<db, disk, memory, faults>>

sendBlock(k) ==
  /\ client[k].phase = "sending"
  /\ client' = [client EXCEPT ![k].phase = "waiting"]
  /\ LET lo == client[k].pos
         hi == IF lo + Block <= Size THEN lo + Block ELSE Size
     IN  Submit(Request("fileContentRq", k, lo, hi))
  /\ UNCHANGED <<db, disk, memory, faults>>

sendContinue(k) ==
  /\ client[k].phase = "offline"
  /\ client' = [client EXCEPT ![k].phase = "resuming"]
  /\ Submit(Request("continueUpload", k, 0, 0))
  /\ UNCHANGED <<db, disk, memory, faults>>

(* A client resumes with the file id it was given; without one it gives up, *)
(* and trying again is another transfer.                                    *)
Working == {"asked", "sending", "waiting", "resuming"}
Offline(c) == [c EXCEPT !.epoch = @ + 1,
                        !.phase = IF c.fid = 0 THEN "gone" ELSE "offline"]

disconnect(k) ==
  /\ client[k].phase \in Working
  /\ client' = [client EXCEPT ![k] = Offline(@)]
  /\ Fault("reconnect")
  /\ UNCHANGED <<db, disk, memory, run>>

(* A request that had not been received when its connection went away.      *)
lost(s) ==
  /\ run[s] # Idle /\ run[s].step = "start"
  /\ run[s].epoch # client[run[s].k].epoch
  /\ Return(s)
  /\ UNCHANGED <<db, disk, memory, client, faults>>

AllSent(pos) == IF pos >= Size /\ Size > 0 THEN "done" ELSE "sending"

Answered(c, r) ==
  CASE r.step = "replyQuick" -> [c EXCEPT !.phase = "done", !.fid = r.fid]
    [] r.step = "reply" /\ r.fn = "uploadFile" ->
         [c EXCEPT !.phase = "sending", !.fid = r.fid, !.pos = 0]
    [] r.step = "reply" /\ r.fn = "fileContentRq" ->
         IF r.n = 1 THEN [c EXCEPT !.phase = AllSent(r.hi), !.pos = r.hi]
                    ELSE [c EXCEPT !.phase = "sending"]
    [] r.step = "reply" /\ r.fn = "continueUpload" ->
         [c EXCEPT !.phase = AllSent(r.n), !.pos = r.n]

SendData(s) ==
  /\ run[s] # Idle /\ run[s].step \in {"reply", "replyQuick"}
  /\ LET k == run[s].k
     IN  client' = IF run[s].epoch = client[k].epoch
                   THEN [client EXCEPT ![k] = Answered(@, run[s])] ELSE client
  /\ Return(s)
  /\ UNCHANGED <<db, disk, memory, faults>>

(* The process ends and is started again: the database and the disk stay.   *)
crash ==
  /\ Fault("crash")
  /\ m_mapTimstampToFileinfo' = [key \in Keys |-> 0]
  /\ info' = <<>>
  /\ run' = [s \in Slots |-> Idle]
  /\ client' = [k \in Transfers |->
                  IF client[k].phase \in Working THEN Offline(client[k]) ELSE client[k]]
  /\ UNCHANGED <<db, disk>>

-----------------------------------------------------------------------------
Init ==
  /\ t_file = <<>> /\ t_user_file = {}
  /\ disk = [p \in Paths |-> <<>>]
  /\ m_mapTimstampToFileinfo = [key \in Keys |-> 0]
  /\ info = <<>>
  /\ run = [s \in Slots |-> Idle]
  /\ client = [k \in Transfers |-> [phase |-> "new", fid |-> 0, pos |-> 0, epoch |-> 0]]
  /\ faults = [left |-> MaxFaults, seen |-> {}]

uploadFile(s) ==
  \/ uploadFile_quick(s) \/ uploadFile_quickInsert(s) \/ uploadFile_open(s)
  \/ uploadFile_insertFile(s) \/ uploadFile_selectId(s) \/ uploadFile_insertRel(s)

fileContentRq(s) ==
  \/ fileContentRq_find(s) \/ fileContentRq_write(s) \/ fileContentRq_failed(s)
  \/ fileContentRq_read(s) \/ fileContentRq_advance(s)
  \/ fileContentRq_update(s) \/ fileContentRq_close(s)

continueUpload(s) ==
  \/ continueUpload_find(s) \/ continueUpload_select(s)
  \/ continueUpload_open(s) \/ continueUpload_seek(s)

Handler(s) == uploadFile(s) \/ fileContentRq(s) \/ continueUpload(s) \/ SendData(s)

Client(k) == sendUpload(k) \/ sendBlock(k) \/ sendContinue(k)

Next == \/ \E s \in Slots : Handler(s) \/ CallFails(s) \/ lost(s)
        \/ \E k \in Transfers : Client(k) \/ disconnect(k)
        \/ crash

Spec == Init /\ [][Next]_vars

(* Workers run the handlers they have started, and a client that wants its  *)
(* file uploaded goes on with the protocol; nothing forces an error.        *)
Fairness == /\ \A s \in Slots : WF_vars(Handler(s))
            /\ \A k \in Transfers : WF_vars(Client(k))

FairSpec == Spec /\ Fairness

-----------------------------------------------------------------------------
(* No write has failed with -1, and no client has resumed a transfer while  *)
(* its old request may still be in the server.                              *)
Undisturbed == faults.seen \cap {"write", "reconnect"} = {}

(* What the database, the disk and the handlers hold is of the kind the     *)
(* code stores there; undisturbed, a file never grows past the size         *)
(* announced for it.                                                        *)
TypeOK ==
  /\ \A i \in 1..Len(t_file) :
       t_file[i] \in [md5 : {md5[k] : k \in Transfers}, path : Paths, state : {0, 1}]
  /\ t_user_file \subseteq [user_dir : {user_dir[k] : k \in Transfers}, fid : 1..Len(t_file)]
  /\ \A key \in Keys : m_mapTimstampToFileinfo[key] \in 0..Len(info)
  /\ \A o \in 1..Len(info) : info[o].pos \in Nat /\ info[o].off \in Nat
  /\ Undisturbed =>
       /\ \A p \in Paths : Len(disk[p]) <= Size
       /\ \A o \in 1..Len(info) : info[o].pos <= Size /\ info[o].off <= Size

(* A file that the database calls complete is whole on the disk, byte by    *)
(* byte: other users get it without sending it and everybody downloads it.  *)
CompleteFileIsWhole ==
  \A i \in 1..Len(t_file) :
    t_file[i].state = 1 => disk[t_file[i].path] = Whole(t_file[i].md5)

(* The user's list of files shows the file.                                 *)
Listed(k) ==
  \E r \in t_user_file : /\ r.user_dir = user_dir[k]
                         /\ t_file[r.fid].md5 = md5[k] /\ t_file[r.fid].state = 1

(* A client whose last block was acknowledged has the file in its list.     *)
DoneMeansListed == \A k \in Transfers : client[k].phase = "done" => Listed(k)

(* Between two requests a session's pos, the offset of its descriptor and   *)
(* the end of what is stored agree, so that the next block lands where it   *)
(* belongs; a short write may leave bytes beyond, which are written again.  *)
InUse(o) == \E s \in Slots : run[s] # Idle /\ run[s].obj = o /\ run[s].step # "reply"
PositionsAgree ==
  Undisturbed =>
    \A key \in Keys :
      LET o == m_mapTimstampToFileinfo[key]
      IN  o # 0 /\ ~InUse(o) =>
            /\ info[o].pos = info[o].off
            /\ info[o].off <= Len(disk[info[o].path])

(* The map never leads to a FileInfo that was deleted, whatever fails and   *)
(* however requests of one transfer overtake one another.                   *)
MapHoldsLiveSessions ==
  \A key \in Keys : LET o == m_mapTimstampToFileinfo[key]
                    IN  o # 0 => info[o].alive

(* A file only ever holds bytes of its own transfer: users whose clients    *)
(* chose the same timestamp do not write into each other's files, whatever  *)
(* fails.                                                                   *)
OnlyOwnBytes ==
  \A p \in Paths : \A i \in 1..Len(disk[p]) : disk[p][i] = Hole \/ <<p[1], disk[p][i].file>> = p

(* MyMap::find gives the FileInfo out and lets go of the lock.  As long as  *)
(* a client never resumes beside its own old request, no handler goes on    *)
(* with a FileInfo that another one has deleted.                            *)
NoUseAfterDelete ==
  "reconnect" \notin faults.seen =>
    \A s \in Slots :
      (run[s] # Idle /\ run[s].step \in {"write", "failed", "written", "advance", "close", "seek"})
        => info[run[s].obj].alive

(* Whatever fails, rows, bytes and sessions are within the bounds announced *)
(* for them, and a session that was deleted is not reached again.           *)
SessionsIntact == TypeOK /\ MapHoldsLiveSessions /\ NoUseAfterDelete

(* What is stored of a file, and what its sender knows, as Transfer sees it.*)
GoodPrefix(file, m) ==
  Cardinality({n \in 1..Len(file) : \A i \in 1..n : file[i] = Byte(m, i)})
Sender == INSTANCE Transfer WITH
  Copies <- Transfers,
  stored <- [k \in Transfers |-> GoodPrefix(disk[path(k)], md5[k])],
  acked  <- [k \in Transfers |-> client[k].pos],
  whole  <- [k \in Transfers |-> \E i \in 1..Len(t_file) :
                                   t_file[i].path = path(k) /\ t_file[i].state = 1],
  broken <- ~Undisturbed

(* Uploading keeps the promises of Transfer: no byte that was stored, or    *)
(* that a client was told of, is lost by short writes, failing calls and    *)
(* restarts between any two steps of the handlers.                          *)
KeepsPromises == Sender!Spec

(* An upload the server has accepted is eventually in the user's list.      *)
UploadCompletes == \A k \in Transfers : client[k].phase = "sending" ~> Listed(k)
=============================================================================
