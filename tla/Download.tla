------------------------------ MODULE Download ------------------------------
(***************************************************************************)
(* Downloading a file or a folder (src/src/clogic.cpp: downloadFile,       *)
(* downloadFileFolder, downloadFolderByDir, downloadFileHeadRs,            *)
(* fileContentRs, continueDownload).  The server announces each file by a  *)
(* header; the client's answers drive the transfer.  Between two answers   *)
(* all the server knows is the session: the FileInfo that the map has      *)
(* under the user's timestamp.  A folder opens one session after another   *)
(* under timestamps that it finds free, while the client already answers   *)
(* the first ones from other workers of the pool.  Each access to the map, *)
(* each use of a session and each packet sent is an action.                *)
(*                                                                         *)
(* The client is outside the repository.  It answers each header and each  *)
(* block it is sent, also a block without bytes; it asks for the same      *)
(* block again when it could not store it; and after it lost its           *)
(* connection it asks for the bytes it does not have yet.                  *)
(***************************************************************************)
EXTENDS Integers, FiniteSets, Sequences

CONSTANTS
  Files,       \* the files (f_type = "file")
  Size,        \* the bytes of each
  Complete,    \* those with f_state = 1
  entries,     \* what each folder holds, in the order of the select
  Requests,    \* what the client asks for: <<timestamp, file or folder>>
  userid,      \* the client
  LastTime,    \* a search for a free timestamp stops here (a bound)
  Block,       \* bytes of a block (_DEF_BUFFER)
  Slots,       \* the requests that can be in the server at a time
  FaultKinds,  \* what may go wrong, of AllFaults
  MaxFaults    \* how often something goes wrong (a bound)

Folders == DOMAIN entries
Times   == 0..LastTime

(* call: a select or an open fails; read: a read fails with -1; refuse: the *)
(* client could not store a block; reconnect: it loses its connection;      *)
(* crash: the server is restarted.                                          *)
AllFaults == {"call", "read", "refuse", "reconnect", "crash"}

ASSUME DownloadAssumption ==
  /\ Size \in [Files -> Nat] /\ Complete \subseteq Files
  /\ \A d \in Folders : entries[d] \in Seq(Files \cup Folders)
  /\ Requests \subseteq Times \X (Files \cup Folders)
  /\ userid \in Nat \ {0} /\ Block \in Nat \ {0} /\ LastTime \in Nat
  /\ FaultKinds \subseteq AllFaults /\ MaxFaults \in Nat

VARIABLES
  m_mapTimstampToFileinfo,
  info,      \* the FileInfo objects created so far
  run,       \* the handler in each slot
  epoch,     \* the connections the client has had
  asked,     \* the requests it has sent
  client,    \* the transfer it has under each timestamp
  received,  \* the files it has whole
  faults     \* how many faults are left, and of which kinds there were some

memory == <<m_mapTimstampToFileinfo, info>>
user   == <<epoch, asked, client, received>>
vars   == <<memory, run, user, faults>>

user_time(t) == <<userid, t>>
Keys == {0, userid} \X Times

Bytes(f, lo, hi) == [i \in 1..(hi - lo) |-> <<f, lo + i>>]
Whole(f) == Bytes(f, 0, Size[f])

Fault(kind) ==
  /\ kind \in FaultKinds /\ faults.left > 0
  /\ faults' = [left |-> faults.left - 1, seen |-> faults.seen \cup {kind}]

-----------------------------------------------------------------------------
(* Handlers.  frames are the calls of downloadFolderByDir in progress: the  *)
(* timestamp each was given and the entries it has not looked at.           *)

Idle == [step |-> "none"]
Request(step, t, f) ==
  [step |-> step, epoch |-> epoch, time |-> t, file |-> f, frames |-> <<>>,
   obj |-> 0, bytes |-> <<>>, n |-> 0, result |-> TRUE]

Submit(request) ==
  \E s \in Slots : run[s] = Idle /\ run' = [run EXCEPT ![s] = request]

Doing(s, step) == run[s].step = step
Goto(s, step) == run' = [run EXCEPT ![s].step = step]
Return(s) == run' = [run EXCEPT ![s] = Idle]

Session(s) == m_mapTimstampToFileinfo[user_time(run[s].time)]

(* downloadFile and downloadFolderByDir return to the folder that called    *)
(* them, if one did.                                                        *)
Back(s, frames) ==
  run' = [run EXCEPT ![s] = IF frames = <<>> THEN Idle
                            ELSE [@ EXCEPT !.step = "next", !.frames = frames]]

-----------------------------------------------------------------------------
(* downloadFileFolder and downloadFolderByDir.                              *)

downloadFolderByDir_select(s) ==
  /\ Doing(s, "downloadFolderByDir")
  /\ LET frame == [time |-> run[s].time, rest |-> entries[run[s].file]]
     IN  \/ /\ Back(s, <<frame>> \o run[s].frames)
            /\ UNCHANGED faults
         \/ /\ Fault("call")
            /\ Back(s, run[s].frames)
  /\ UNCHANGED <<memory, user>>

downloadFolderByDir_next(s) ==
  /\ Doing(s, "next")
  /\ LET frame == Head(run[s].frames)
         callers == Tail(run[s].frames)
     IN  IF frame.rest = <<>>
         THEN Back(s, callers)
         ELSE /\ frame.time < LastTime
              /\ run' = [run EXCEPT ![s].step = "find",
                                    ![s].time = frame.time + 1,
                                    ![s].file = Head(frame.rest),
                                    ![s].frames = <<[frame EXCEPT !.rest = Tail(@)]>> \o callers]
  /\ UNCHANGED <<memory, user, faults>>

Taken_notAsked(t) == FALSE
Taken(t) == m_mapTimstampToFileinfo[user_time(t)] # 0

(* One pass of the loop that looks for a timestamp without a session; a     *)
(* call for a folder does not take the one it finds.                        *)
downloadFolderByDir_find(s) ==
  /\ Doing(s, "find")
  /\ IF Taken(run[s].time)
     THEN /\ run[s].time < LastTime
          /\ run' = [run EXCEPT ![s].time = @ + 1]
     ELSE run' = [run EXCEPT ![s].step = IF run[s].file \in Folders
                                         THEN "downloadFolderByDir" ELSE "downloadFile"]
  /\ UNCHANGED <<memory, user, faults>>

-----------------------------------------------------------------------------
(* downloadFile.  The session is inserted whatever the map has under its    *)
(* timestamp.                                                               *)

downloadFile_select(s) ==
  /\ Doing(s, "downloadFile")
  /\ \/ /\ IF run[s].file \in Complete THEN Goto(s, "open") ELSE Back(s, run[s].frames)
        /\ UNCHANGED faults
     \/ /\ Fault("call")
        /\ Back(s, run[s].frames)
  /\ UNCHANGED <<memory, user>>

FileInfo(s, pos) ==
  [file |-> run[s].file, time |-> run[s].time, pos |-> pos, off |-> 0, alive |-> TRUE]
NewSession(s, pos) ==
  /\ info' = Append(info, FileInfo(s, pos))
  /\ m_mapTimstampToFileinfo' =
       [m_mapTimstampToFileinfo EXCEPT ![user_time(run[s].time)] = Len(info) + 1]

downloadFile_open(s) ==
  /\ Doing(s, "open")
  /\ \/ /\ NewSession(s, 0)
        /\ Goto(s, "IsExist")
        /\ UNCHANGED faults
     \/ /\ Fault("call")
        /\ Back(s, run[s].frames)
        /\ UNCHANGED memory
  /\ UNCHANGED user

downloadFile_IsExist(s) ==
  /\ Doing(s, "IsExist")
  /\ IF Session(s) = 0 THEN Back(s, run[s].frames) ELSE Goto(s, "header")
  /\ UNCHANGED <<memory, user, faults>>

-----------------------------------------------------------------------------
(* downloadFileHeadRs and fileContentRs.                                    *)

find(s, reply, step) ==
  /\ Doing(s, reply)
  /\ run' = [run EXCEPT ![s] = IF Session(s) = 0 THEN Idle
                               ELSE [@ EXCEPT !.step = step, !.obj = Session(s)]]
  /\ UNCHANGED <<memory, user, faults>>

downloadFileHeadRs_find(s) == find(s, "downloadFileHeadRs", "first")
fileContentRs_find(s) == find(s, "fileContentRs", "advance")

(* What read(fileFd, content, _DEF_BUFFER) returns at an offset.            *)
Read(f, off) ==
  Bytes(f, off, IF off + Block <= Size[f] THEN off + Block
                ELSE IF off <= Size[f] THEN Size[f] ELSE off)

(* A read of a closed descriptor fails as well.                             *)
ReadFails(o) == IF info[o].alive THEN Fault("read") ELSE UNCHANGED faults

downloadFileHeadRs_read(s) ==
  /\ Doing(s, "first")
  /\ LET o == run[s].obj
         bytes == Read(info[o].file, info[o].off)
     IN  \/ /\ info[o].alive
            /\ info' = [info EXCEPT ![o].off = @ + Len(bytes)]
            /\ run' = [run EXCEPT ![s].step = "block", ![s].bytes = bytes,
                                  ![s].n = Len(bytes)]
            /\ UNCHANGED faults
         \/ /\ ReadFails(o)
            /\ Return(s)
            /\ UNCHANGED info
  /\ UNCHANGED <<m_mapTimstampToFileinfo, user>>

(* lseek does not go to before the start of a file. *)
SeekBack_forgotten(off, n) == off
SeekBack(off, n) == IF n <= off THEN off - n ELSE off

(* A block that the client refuses: back to its start, and a block without  *)
(* bytes is the answer.                                                     *)
fileContentRs_refused(s) ==
  /\ Doing(s, "advance") /\ ~run[s].result
  /\ info' = [info EXCEPT ![run[s].obj].off = SeekBack(@, run[s].n)]
  /\ run' = [run EXCEPT ![s].step = "block", ![s].bytes = <<>>, ![s].n = 0]
  /\ UNCHANGED <<m_mapTimstampToFileinfo, user, faults>>

AtEnd_early(pos, size) == pos + Block >= size
AtEnd_never(pos, size) == pos > size
AtEnd(pos, size) == pos >= size

(* pos moves on and the next block is read; a read that fails with -1 seeks *)
(* -1 * -1 bytes, and its block of -1 bytes is sent.                        *)
fileContentRs_read(s) ==
  /\ Doing(s, "advance") /\ run[s].result
  /\ LET o == run[s].obj
         f == info[o].file
         bytes == Read(f, info[o].off)
         pos == info[o].pos + run[s].n
     IN  \/ /\ info[o].alive
            /\ info' = [info EXCEPT ![o].pos = pos, ![o].off = @ + Len(bytes)]
            /\ run' = [run EXCEPT ![s].step = IF AtEnd(pos, Size[f]) THEN "close" ELSE "block",
                                  ![s].bytes = bytes, ![s].n = Len(bytes)]
            /\ UNCHANGED faults
         \/ /\ ReadFails(o)
            /\ info' = [info EXCEPT ![o].pos = pos,
                                     ![o].off = IF info[o].alive THEN @ + 1 ELSE @]
            /\ run' = [run EXCEPT ![s].step = "block", ![s].bytes = <<>>, ![s].n = -1]
  /\ UNCHANGED <<m_mapTimstampToFileinfo, user>>

(* close, erase, delete; no answer.                                         *)
fileContentRs_close(s) ==
  /\ Doing(s, "close")
  /\ info' = [info EXCEPT ![run[s].obj].alive = FALSE]
  /\ m_mapTimstampToFileinfo' =
       [m_mapTimstampToFileinfo EXCEPT ![user_time(run[s].time)] = 0]
  /\ Return(s)
  /\ UNCHANGED <<user, faults>>

-----------------------------------------------------------------------------
(* continueDownload: n is the pos the client asks for.  The session is      *)
(* looked up under the timestamp alone, and inserted under both.            *)

continueDownload_find(s) ==
  /\ Doing(s, "continueDownload")
  /\ LET o == m_mapTimstampToFileinfo[<<0, run[s].time>>]
     IN  run' = [run EXCEPT ![s].step = IF o = 0 THEN "reopen" ELSE "seek", ![s].obj = o]
  /\ UNCHANGED <<memory, user, faults>>

continueDownload_open(s) ==
  /\ Doing(s, "reopen")
  /\ \/ /\ NewSession(s, run[s].n)
        /\ run' = [run EXCEPT ![s].step = "seek", ![s].obj = Len(info) + 1]
        /\ UNCHANGED faults
     \/ /\ Fault("call")
        /\ Return(s)
        /\ UNCHANGED memory
  /\ UNCHANGED user

Jump_posOnly(file, pos) == [file EXCEPT !.pos = pos]
Jump(file, pos) == [file EXCEPT !.pos = pos, !.off = pos]

(* Nothing to read, or a read that fails: no answer.                        *)
continueDownload_read(s) ==
  /\ Doing(s, "seek")
  /\ LET o == run[s].obj
         there == Jump(info[o], run[s].n)
         bytes == Read(there.file, there.off)
     IN  \/ /\ info[o].alive
            /\ info' = [info EXCEPT ![o] = [there EXCEPT !.off = @ + Len(bytes)]]
            /\ run' = [run EXCEPT ![s] = IF bytes = <<>> THEN Idle ELSE
                         [@ EXCEPT !.step = "block", !.bytes = bytes, !.n = Len(bytes)]]
            /\ UNCHANGED faults
         \/ /\ ReadFails(o)
            /\ info' = [info EXCEPT ![o] = there]
            /\ Return(s)
  /\ UNCHANGED <<m_mapTimstampToFileinfo, user>>

-----------------------------------------------------------------------------
(* What the client does with a header and with a block.  A packet for a     *)
(* connection that it has lost does not arrive.                             *)

Transfer(f) == [file |-> f, got |-> <<>>, phase |-> "header", n |-> 0]

SendHeader(s) ==
  /\ Doing(s, "header")
  /\ client' = IF run[s].epoch = epoch
               THEN [client EXCEPT ![run[s].time] = Transfer(run[s].file)] ELSE client
  /\ Back(s, run[s].frames)
  /\ UNCHANGED <<memory, epoch, asked, received, faults>>

Stored(c, r) ==
  IF c.phase \in {"waiting", "answer"} /\ r.n >= 0
  THEN [c EXCEPT !.got = @ \o r.bytes, !.phase = "answer", !.n = r.n] ELSE c

SendBlock(s) ==
  /\ Doing(s, "block")
  /\ client' = IF run[s].epoch = epoch
               THEN [client EXCEPT ![run[s].time] = Stored(@, run[s])] ELSE client
  /\ Return(s)
  /\ UNCHANGED <<memory, epoch, asked, received, faults>>

Has(c) == c.phase # "none" /\ Len(c.got) >= Size[c.file]

sendRequest(r) ==
  /\ r \notin asked
  /\ asked' = asked \cup {r}
  /\ Submit(Request(IF r[2] \in Folders THEN "downloadFolderByDir" ELSE "downloadFile",
                    r[1], r[2]))
  /\ UNCHANGED <<memory, epoch, client, received, faults>>

sendHeaderRs(t) ==
  /\ client[t].phase = "header"
  /\ client' = [client EXCEPT ![t].phase = "waiting"]
  /\ Submit(Request("downloadFileHeadRs", t, client[t].file))
  /\ UNCHANGED <<memory, epoch, asked, received, faults>>

sendContentRs(t) ==
  /\ client[t].phase = "answer"
  /\ client' = [client EXCEPT ![t].phase = IF Has(client[t]) THEN "done" ELSE "waiting"]
  /\ received' = received \cup IF Has(client[t]) THEN {client[t].file} ELSE {}
  /\ Submit([Request("fileContentRs", t, client[t].file) EXCEPT !.n = client[t].n])
  /\ UNCHANGED <<memory, epoch, asked, faults>>

refuse(t) ==
  /\ client[t].phase = "answer" /\ client[t].n > 0
  /\ LET n == client[t].n
     IN  /\ client' = [client EXCEPT ![t].phase = "waiting",
                                     ![t].got = SubSeq(@, 1, Len(@) - n)]
         /\ Submit([Request("fileContentRs", t, client[t].file)
                      EXCEPT !.n = n, !.result = FALSE])
  /\ Fault("refuse")
  /\ UNCHANGED <<memory, epoch, asked, received>>

(* A request of an earlier connection for this transfer is still there.     *)
Earlier(t) ==
  \E s \in Slots : /\ run[s] # Idle /\ run[s].time = t /\ run[s].epoch # epoch
                   /\ run[s].step \in {"downloadFileHeadRs", "first", "fileContentRs", "advance",
                                       "close", "continueDownload", "reopen", "seek"}

sendContinue(t) ==
  /\ client[t].phase = "offline"
  /\ client' = [client EXCEPT ![t].phase = "waiting"]
  /\ Submit([Request("continueDownload", t, client[t].file) EXCEPT !.n = Len(client[t].got)])
  /\ faults' = [faults EXCEPT !.seen = @ \cup IF Earlier(t) THEN {"overtaken"} ELSE {}]
  /\ UNCHANGED <<memory, epoch, asked, received>>

Active == {"header", "waiting", "answer"}
ConnectionLost ==
  /\ epoch' = epoch + 1
  /\ client' = [t \in Times |->
       IF client[t].phase \notin Active THEN client[t]
       ELSE [client[t] EXCEPT !.phase = IF Has(client[t]) THEN "done" ELSE "offline"]]
  /\ received' = received \cup {client[t].file : t \in {t \in Times :
                                  client[t].phase \in Active /\ Has(client[t])}}
  /\ UNCHANGED asked

disconnect ==
  /\ \E t \in Times : client[t].phase \in Active
  /\ Fault("reconnect")
  /\ ConnectionLost
  /\ UNCHANGED <<memory, run>>

(* A request that had not been received when its connection went away.      *)
lost(s) ==
  /\ run[s] # Idle /\ run[s].epoch # epoch /\ run[s].frames = <<>>
  /\ run[s].step \in {"downloadFolderByDir", "downloadFile", "downloadFileHeadRs",
                      "fileContentRs", "continueDownload"}
  /\ Return(s)
  /\ UNCHANGED <<memory, user, faults>>

(* The process ends and is started again.                                   *)
crash ==
  /\ Fault("crash")
  /\ m_mapTimstampToFileinfo' = [key \in Keys |-> 0]
  /\ info' = <<>>
  /\ run' = [s \in Slots |-> Idle]
  /\ ConnectionLost

-----------------------------------------------------------------------------
Init ==
  /\ m_mapTimstampToFileinfo = [key \in Keys |-> 0]
  /\ info = <<>>
  /\ run = [s \in Slots |-> Idle]
  /\ epoch = 0 /\ asked = {} /\ received = {}
  /\ client = [t \in Times |-> [file |-> "none", got |-> <<>>, phase |-> "none", n |-> 0]]
  /\ faults = [left |-> MaxFaults, seen |-> {}]

downloadFolderByDir(s) ==
  \/ downloadFolderByDir_select(s) \/ downloadFolderByDir_next(s) \/ downloadFolderByDir_find(s)

downloadFile(s) ==
  \/ downloadFile_select(s) \/ downloadFile_open(s) \/ downloadFile_IsExist(s) \/ SendHeader(s)

downloadFileHeadRs(s) == downloadFileHeadRs_find(s) \/ downloadFileHeadRs_read(s)

fileContentRs(s) ==
  \/ fileContentRs_find(s) \/ fileContentRs_refused(s)
  \/ fileContentRs_read(s) \/ fileContentRs_close(s)

continueDownload(s) ==
  \/ continueDownload_find(s) \/ continueDownload_open(s) \/ continueDownload_read(s)

Handler(s) ==
  \/ downloadFolderByDir(s) \/ downloadFile(s) \/ downloadFileHeadRs(s)
  \/ fileContentRs(s) \/ continueDownload(s) \/ SendBlock(s)

Client(t) == sendHeaderRs(t) \/ sendContentRs(t) \/ sendContinue(t)

Next == \/ \E s \in Slots : Handler(s) \/ lost(s)
        \/ \E t \in Times : Client(t) \/ refuse(t)
        \/ \E r \in Requests : sendRequest(r)
        \/ disconnect \/ crash

Spec == Init /\ [][Next]_vars

(* Workers run the handlers they have started; a client goes on with the    *)
(* transfers it has begun.                                                  *)
Fairness == /\ \A s \in Slots : WF_vars(Handler(s))
            /\ \A t \in Times : WF_vars(Client(t))

FairSpec == Spec /\ Fairness

-----------------------------------------------------------------------------
(* The map leads to objects that were created; a session that is open is    *)
(* never read past its end, unless a read has failed with -1 or a client    *)
(* has resumed beside its own old request.                                  *)
TypeOK ==
  /\ \A key \in Keys : m_mapTimstampToFileinfo[key] \in 0..Len(info)
  /\ \A s \in Slots : run[s] # Idle => run[s].time \in Times /\ run[s].obj \in 0..Len(info)
  /\ \A o \in 1..Len(info) :
       faults.seen \cap {"read", "overtaken"} = {} => info[o].off \in 0..Size[info[o].file]

(* What a client has of a file is a prefix of it, byte by byte: no block is *)
(* skipped, repeated or taken from another file, whatever the client        *)
(* refuses, wherever reads fail and connections are lost, over restarts and *)
(* resumes.  The exception: a resume that ran beside a request of the       *)
(* connection before.                                                       *)
ClientHoldsPrefix ==
  "overtaken" \notin faults.seen =>
    \A t \in Times : LET c == client[t]
                     IN  c.phase # "none" => /\ Len(c.got) <= Size[c.file]
                                             /\ c.got = Bytes(c.file, 0, Len(c.got))

(* The session under a timestamp is for the file that the client receives   *)
(* under it: a folder in progress takes no timestamp of another transfer,   *)
(* unless a resume beside an old request has closed a session too early.    *)
SessionIsTheClients ==
  "overtaken" \notin faults.seen =>
    \A t \in Times :
      LET o == m_mapTimstampToFileinfo[user_time(t)]
      IN  o # 0 /\ client[t].phase \in Active => info[o].file = client[t].file

(* The map never leads to a FileInfo that was deleted, and, until a client  *)
(* resumes beside its old session, every descriptor that is open can be     *)
(* found in it and so be closed.                                            *)
MapHoldsLiveSessions ==
  /\ \A key \in Keys : LET o == m_mapTimstampToFileinfo[key]
                       IN  o # 0 => info[o].alive
  /\ "reconnect" \notin faults.seen =>
       \A o \in 1..Len(info) :
         info[o].alive => m_mapTimstampToFileinfo[user_time(info[o].time)] = o

(* The table of sessions tells the truth: each is live, is for the client's *)
(* file, is within the file, and none that is open is lost.                 *)
SessionsIntact == TypeOK /\ SessionIsTheClients /\ MapHoldsLiveSessions

(* A file whose header a client has got is eventually on its disk, over     *)
(* refused blocks, lost connections and restarts.                           *)
StartedArrives ==
  \A f \in Files :
    (\E t \in Times : client[t].phase \in Active /\ client[t].file = f)
      ~> (f \in received \/ faults.seen \cap {"call", "read", "overtaken"} # {})

(* Without faults a client gets every complete file of what it has asked    *)
(* for, and all sessions are closed in the end.                             *)
Within[e \in Files \cup Folders] ==
  IF e \in Files THEN {e} \cap Complete
  ELSE UNION {Within[entries[e][i]] : i \in 1..Len(entries[e])}

AllArrives ==
  \A r \in Requests :
    r \in asked ~> \/ faults.seen # {}
                   \/ /\ Within[r[2]] \subseteq received
                      /\ \A key \in Keys : m_mapTimstampToFileinfo[key] = 0
=============================================================================
