------------------------------- MODULE Files --------------------------------
(***************************************************************************)
(* The user's files: making folders, deleting, sharing, and uploading what *)
(* the server may know already, as they meet in the same tables            *)
(* (src/src/clogic.cpp).  Deletion and Share bring their handlers; this    *)
(* module adds addFolder and uploadFile, the client, and what the tables   *)
(* and the disk promise together.  The bytes of an upload are the subject  *)
(* of the module Upload: here a file arrives at once when its row is       *)
(* marked complete.                                                        *)
(***************************************************************************)
EXTENDS Deletion, Share

(* What a client may ask for, and tables that the code can have made: each  *)
(* file has a path of its own that ends in its md5, each folder has an md5  *)
(* that is none, a relation to a folder is under the folder's name, and is  *)
(* in a folder of its user.                                                 *)
ASSUME FilesAssumption ==
  /\ Users \subseteq STRING
  /\ Requests \subseteq
       [fn : {"deleteFile", "shareFile"}, u : Users, dir : Seq(STRING), ids : SUBSET Nat]
       \cup [fn : {"getShareByLink"}, u : Users, dir : Seq(STRING), link : Links]
       \cup [fn : {"addFolder"}, u : Users, dir : Seq(STRING), name : STRING]
       \cup [fn : {"uploadFile"}, u : Users, dir : Seq(STRING), md5 : STRING \ {"?"}]
  /\ t_file_0 \in Seq([path : Seq(STRING) \ {<<>>}, md5 : STRING \cup {"?"}, type : {"file", "folder"},
                       state : {0, 1}, there : {TRUE}])
  /\ t_user_file_0 \subseteq [u_id : Users, f_id : 1..Len(t_file_0), f_dir : Seq(STRING),
                              f_name : STRING, s_link : Links \cup {0}]
  /\ \A f \in 1..Len(t_file_0) : LET x == t_file_0[f] IN
       IF x.type = "file" THEN x.md5 = x.path[Len(x.path)] /\ x.md5 # "?" ELSE x.md5 = "?" /\ x.state = 1
  /\ \A f, g \in 1..Len(t_file_0) :
       t_file_0[f].type = "file" /\ t_file_0[g].type = "file" /\ t_file_0[f].path = t_file_0[g].path => f = g
  /\ \A q \in t_user_file_0 : LET p == t_file_0[q.f_id].path IN
       t_file_0[q.f_id].type = "folder" => q.f_name = p[Len(p)]
  /\ \A q, r \in t_user_file_0 :
       /\ Is(q, r.u_id, r.f_id, r.f_dir) => q = r
       /\ q.s_link = r.s_link /\ q.s_link # 0 => q.u_id = r.u_id /\ q.f_dir = r.f_dir
  /\ \A r \in t_user_file_0 :
       \/ r.f_dir = <<>>
       \/ \E q \in t_user_file_0 : /\ q.u_id = r.u_id /\ Append(q.f_dir, q.f_name) = r.f_dir
                                  /\ t_file_0[q.f_id].type = "folder"

Alloc(row) == t_file' = Append(t_file, row)
WithPath(p, md5) == {f \in Fids : t_file[f].there /\ t_file[f].path = p /\ t_file[f].md5 = md5}

(* Both handlers that insert a file ask for its id by a select.  With an    *)
(* empty result they take the front of an empty list, which is undefined:   *)
(* the process ends.                                                        *)
SelectId(s, fids) ==
  /\ IF fids = {} THEN Restart
     ELSE /\ Become(s, [Top(s) EXCEPT !.step = "insertRel", !.fid = FirstFid(fids)])
          /\ UNCHANGED <<db, disk, reply>>
  /\ UNCHANGED faults

InsertRel(s, name, step) ==
  LET row == Row(Rq(s).u, Top(s).fid, Rq(s).dir, name)
  IN  /\ \/ InsertRelation(row) /\ Goto(s, step) /\ UNCHANGED reply
         \/ ~Insertable(row) /\ Return(s) /\ Disturb({"refused"}) /\ UNCHANGED t_user_file
      /\ UNCHANGED <<t_file, disk>>

-----------------------------------------------------------------------------
(* addFolder.  Its row is found again by the path, not by the id.           *)

FolderPath(s) == Append(OnDisk(Rq(s).u, Rq(s).dir), Rq(s).name)

addFolder_insertFile(s) ==
  /\ Doing(s, "addFolder", "insertFile")
  /\ Alloc(FileRow(FolderPath(s), "?", "folder", 1))
  /\ Goto(s, "selectId")
  /\ UNCHANGED <<t_user_file, disk, reply, faults>>

addFolder_selectId(s) ==
  /\ Doing(s, "addFolder", "selectId")
  /\ \/ SelectId(s, WithPath(FolderPath(s), "?"))
     \/ Fault("crash") /\ Restart

addFolder_insertRel(s) ==
  Doing(s, "addFolder", "insertRel") /\ InsertRel(s, Rq(s).name, "mkdir")

Directory(u, dir) == OnDisk(u, dir) \in disk

(* A directory that exists already is as good.                              *)
addFolder_mkdir(s) ==
  /\ Doing(s, "addFolder", "mkdir")
  /\ IF Directory(Rq(s).u, Rq(s).dir)
     THEN disk' = disk \cup {FolderPath(s)} /\ SendData(s, "ok")
     ELSE Return(s) /\ UNCHANGED disk
  /\ UNCHANGED <<db, faults>>

-----------------------------------------------------------------------------
(* uploadFile, and the end of fileContentRq.                                *)

UploadPath(s) == Append(OnDisk(Rq(s).u, Rq(s).dir), Rq(s).md5)
Complete(m) == {f \in Fids : t_file[f].there /\ t_file[f].md5 = m /\ t_file[f].state = 1}

uploadFile_quick(s) ==
  /\ Doing(s, "uploadFile", "quick")
  /\ LET fids == Complete(Rq(s).md5)
     IN  Become(s, IF fids = {} THEN [Top(s) EXCEPT !.step = "open"]
                   ELSE [Top(s) EXCEPT !.step = "quickInsert", !.fid = FirstFid(fids)])
  /\ UNCHANGED <<db, disk, reply, faults>>

uploadFile_quickInsert(s) ==
  Doing(s, "uploadFile", "quickInsert") /\ InsertRel(s, Rq(s).md5, "quickReply")

(* reopened: beside a deletion that is going to remove this very file.      *)
uploadFile_open(s) ==
  /\ Doing(s, "uploadFile", "open")
  /\ IF Directory(Rq(s).u, Rq(s).dir)
     THEN /\ disk' = disk \cup {UploadPath(s)}
          /\ Goto(s, "insertFile")
          /\ Disturb(IF \E t \in Slots : /\ run[t] # Idle /\ Top(t).fn = "deleteFileById"
                                         /\ t_file[Top(t).fid].path = UploadPath(s)
                     THEN {"reopened"} ELSE {})
          /\ UNCHANGED reply
     ELSE Return(s) /\ UNCHANGED <<disk, faults>>
  /\ UNCHANGED db

uploadFile_insertFile(s) ==
  /\ Doing(s, "uploadFile", "insertFile")
  /\ Alloc(FileRow(UploadPath(s), Rq(s).md5, "file", 0))
  /\ Goto(s, "selectId")
  /\ UNCHANGED <<t_user_file, disk, reply, faults>>

uploadFile_selectId(s) ==
  Doing(s, "uploadFile", "selectId") /\ SelectId(s, WithPath(UploadPath(s), Rq(s).md5))

uploadFile_insertRel(s) ==
  Doing(s, "uploadFile", "insertRel") /\ InsertRel(s, Rq(s).md5, "reply")

uploadFile_reply(s) ==
  /\ \/ Doing(s, "uploadFile", "quickReply") /\ SendData(s, "ok")
     \/ Doing(s, "uploadFile", "reply") /\ Ends(s, "uploading", Top(s).fid)
  /\ UNCHANGED <<db, disk, faults>>

fileContentRq_update(r) ==
  /\ reply[r].kind = "uploading"
  /\ t_file' = [t_file EXCEPT ![reply[r].fid].state = 1]
  /\ reply' = [reply EXCEPT ![r].kind = "ok"]
  /\ UNCHANGED <<t_user_file, disk, run, faults>>

-----------------------------------------------------------------------------
(* The client.  It acts on the listings it has seen: what a request names   *)
(* was there when it was sent.                                              *)

getFileList(u, dir) == {r \in In(u, dir) : t_file[r.f_id].state = 1}
getShareList(u) == {r \in user_file_info : r.u_id = u /\ r.s_link # 0}

Named(r) == IF r.fn \in {"deleteFile", "shareFile"} THEN r.ids ELSE {}

First(r) ==
  CASE r.fn = "deleteFile"     -> Frame(r.fn, "next", 0, r.dir, r.ids)
    [] r.fn = "shareFile"      -> Frame(r.fn, "pick", 0, r.dir, r.ids)
    [] r.fn = "getShareByLink" -> [Frame(r.fn, "select", 0, r.dir, {}) EXCEPT !.dest = r.dir]
    [] r.fn = "addFolder"      -> Frame(r.fn, "insertFile", 0, r.dir, {})
    [] r.fn = "uploadFile"     -> Frame(r.fn, "quick", 0, r.dir, {})

Sharing(s) == run[s] # Idle /\ Rq(s).fn = "shareFile"

Send(r) ==
  /\ reply[r].kind = "none"
  /\ Listed(r.u, r.dir)
  /\ \A fid \in Named(r) : \E q \in getFileList(r.u, r.dir) : q.f_id = fid
  /\ \E s \in Slots :
       /\ run[s] = Idle /\ \A t \in Slots : t < s => run[t] # Idle
       /\ run' = [t \in Slots |->
            IF t = s THEN [r |-> r, stack |-> <<First(r)>>,
                           alone |-> \A o \in Slots : run[o] = Idle]
            ELSE IF run[t] = Idle THEN Idle ELSE [run[t] EXCEPT !.alone = FALSE]]
  /\ reply' = [reply EXCEPT ![r].kind = "asked"]
  /\ Disturb(IF r.fn = "shareFile" /\ \E s \in Slots : Sharing(s) THEN {"twoShares"} ELSE {})
  /\ UNCHANGED <<db, disk>>

-----------------------------------------------------------------------------
Init ==
  /\ t_file = t_file_0 /\ t_user_file = t_user_file_0
  /\ disk = {<<u>> : u \in Users} \cup {t_file_0[f].path : f \in 1..Len(t_file_0)}
  /\ run = [s \in Slots |-> Idle]
  /\ reply = [r \in Requests |-> [kind |-> "none", fid |-> 0]]
  /\ faults = [left |-> MaxFaults, seen |-> {}]

addFolder(s) ==
  \/ addFolder_insertFile(s) \/ addFolder_selectId(s)
  \/ addFolder_insertRel(s) \/ addFolder_mkdir(s)
uploadFile(s) ==
  \/ uploadFile_quick(s) \/ uploadFile_quickInsert(s) \/ uploadFile_open(s)
  \/ uploadFile_insertFile(s) \/ uploadFile_selectId(s) \/ uploadFile_insertRel(s)
  \/ uploadFile_reply(s)

Handler(s) ==
  \/ deleteFile(s) \/ deleteFileById(s) \/ deleteFolderById(s)
  \/ shareFile(s) \/ getShareByLink(s) \/ addFolderByShareDir(s)
  \/ addFolder(s) \/ uploadFile(s)

Next == \/ \E s \in Slots : Handler(s) \/ CallFails(s)
        \/ \E r \in Requests : Send(r) \/ fileContentRq_update(r)
        \/ crash

Spec == Init /\ [][Next]_vars

(* Workers run the handlers they have started.                              *)
FairSpec == Spec /\ \A s \in Slots : WF_vars(Handler(s))

-----------------------------------------------------------------------------
Seen(kinds) == faults.seen \cap kinds # {}
IsFile(fid) == t_file[fid].type = "file"
Name(fid) == t_file[fid].path[Len(t_file[fid].path)]
IsBelow(dir, top) == Len(dir) >= Len(top) /\ SubSeq(dir, 1, Len(top)) = top

(* Rows refer to rows, no two relations are about one file in one directory *)
(* of one user, and a row that is gone has no relation left.                *)
TypeOK ==
  /\ \A f \in Fids : t_file[f].state \in {0, 1} /\ t_file[f].there \in BOOLEAN
  /\ \A r \in t_user_file : r.u_id \in Users /\ r.f_id \in Fids /\ r.s_link \in Links \cup {0}
  /\ SchemaKeys => \A q, r \in t_user_file : /\ t_file[r.f_id].there
                                             /\ Is(q, r.u_id, r.f_id, r.f_dir) => q = r
  /\ \A r \in Requests : reply[r].kind \in {"none", "asked", "uploading", "ok", "false", "dropped"}

(* A complete file in anybody's list has its bytes, whoever else deletes,   *)
(* shares, copies or uploads it, whatever fails and over restarts; unless   *)
(* it was sent again while its owner's deletion was on its way to remove it.*)
ListedFileHasBytes ==
  \A r \in user_file_info :
    IsFile(r.f_id) /\ t_file[r.f_id].state = 1 /\ ~Seen({"reopened"})
      => t_file[r.f_id].path \in disk

(* Bytes nobody refers to are removed, or a handler is about to: nothing is *)
(* kept but what the deletion of a whole folder leaves behind.              *)
OnTheWay(p) ==
  \E s \in Slots : /\ run[s] # Idle
                   /\ \/ Top(s).fn = "deleteFileById" /\ t_file[Top(s).fid].path = p
                      \/ Top(s).fn = "uploadFile" /\ UploadPath(s) = p
NothingIsKept ==
  ~Seen({"call", "crash", "bytesKept", "refused"}) =>
    \A f \in Fids : IsFile(f) /\ t_file[f].path \in disk
      => \/ \E g \in Fids : t_file[g].there /\ t_file[g].path = t_file[f].path
         \/ OnTheWay(t_file[f].path)

(* Every row can be reached from the root: the folder it is in is listed,   *)
(* unless its deletion is in progress, was broken off, or somebody put      *)
(* something into the folder after it had gone.                             *)
NoOrphans ==
  ~Seen({"call", "crash", "late"}) =>
    \A r \in t_user_file :
      \/ Listed(r.u_id, r.f_dir)
      \/ \E s \in Slots : run[s] # Idle /\ Rq(s).fn = "deleteFile" /\ Rq(s).u = r.u_id

(* Whatever a row refers to is there: its file and the folder it is in.     *)
TablesIntact == TypeOK /\ NoOrphans

(* A user loses a file only by its own deletion of it or of a folder above: *)
(* what it had, and what an upload was answered for, stays when all others  *)
(* delete the content they share with it.                                   *)
DeletedBy(u, dir, md5) ==
  \E d \in Requests : /\ d.fn = "deleteFile" /\ d.u = u /\ reply[d].kind # "none"
                      /\ \E fid \in d.ids : IF IsFolder(fid) THEN IsBelow(dir, Append(d.dir, Name(fid)))
                                             ELSE dir = d.dir /\ md5 = t_file[fid].md5
Had == {<<q.u_id, q.f_dir, t_file[q.f_id].md5>> : q \in {q \in t_user_file_0 : IsFile(q.f_id)}}
Uploaded == {<<r.u, r.dir, r.md5>> : r \in {r \in Requests : r.fn = "uploadFile" /\ reply[r].kind = "ok"}}
OnlyOwnDeletions ==
  \A x \in Had \cup Uploaded :
    \/ \E q \in getFileList(x[1], x[2]) : t_file[q.f_id].md5 = x[3]
    \/ DeletedBy(x[1], x[2], x[3])

(* The step that tells a client that its request is carried out, when the   *)
(* request had the server to itself and no call has failed.                 *)
Answered(r) ==
  /\ reply[r].kind = "asked" /\ reply'[r].kind = "ok"
  /\ \E s \in Slots : run[s] # Idle /\ Rq(s) = r /\ run[s].alone
  /\ ~Seen({"call", "refused"})

(* After a deletion nothing is left of what it named, at any depth; rows    *)
(* that an earlier deletion lost sight of, when it was broken off or        *)
(* somebody put something into its folder, are the exception.               *)
DeletionIsWhole ==
  [][\A r \in Requests : r.fn = "deleteFile" /\ Answered(r) /\ ~Seen({"late", "crash"}) =>
       \A q \in t_user_file, fid \in r.ids : q.u_id = r.u =>
         /\ ~(q.f_id = fid /\ q.f_dir = r.dir)
         /\ IsFolder(fid) => ~IsBelow(q.f_dir, Append(r.dir, Name(fid)))]_vars

(* What a share brings, by definition: a relation to each file shared, and  *)
(* for a folder one to each file below it in the directories of the user    *)
(* that shared it, under the same names.                                    *)
Items(link) == {q \in t_user_file : q.s_link = link}
Path(q) == Append(q.f_dir, q.f_name)
Within(q) == {x \in t_user_file : x.u_id = q.u_id /\ IsFolder(q.f_id) /\ IsBelow(x.f_dir, Path(q))}
Target(r, q, dir) == r.dir \o SubSeq(dir, Len(q.f_dir) + 1, Len(dir))
Copies(r) ==
  {<<q.f_id, r.dir>> : q \in Items(r.link)} \cup
  UNION {{<<x.f_id, Target(r, q, x.f_dir)>> : x \in Within(q)} : q \in Items(r.link)}

(* One folder at most, and it comes last.                                   *)
FolderLast(link) ==
  \A p, q \in Items(link) : IsFolder(q.f_id) /\ p # q => p.f_id < q.f_id
(* No other user has a directory of that name.                              *)
NoNamesake(link) ==
  \A q \in Items(link) : \A x \in t_user_file : IsBelow(x.f_dir, Path(q)) => x.u_id = q.u_id
(* The folder is not copied into itself.                                    *)
OutsideItself(r) ==
  \A q \in Items(r.link), c \in Copies(r) : IsFolder(q.f_id) => ~IsBelow(c[2], Path(q))

AllIsCopied(r) == \A c \in Copies(r) : \E q \in t_user_file : Is(q, r.u, c[1], c[2])

(* Nothing else is new in the directory.                                    *)
OnlyThatIsCopied(r) ==
  \A q \in t_user_file : q.u_id = r.u /\ IsBelow(q.f_dir, r.dir) =>
    \/ <<q.f_id, q.f_dir>> \in Copies(r)
    \/ \E o \in Requests \ {r} : o.u = r.u /\ reply[o].kind # "none"
    \/ \E z \in t_user_file_0 : Is(z, q.u_id, q.f_id, q.f_dir)

(* Taking a share copies it as it is, neither less nor more; less only if   *)
(* an earlier deletion has left rows in it that cannot be reached.          *)
CopyIsExact ==
  [][\A r \in Requests :
       /\ r.fn = "getShareByLink" /\ Answered(r)
       /\ FolderLast(r.link) /\ NoNamesake(r.link) /\ OutsideItself(r)
       => (AllIsCopied(r) \/ Seen({"late", "crash"})) /\ OnlyThatIsCopied(r)]_vars

(* "From the directory of the source user": what other users keep in a      *)
(* directory of the same name is not part of the share.                     *)
CopyIsOfSource ==
  [][\A r \in Requests : r.fn = "getShareByLink" /\ Answered(r) => OnlyThatIsCopied(r)]_vars

(* A number that is given to users stands for one share: what it opens are  *)
(* files of one directory of one user, unless two shares were made at once. *)
LinkIsOneShare ==
  ~Seen({"twoShares"}) =>
    \A q, r \in t_user_file :
      q.s_link = r.s_link /\ q.s_link # 0 => q.u_id = r.u_id /\ q.f_dir = r.f_dir

(* Every request comes to its end: a tree that is walked while others       *)
(* change it is finite.  The exception is shareFile once a number it tried  *)
(* was taken.                                                               *)
Looping(s) == run[s] # Idle /\ Top(s).fn = "shareFile" /\ Top(s).dest # <<>>
EveryRequestEnds == \A s \in Slots : run[s] # Idle ~> run[s] = Idle \/ Looping(s)
=============================================================================
