------------------------------- MODULE Share --------------------------------
(***************************************************************************)
(* Sharing (src/src/clogic.cpp: shareFile, getShareByLink,                 *)
(* addFolderByShareDir).  A share is a random number that is written into  *)
(* the relations of the files shared; who has the number gets relations of *)
(* its own to the same files, a folder with all it holds, one statement at *)
(* a time.                                                                 *)
(***************************************************************************)
EXTENDS Tables

CONSTANTS
  Links,      \* the numbers that random() gives
  MaxDepth    \* directories are no deeper (a bound)

ASSUME ShareAssumption == MaxDepth \in Nat /\ 0 \notin Links

-----------------------------------------------------------------------------
(* shareFile.  The result list is not cleared between two passes of the     *)
(* loop: dest is <<"taken">> from the first link on that exists already.    *)

LinkTaken_never(link) == FALSE
LinkTaken(link) == \E r \in user_file_info : r.s_link = link

shareFile_pick(s) ==
  /\ Doing(s, "shareFile", "pick")
  /\ \E link \in Links :
       IF LinkTaken(link) \/ Top(s).dest # <<>>
       THEN Become(s, [Top(s) EXCEPT !.dest = <<"taken">>])
       ELSE Become(s, [Top(s) EXCEPT !.step = "next", !.link = link])
  /\ UNCHANGED <<db, disk, reply, faults>>

shareFile_update(s) ==
  /\ Doing(s, "shareFile", "next") /\ Top(s).rest # {}
  /\ LET fid == FirstFid(Top(s).rest)
     IN  /\ t_user_file' = {IF Is(r, Rq(s).u, fid, Top(s).dir)
                            THEN [r EXCEPT !.s_link = Top(s).link] ELSE r : r \in t_user_file}
         /\ Become(s, [Top(s) EXCEPT !.rest = @ \ {fid}])
  /\ UNCHANGED <<t_file, disk, reply, faults>>

shareFile_reply(s) ==
  /\ Doing(s, "shareFile", "next") /\ Top(s).rest = {}
  /\ SendData(s, "ok")
  /\ UNCHANGED <<db, disk, faults>>

-----------------------------------------------------------------------------
(* getShareByLink.  dest is dirDest, which a folder changes for all items   *)
(* that come after it.                                                      *)

getShareByLink_select(s) ==
  /\ Doing(s, "getShareByLink", "select")
  /\ LET rows == {r \in user_file_info : r.s_link = Rq(s).link}
     IN  IF rows = {} THEN SendData(s, "false")
         ELSE /\ Become(s, [Top(s) EXCEPT !.step = "next", !.rest = rows])
              /\ UNCHANGED reply
  /\ UNCHANGED <<db, disk, faults>>

(* The copy of a folder's contents: dir is dirSource, dest is dirDest.      *)
Contents_wrongSource(dest, r) ==
  [Frame("addFolderByShareDir", "select", r.f_id, r.f_dir, {}) EXCEPT !.dest = dest]
Contents(dest, r) ==
  [Frame("addFolderByShareDir", "select", r.f_id, Append(r.f_dir, r.f_name), {})
     EXCEPT !.dest = dest]

Below_flat(dest, name) == dest
Below(dest, name) == Append(dest, name)

(* One row of the result: its relation, and for a folder what it holds.     *)
CopyRow(s, folderDest) ==
  LET f == Top(s)
      r == FirstOf(f.rest)
      below == Below(f.dest, r.f_name)
      rest == [f EXCEPT !.rest = @ \ {r}]
  IN  /\ f.rest # {} /\ Len(f.dest) < MaxDepth
      /\ InsertRelation(Row(Rq(s).u, r.f_id, f.dest, r.f_name))
      /\ IF IsFolder(r.f_id)
         THEN Call(s, IF folderDest THEN [rest EXCEPT !.dest = below] ELSE rest,
                   Contents(below, r))
         ELSE Become(s, rest)
      /\ UNCHANGED <<t_file, disk, reply>>

(* The insert is refused by a key of the table.                             *)
CopyRefused(s) ==
  LET r == FirstOf(Top(s).rest)
  IN  /\ Top(s).rest # {}
      /\ ~Insertable(Row(Rq(s).u, r.f_id, Top(s).dest, r.f_name))
      /\ Return(s)
      /\ Disturb({"refused"})
      /\ UNCHANGED <<db, disk>>

getShareByLink_next(s) ==
  Doing(s, "getShareByLink", "next") /\ (CopyRow(s, TRUE) \/ CopyRefused(s))

getShareByLink_reply(s) ==
  /\ Doing(s, "getShareByLink", "next") /\ Top(s).rest = {}
  /\ SendData(s, "ok")
  /\ UNCHANGED <<db, disk, faults>>

-----------------------------------------------------------------------------
(* addFolderByShareDir: the select asks for the directory, and not for the  *)
(* user it is of.                                                           *)

addFolderByShareDir_select(s) ==
  /\ Doing(s, "addFolderByShareDir", "select")
  /\ Become(s, [Top(s) EXCEPT !.step = "next",
                              !.rest = {r \in user_file_info : r.f_dir = Top(s).dir}])
  /\ UNCHANGED <<db, disk, reply, faults>>

addFolderByShareDir_next(s) ==
  Doing(s, "addFolderByShareDir", "next") /\ (CopyRow(s, FALSE) \/ CopyRefused(s))

addFolderByShareDir_end(s) ==
  /\ Doing(s, "addFolderByShareDir", "next") /\ Top(s).rest = {}
  /\ Return(s)
  /\ UNCHANGED <<db, disk, faults>>

shareFile(s) == shareFile_pick(s) \/ shareFile_update(s) \/ shareFile_reply(s)
getShareByLink(s) ==
  getShareByLink_select(s) \/ getShareByLink_next(s) \/ getShareByLink_reply(s)
addFolderByShareDir(s) ==
  \/ addFolderByShareDir_select(s) \/ addFolderByShareDir_next(s)
  \/ addFolderByShareDir_end(s)
=============================================================================
