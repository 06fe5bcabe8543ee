------------------------------ MODULE Deletion ------------------------------
(***************************************************************************)
(* Deleting files and folders (src/src/clogic.cpp: deleteFile,             *)
(* deleteFileById, deleteFolderById).  A file's bytes are removed with the *)
(* last reference to it; whether that was the last is asked by a statement *)
(* of its own, and the removal is a third step.  A folder's files lose     *)
(* their relation only: their bytes stay.                                  *)
(***************************************************************************)
EXTENDS Tables

(* deleteFolderById: dir is where the folder is, dest the folder itself.    *)
Folder_sameDir(r) ==
  [Frame("deleteFolderById", "delete", r.f_id, r.f_dir, {}) EXCEPT !.dest = r.f_dir]
Folder(r) ==
  [Frame("deleteFolderById", "delete", r.f_id, r.f_dir, {})
     EXCEPT !.dest = Append(r.f_dir, r.f_name)]

deleteFile_next(s) ==
  /\ Doing(s, "deleteFile", "next") /\ Top(s).rest # {}
  /\ LET fid == FirstFid(Top(s).rest)
         dir == Top(s).dir
         rows == {r \in In(Rq(s).u, dir) : r.f_id = fid}
         rest == [Top(s) EXCEPT !.rest = @ \ {fid}]
     IN  IF rows = {} THEN Return(s)
         ELSE /\ Call(s, rest, IF IsFolder(fid) THEN Folder(FirstOf(rows))
                               ELSE Frame("deleteFileById", "delete", fid, dir, {}))
              /\ UNCHANGED reply
  /\ UNCHANGED <<db, disk, faults>>

deleteFile_reply(s) ==
  /\ Doing(s, "deleteFile", "next") /\ Top(s).rest = {}
  /\ SendData(s, "ok")
  /\ UNCHANGED <<db, disk, faults>>

-----------------------------------------------------------------------------
deleteFileById_delete(s) ==
  /\ Doing(s, "deleteFileById", "delete")
  /\ DeleteRelation(Rq(s).u, Top(s).fid, Top(s).dir)
  /\ Goto(s, "count")
  /\ UNCHANGED <<disk, reply, faults>>

RowGone_always(fid) == TRUE
RowGone_never(fid) == FALSE
RowGone(fid) == ~t_file[fid].there

deleteFileById_count(s) ==
  /\ Doing(s, "deleteFileById", "count")
  /\ IF RowGone(Top(s).fid) THEN Goto(s, "remove") /\ UNCHANGED reply ELSE Return(s)
  /\ UNCHANGED <<db, disk, faults>>

deleteFileById_remove(s) ==
  /\ Doing(s, "deleteFileById", "remove")
  /\ disk' = disk \ {t_file[Top(s).fid].path}
  /\ Return(s)
  /\ UNCHANGED <<db, faults>>

-----------------------------------------------------------------------------
deleteFolderById_delete(s) ==
  /\ Doing(s, "deleteFolderById", "delete")
  /\ DeleteRelation(Rq(s).u, Top(s).fid, Top(s).dir)
  /\ Goto(s, "select")
  /\ UNCHANGED <<disk, reply, faults>>

deleteFolderById_select(s) ==
  /\ Doing(s, "deleteFolderById", "select")
  /\ Become(s, [Top(s) EXCEPT !.step = "next", !.rest = In(Rq(s).u, Top(s).dest)])
  /\ UNCHANGED <<db, disk, reply, faults>>

(* A file's last relation takes the row with it and leaves the bytes.       *)
deleteFolderById_file(s) ==
  /\ Doing(s, "deleteFolderById", "next") /\ Top(s).rest # {}
  /\ LET r == FirstOf(Top(s).rest)
     IN  /\ ~IsFolder(r.f_id)
         /\ DeleteRelation(Rq(s).u, r.f_id, Top(s).dest)
         /\ Become(s, [Top(s) EXCEPT !.rest = @ \ {r}])
         /\ Disturb(IF t_file' # t_file THEN {"bytesKept"} ELSE {})
  /\ UNCHANGED <<disk, reply>>

deleteFolderById_folder(s) ==
  /\ Doing(s, "deleteFolderById", "next") /\ Top(s).rest # {}
  /\ LET r == FirstOf(Top(s).rest)
     IN  /\ IsFolder(r.f_id)
         /\ Call(s, [Top(s) EXCEPT !.rest = @ \ {r}], Folder(r))
  /\ UNCHANGED <<db, disk, reply, faults>>

deleteFolderById_end(s) ==
  /\ Doing(s, "deleteFolderById", "next") /\ Top(s).rest = {}
  /\ Return(s)
  /\ UNCHANGED <<db, disk, faults>>

deleteFile(s) == deleteFile_next(s) \/ deleteFile_reply(s)
deleteFileById(s) ==
  deleteFileById_delete(s) \/ deleteFileById_count(s) \/ deleteFileById_remove(s)
deleteFolderById(s) ==
  \/ deleteFolderById_delete(s) \/ deleteFolderById_select(s)
  \/ deleteFolderById_file(s) \/ deleteFolderById_folder(s) \/ deleteFolderById_end(s)
=============================================================================
