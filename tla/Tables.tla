------------------------------- MODULE Tables -------------------------------
(***************************************************************************)
(* What the handlers for folders, deletion and sharing work on: the tables *)
(* t_file and t_user_file, the view user_file_info that joins them, the    *)
(* names on the disk, and the handlers in progress.  The schema is not in  *)
(* the repository.  The code reads f_count and never writes it, and takes  *)
(* a row of t_file that is gone as "nobody refers to it": triggers of the  *)
(* database count the rows of t_user_file and remove the row of t_file     *)
(* with the last of them.                                                  *)
(*                                                                         *)
(* One SQL statement or one call on the disk is one action.  A handler is  *)
(* a stack of frames, since folders are walked by functions that call      *)
(* themselves.                                                             *)
(***************************************************************************)
EXTENDS Naturals, FiniteSets, Sequences

CONSTANTS
  Users,
  Requests,       \* what clients may ask for, each at most once
  Slots,          \* the requests that can be in the server at a time
  t_file_0,       \* the tables at the beginning
  t_user_file_0,
  SchemaKeys,     \* does the schema have a foreign key f_id and a unique key?
  MaxFaults       \* how many calls may fail (a bound)

VARIABLES
  t_file,       \* rows in the order of f_id; there: not removed by the trigger
  t_user_file,
  disk,         \* the directories and files that exist
  run,          \* the handler in each slot
  reply,        \* what the client knows of each request
  faults        \* how many faults are left, and what there was to disturb

db   == <<t_file, t_user_file>>
vars == <<db, disk, run, reply, faults>>

(* A directory "/a/b/" is <<"a", "b">>; on the disk a user's files are      *)
(* under the user's own directory.                                          *)
OnDisk(u, dir) == <<u>> \o dir
Row(u, fid, dir, name) ==
  [u_id |-> u, f_id |-> fid, f_dir |-> dir, f_name |-> name, s_link |-> 0]
FileRow(path, md5, type, state) ==
  [path |-> path, md5 |-> md5, type |-> type, state |-> state, there |-> TRUE]

Fids == 1..Len(t_file)
FirstOf(rows) == CHOOSE r \in rows : \A q \in rows : r.f_id <= q.f_id
FirstFid(fids) == CHOOSE f \in fids : \A g \in fids : f <= g

user_file_info == {r \in t_user_file : t_file[r.f_id].there}
IsFolder(fid) == t_file[fid].type = "folder"
In(u, dir) == {r \in user_file_info : r.u_id = u /\ r.f_dir = dir}
Is(r, u, fid, dir) == r.u_id = u /\ r.f_id = fid /\ r.f_dir = dir

ASSUME TablesAssumption ==
  /\ SchemaKeys \in BOOLEAN /\ MaxFaults \in Nat
  /\ \A r \in t_user_file_0 : r.u_id \in Users /\ r.f_id \in 1..Len(t_file_0)
  /\ \A f \in 1..Len(t_file_0) : \E r \in t_user_file_0 : r.f_id = f

Disturb(kinds) == faults' = [faults EXCEPT !.seen = @ \cup kinds]
Fault(kind) ==
  /\ faults.left > 0
  /\ faults' = [left |-> faults.left - 1, seen |-> faults.seen \cup {kind}]

-----------------------------------------------------------------------------
(* Statements.  Both keys are those that the where clauses of the code use. *)

Insertable(row) ==
  SchemaKeys => /\ t_file[row.f_id].there
                /\ ~ \E r \in t_user_file : Is(r, row.u_id, row.f_id, row.f_dir)

(* late: the folder is not, or no longer, in the list of its user.          *)
Listed(u, dir) ==
  dir = <<>> \/ \E r \in t_user_file : /\ r.u_id = u /\ Append(r.f_dir, r.f_name) = dir
                                        /\ IsFolder(r.f_id)

InsertRelation(row) ==
  /\ Insertable(row)
  /\ t_user_file' = t_user_file \cup {row}
  /\ Disturb(IF Listed(row.u_id, row.f_dir) THEN {} ELSE {"late"})

Matches_allUsers(r, u, fid, dir) == r.f_id = fid /\ r.f_dir = dir
Matches(r, u, fid, dir) == Is(r, u, fid, dir)

LastReference(kept, fid) == ~ \E r \in kept : r.f_id = fid

(* delete from t_user_file, with the trigger.                               *)
DeleteRelation(u, fid, dir) ==
  LET kept == {r \in t_user_file : ~Matches(r, u, fid, dir)}
  IN  /\ t_user_file' = kept
      /\ t_file' = IF kept # t_user_file /\ LastReference(kept, fid)
                   THEN [t_file EXCEPT ![fid].there = FALSE] ELSE t_file

-----------------------------------------------------------------------------
(* Handlers.  alone: nothing else was in the server while it ran.           *)

Idle == [r |-> "none"]
Frame(fn, step, fid, dir, rest) ==
  [fn |-> fn, step |-> step, fid |-> fid, dir |-> dir, rest |-> rest, dest |-> <<>>, link |-> 0]

Top(s) == Head(run[s].stack)
Doing(s, fn, step) == run[s] # Idle /\ Top(s).fn = fn /\ Top(s).step = step
Rq(s) == run[s].r

Become(s, frame) == run' = [run EXCEPT ![s].stack = <<frame>> \o Tail(@)]
Goto(s, step) == Become(s, [Top(s) EXCEPT !.step = step])
Call(s, caller, callee) == run' = [run EXCEPT ![s].stack = <<callee, caller>> \o Tail(@)]

Ends(s, kind, fid) ==
  /\ run' = [run EXCEPT ![s] = Idle]
  /\ reply' = [reply EXCEPT ![Rq(s)] = [kind |-> kind, fid |-> fid]]
SendData(s, kind) == Ends(s, kind, 0)

(* A function returns to the one that called it; a handler that returns     *)
(* has not answered.                                                        *)
Return(s) ==
  IF Len(run[s].stack) = 1 THEN Ends(s, "dropped", 0)
  ELSE run' = [run EXCEPT ![s].stack = Tail(@)] /\ UNCHANGED reply

(* The steps that are SQL statements or calls that may fail.                *)
Statements ==
  [deleteFile |-> {"next"}, deleteFileById |-> {"delete", "count"},
   deleteFolderById |-> {"delete", "select", "next"},
   shareFile |-> {"pick", "next"}, getShareByLink |-> {"select", "next"},
   addFolderByShareDir |-> {"select", "next"},
   addFolder |-> {"insertFile", "insertRel", "mkdir"},
   uploadFile |-> {"quick", "quickInsert", "open", "insertFile", "selectId", "insertRel"}]

AtStatement(s) ==
  LET f == Top(s)
  IN  /\ f.step \in Statements[f.fn]
      /\ f.step = "next" => f.rest # {}
      /\ f.step = "next" /\ f.fn = "deleteFolderById" => ~IsFolder(FirstOf(f.rest).f_id)

(* Each function then prints a message and returns to its caller, whatever  *)
(* it has done before.                                                      *)
CallFails(s) ==
  /\ run[s] # Idle /\ AtStatement(s)
  /\ Fault("call")
  /\ Return(s)
  /\ UNCHANGED <<db, disk>>

(* The process ends and is started again.                                   *)
Restart ==
  /\ run' = [s \in Slots |-> Idle]
  /\ reply' = [r \in Requests |-> IF reply[r].kind \in {"asked", "uploading"}
                                  THEN [reply[r] EXCEPT !.kind = "dropped"] ELSE reply[r]]
  /\ UNCHANGED <<db, disk>>
crash == Fault("crash") /\ Restart
=============================================================================
