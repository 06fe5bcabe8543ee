----------------------------- MODULE FilesProofs ------------------------------
(***************************************************************************)
(* What Files promises, proved for any users, requests, tables to begin    *)
(* with, number of requests in the server and of faults.  BaseInv says     *)
(* which states there are: what the tables hold, and what the frames of    *)
(* the handlers remember of them.  Each promise has an invariant of its    *)
(* own on top of it, which says what the handlers in progress owe to it.   *)
(***************************************************************************)
EXTENDS Files, SequenceTheorems, WellFoundedInduction, TLAPS

FileRecord ==
  [path : Seq(STRING), md5 : STRING \cup {"?"}, type : {"file", "folder"}, state : {0, 1},
   there : BOOLEAN]
Relation ==
  [u_id : Users, f_id : Nat, f_dir : Seq(STRING), f_name : STRING, s_link : Links \cup {0}]
Entries  == {"deleteFile", "shareFile", "getShareByLink", "addFolder", "uploadFile"}
Walkers  == {"deleteFile", "deleteFolderById", "getShareByLink", "addFolderByShareDir"}
Copiers  == {"getShareByLink", "addFolderByShareDir"}
RowFns   == Copiers \cup {"deleteFolderById"}
IdFns    == {"deleteFile", "deleteFileById", "shareFile", "addFolder", "uploadFile"}
Steps    == {"next", "delete", "count", "remove", "select", "pick", "insertFile", "selectId",
             "insertRel", "mkdir", "quick", "quickInsert", "quickReply", "open", "reply"}
FramesOf(fns, things) ==
  [fn : fns, step : Steps, fid : Nat, dir : Seq(STRING), rest : SUBSET things,
   dest : Seq(STRING) \cup {<<"taken">>}, link : Links \cup {0}]
FrameRecord == FramesOf(RowFns, Relation) \cup FramesOf(IdFns, Nat)
Handling == [r : Requests, stack : Seq(FrameRecord) \ {<<>>}, alone : BOOLEAN]
Kinds    == {"none", "asked", "uploading", "ok", "false", "dropped"}
Sorts    == {"call", "crash", "late", "refused", "reopened", "bytesKept", "twoShares"}

StateOK ==
  /\ t_file \in Seq(FileRecord) /\ t_user_file \in SUBSET Relation
  /\ run \in [Slots -> Handling \cup {Idle}]
  /\ reply \in [Requests -> [kind : Kinds, fid : Nat]]
  /\ faults \in [left : Nat, seen : SUBSET Sorts]

(* The tables.  A file is stored under its md5, a folder is its own path.   *)
FileOK(f) ==
  /\ t_file[f].path # <<>>
  /\ IF IsFile(f) THEN t_file[f].md5 = Name(f) /\ t_file[f].md5 # "?"
     ELSE t_file[f].md5 = "?" /\ t_file[f].state = 1
RelationOK(q) == q.f_id \in Fids /\ (IsFolder(q.f_id) => q.f_name = Name(q.f_id))
KeysOK ==
  \A q, r \in t_user_file : t_file[r.f_id].there /\ (Is(q, r.u_id, r.f_id, r.f_dir) => q = r)
TablesOK ==
  /\ \A f \in Fids : FileOK(f)
  /\ \A q \in t_user_file : RelationOK(q)
  /\ SchemaKeys => KeysOK

(* The row that a request inserts, which it finds again by its path; no two *)
(* requests have the same path and md5.                                     *)
PathOf(r) == Append(OnDisk(r.u, r.dir), IF r.fn = "uploadFile" THEN r.md5 ELSE r.name)
KeyOf(r) == IF r.fn = "uploadFile" THEN r.md5 ELSE "?"
Marked(f) == t_file[f].state = 1
FromPath(f, r) == f \in Fids /\ t_file[f].path = PathOf(r) /\ t_file[f].md5 = KeyOf(r)

ReplyOK(r) ==
  /\ reply[r].kind # "none" => \A k \in Named(r) : k \in Fids /\ Marked(k)
  /\ reply[r].kind = "uploading" => r.fn = "uploadFile" /\ FromPath(reply[r].fid, r)

(* What a frame f of the handler of request r remembers.                    *)
RowsOK(f) == f.rest \subseteq Relation /\ \A q \in f.rest : RelationOK(q)
DeleteFileOK(r, f) ==
  r.fn = "deleteFile" /\ f.step = "next" /\ f.dir = r.dir /\ f.rest \subseteq r.ids
ByIdOK(r, f) ==
  /\ r.fn = "deleteFile" /\ f.step \in {"delete", "count", "remove"}
  /\ f.dir = r.dir /\ f.fid \in r.ids /\ f.fid \in Fids /\ IsFile(f.fid) /\ Marked(f.fid)
  /\ f.step = "remove" => ~t_file[f.fid].there
FolderOK(r, f) ==
  /\ r.fn = "deleteFile" /\ f.step \in {"delete", "select", "next"}
  /\ f.fid \in Fids /\ IsFolder(f.fid) /\ f.dest = Append(f.dir, Name(f.fid))
  /\ \E k \in r.ids : k \in Fids /\ IsFolder(k) /\ IsBelow(f.dest, Append(r.dir, Name(k)))
  /\ RowsOK(f) /\ \A q \in f.rest : q.f_dir = f.dest
ShareFileOK(r, f) ==
  /\ r.fn = "shareFile" /\ f.step \in {"pick", "next"} /\ f.dir = r.dir /\ f.rest \subseteq r.ids
  /\ f.step = "next" => f.link \in Links
CopierOK(r, f) ==
  r.fn = "getShareByLink" /\ f.step \in {"select", "next"} /\ f.dest \in Seq(STRING) /\ RowsOK(f)
AddFolderOK(r, f) ==
  /\ r.fn = "addFolder" /\ f.step \in {"insertFile", "selectId", "insertRel", "mkdir"}
  /\ f.step = "insertRel" => FromPath(f.fid, r)
UploadFileOK(r, f) ==
  /\ r.fn = "uploadFile"
  /\ f.step \in {"quick", "quickInsert", "quickReply", "open", "insertFile", "selectId", "insertRel", "reply"}
  /\ f.step \in {"quickInsert", "quickReply"} =>
       f.fid \in Fids /\ t_file[f.fid].md5 = r.md5 /\ Marked(f.fid)
  /\ f.step \in {"insertRel", "reply"} => FromPath(f.fid, r)
FrameOK(r, f) ==
  /\ f.fn = "deleteFile"       => DeleteFileOK(r, f)
  /\ f.fn = "deleteFileById"   => ByIdOK(r, f)
  /\ f.fn = "deleteFolderById" => FolderOK(r, f)
  /\ f.fn = "shareFile"        => ShareFileOK(r, f)
  /\ f.fn \in Copiers          => CopierOK(r, f)
  /\ f.fn = "addFolder"        => AddFolderOK(r, f)
  /\ f.fn = "uploadFile"       => UploadFileOK(r, f)

(* A handler is at the bottom of its stack; who has called waits at "next". *)
All(stack) == {stack[i] : i \in 1..Len(stack)}
Callers(stack) == {stack[i] : i \in 2..Len(stack)}
OnStack(s) == All(run[s].stack)
Beneath(s) == Callers(run[s].stack)
MadeOf(stack, S, top, beneath) ==
  stack \in Seq(S) /\ stack # <<>> /\ Head(stack) = top /\ Callers(stack) = beneath /\ All(stack) = {top} \cup beneath
StackOK(stack) ==
  /\ \A i \in 1..Len(stack) : stack[i].fn \in Entries <=> i = Len(stack)
  /\ \A f \in Callers(stack) : f.fn \in Walkers /\ f.step = "next"
SlotOK(s) ==
  /\ reply[Rq(s)].kind = "asked"
  /\ StackOK(run[s].stack)
  /\ \A f \in OnStack(s) : FrameOK(Rq(s), f)

BaseInv ==
  /\ StateOK /\ TablesOK
  /\ \A r \in Requests : ReplyOK(r)
  /\ \A s \in Slots : run[s] # Idle => SlotOK(s)
  /\ \A s, t \in Slots : run[s] # Idle /\ run[t] # Idle /\ Rq(s) = Rq(t) => s = t

-----------------------------------------------------------------------------
(* The row that a request has inserted is its own until it has the id: no   *)
(* relation refers to it and nobody remembers it.                           *)
Mentions(s, f) == \E g \in OnStack(s) : g.fn \in RowFns /\ \E q \in g.rest : q.f_id = f
Unused(f) ==
  /\ \A q \in t_user_file : q.f_id # f
  /\ \A s \in Slots : run[s] # Idle => ~Mentions(s, f)
Selects(s) == run[s] # Idle /\ Top(s).step = "selectId"
NewRow(r, f) ==
  FromPath(f, r) /\ t_file[f].there /\ Unused(f) /\ (r.fn = "uploadFile" => ~Marked(f))
PrivateInv == \A s \in Slots : Selects(s) => \E f \in Fids : NewRow(Rq(s), f)

-----------------------------------------------------------------------------
(* While one share is made, its number is on rows of its own only.          *)
ShareInv ==
  ~Seen({"twoShares"}) =>
    /\ LinkIsOneShare
    /\ \A s, t \in Slots : Sharing(s) /\ Sharing(t) => s = t
    /\ \A s \in Slots : Sharing(s) /\ Top(s).step = "next" =>
         \A q \in t_user_file : q.s_link = Top(s).link => q.u_id = Rq(s).u /\ q.f_dir = Rq(s).dir

-----------------------------------------------------------------------------
(* A row below a folder that is deleted has a frame that will come to it.   *)
Covers(f, q) ==
  /\ f.fn = "deleteFolderById"
  /\ \/ f.step = "delete" /\ f.fid = q.f_id /\ f.dir = q.f_dir
     \/ f.step = "select" /\ f.dest = q.f_dir
     \/ f.step = "next" /\ f.dest = q.f_dir /\ \E p \in f.rest : p.f_id = q.f_id
CoveredBy(s, q) == run[s] # Idle /\ Rq(s).u = q.u_id /\ \E f \in OnStack(s) : Covers(f, q)
OrphanInv ==
  ~Seen({"call", "crash", "late"}) =>
    \A q \in t_user_file : Listed(q.u_id, q.f_dir) \/ \E s \in Slots : CoveredBy(s, q)

-----------------------------------------------------------------------------
(* One complete file to a path; and while an upload has the path open, none *)
(* is complete and no deletion is about to remove it.                       *)
Arrived(f) == IsFile(f) /\ t_file[f].there /\ Marked(f)
Removes(s, p) == run[s] # Idle /\ Top(s).fn = "deleteFileById" /\ t_file[Top(s).fid].path = p
OpenedSteps == {"insertFile", "selectId", "insertRel", "reply"}
Writes(r, steps) ==
  \/ \E s \in Slots : run[s] # Idle /\ Rq(s) = r /\ Top(s).fn = "uploadFile" /\ Top(s).step \in steps
  \/ reply[r].kind = "uploading"
CompleteInv ==
  /\ \A f, g \in Fids : Arrived(f) /\ Arrived(g) /\ t_file[f].path = t_file[g].path => f = g
  /\ \A r \in Requests : Writes(r, OpenedSteps \cup {"open"}) =>
       \A f \in Fids : t_file[f].path = PathOf(r) => ~Arrived(f)
BytesInv ==
  ~Seen({"reopened"}) =>
    /\ \A r \in Requests : Writes(r, OpenedSteps) =>
         PathOf(r) \in disk /\ \A s \in Slots : ~Removes(s, PathOf(r))
    /\ \A f \in Fids : Arrived(f) =>
         /\ t_file[f].path \in disk
         /\ \A s \in Slots : Removes(s, t_file[f].path) => t_file[Top(s).fid].there

-----------------------------------------------------------------------------
(* No folder has a name that is the md5 of a file: the directory would be   *)
(* on the disk where the file should.                                       *)
Hashes == {r.md5 : r \in {r \in Requests : r.fn = "uploadFile"}}
          \cup {t_file_0[f].md5 : f \in 1..Len(t_file_0)}
NamesApart ==
  /\ \A r \in Requests : r.fn = "addFolder" => r.name \notin Hashes
  /\ \A f \in 1..Len(t_file_0) : t_file_0[f].type = "folder" =>
       t_file_0[f].path[Len(t_file_0[f].path)] \notin Hashes
NamesInv == \A f \in Fids : IF IsFile(f) THEN t_file[f].md5 \in Hashes ELSE Name(f) \notin Hashes
Expected(p) ==
  \/ \E g \in Fids : t_file[g].there /\ t_file[g].path = p
  \/ \E s \in Slots : Removes(s, p)
  \/ \E s \in Slots : run[s] # Idle /\ Top(s).fn = "uploadFile" /\ Top(s).step = "insertFile" /\ PathOf(Rq(s)) = p
KeptInv ==
  ~Seen({"call", "crash", "bytesKept", "refused"}) =>
    \A f \in Fids : IsFile(f) /\ t_file[f].path \in disk => Expected(t_file[f].path)

-----------------------------------------------------------------------------
(* What a user had at the beginning, or was answered for, is in its list,   *)
(* or was deleted by itself; so is what an upload is going to answer for.   *)
FilesComplete == \A q \in t_user_file_0 : t_file_0[q.f_id].state = 1
Has(u, dir, md5) ==
  \E q \in t_user_file : q.u_id = u /\ q.f_dir = dir /\ t_file[q.f_id].md5 = md5 /\ Marked(q.f_id)
HasRow(u, dir, fid) == \E q \in t_user_file : Is(q, u, fid, dir)
UploadAt(s, r, step) == run[s] # Idle /\ Rq(s) = r /\ Top(s).fn = "uploadFile" /\ Top(s).step = step
Promised(r) ==
  r.fn = "uploadFile" /\ (reply[r].kind = "ok" \/ \E s \in Slots : UploadAt(s, r, "quickReply"))
Expects(r, f) ==
  /\ r.fn = "uploadFile"
  /\ \/ reply[r].kind = "uploading" /\ reply[r].fid = f
     \/ \E s \in Slots : UploadAt(s, r, "reply") /\ Top(s).fid = f
OwnInv ==
  /\ \A q \in t_user_file_0 :
       q.f_id \in Fids /\ (IsFile(q.f_id) => LET md5 == t_file[q.f_id].md5 IN
                             Has(q.u_id, q.f_dir, md5) \/ DeletedBy(q.u_id, q.f_dir, md5))
  /\ \A r \in Requests : Promised(r) => Has(r.u, r.dir, r.md5) \/ DeletedBy(r.u, r.dir, r.md5)
  /\ \A r \in Requests : \A f : Expects(r, f) => HasRow(r.u, r.dir, f) \/ DeletedBy(r.u, r.dir, r.md5)

-----------------------------------------------------------------------------
(* A deletion that has the server to itself has a frame for whatever of its *)
(* request is left: the file or folder itself, and what is in the folder.   *)
Waits(s, fid) == \E g \in OnStack(s) : g.fn = "deleteFile" /\ fid \in g.rest
AboutTo(s, fid, dir) ==
  \E g \in OnStack(s) : /\ g.fn \in {"deleteFileById", "deleteFolderById"} /\ g.step = "delete"
                        /\ g.fid = fid /\ g.dir = dir
Due(s, q) ==
  \A fid \in Rq(s).ids :
    /\ q.f_id = fid /\ q.f_dir = Rq(s).dir => Waits(s, fid) \/ AboutTo(s, fid, Rq(s).dir)
    /\ IsFolder(fid) /\ q.f_dir = Append(Rq(s).dir, Name(fid)) =>
         Waits(s, fid) \/ AboutTo(s, fid, Rq(s).dir) \/ CoveredBy(s, q)
Alone(s) == run[s] # Idle /\ run[s].alone
WholeInv ==
  /\ \A s, t \in Slots : Alone(s) /\ run[t] # Idle => s = t
  /\ ~Seen({"call", "crash", "late"}) =>
       \A s \in Slots : Alone(s) /\ Rq(s).fn = "deleteFile" =>
         \A q \in t_user_file : q.u_id = Rq(s).u => Due(s, q)

-----------------------------------------------------------------------------
(* A copy that has the server to itself.  Each frame knows where it is, and *)
(* each row that the share brings is there, or a frame will come to it; a   *)
(* row of the taker is an old one, or some request's own.                   *)
Taking(s) == Alone(s) /\ Rq(s).fn = "getShareByLink"
Fit(r) == FolderLast(r.link) /\ NoNamesake(r.link) /\ OutsideItself(r)
TakerOK(r, g) ==
  /\ g.step = "select" \/ g.rest # {} => g.dest = r.dir
  /\ g.step = "next" => g.rest \subseteq Items(r.link)
Inside(r, q, g) == IsFolder(q.f_id) /\ IsBelow(g.dir, Path(q)) /\ g.dest = Target(r, q, g.dir)
ContentsOK(r, g) ==
  /\ \E q \in Items(r.link) : Inside(r, q, g)
  /\ g.step = "next" => g.rest \subseteq t_user_file /\ \A x \in g.rest : x.f_dir = g.dir
CopyOK(r, g) ==
  /\ g.fn = "getShareByLink" => TakerOK(r, g)
  /\ g.fn = "addFolderByShareDir" => ContentsOK(r, g)
FramesInv == \A s \in Slots : Taking(s) /\ Fit(Rq(s)) => \A g \in OnStack(s) : CopyOK(Rq(s), g)

ItemWaits(s, q) == \E g \in OnStack(s) : g.fn = "getShareByLink" /\ (g.step = "select" \/ q \in g.rest)
Reaches(g, x) ==
  /\ g.fn = "addFolderByShareDir"
  /\ \/ g.step = "select" /\ IsBelow(x.f_dir, g.dir)
     \/ g.step = "next" /\ \E p \in g.rest : p = x \/ (IsFolder(p.f_id) /\ IsBelow(x.f_dir, Path(p)))
RowWaits(s, x) == \E g \in OnStack(s) : Reaches(g, x)
Pending(s, r) ==
  \A q \in Items(r.link) :
    /\ HasRow(r.u, r.dir, q.f_id) \/ ItemWaits(s, q)
    /\ \A x \in Within(q) : HasRow(r.u, Target(r, q, x.f_dir), x.f_id) \/ ItemWaits(s, q) \/ RowWaits(s, x)
Hindered == {"call", "crash", "late", "refused"}
PendingInv == ~Seen(Hindered) => \A s \in Slots : Taking(s) /\ Fit(Rq(s)) => Pending(s, Rq(s))

GivenBy(z, o) ==
  /\ o.u = z.u_id /\ reply[o].kind # "none"
  /\ \A s \in Slots : Taking(s) /\ Rq(s) = o /\ Fit(o) => <<z.f_id, z.f_dir>> \in Copies(o)
GivenInv ==
  \A z \in t_user_file :
    \/ \E p \in t_user_file_0 : Is(p, z.u_id, z.f_id, z.f_dir)
    \/ \E o \in Requests : GivenBy(z, o)

-----------------------------------------------------------------------------
(* The least of a set of ids, which is what a list in the order of f_id      *)
(* begins with.                                                             *)
LEMMA Least ==
  ASSUME NEW T, T \subseteq Nat, T # {}
  PROVE  \E m \in T : \A n \in T : m <= n
<1>1. PICK m \in T : \A n \in T : <<n, m>> \notin OpToRel(<, Nat)
  BY NatLessThanWellFounded, WFMin, Zenon
<1>2. \A n \in T : ~ (n < m)
  <2>. SUFFICES ASSUME NEW n \in T, n < m PROVE FALSE
    OBVIOUS
  <2>1. <<n, m>> \in Nat \X Nat /\ <<n, m>>[1] = n /\ <<n, m>>[2] = m
    OBVIOUS
  <2>2. <<n, m>> \in OpToRel(<, Nat)
    BY <2>1 DEF OpToRel
  <2>. QED  BY <1>1, <2>2
<1>. QED  BY <1>2

LEMMA FirstFidIs ==
  ASSUME NEW fids, fids \subseteq Nat, fids # {}
  PROVE  FirstFid(fids) \in fids /\ \A g \in fids : FirstFid(fids) <= g
<1>1. \E f \in fids : \A g \in fids : f <= g
  BY Least
<1>. QED  BY <1>1 DEF FirstFid

LEMMA FirstOfIs ==
  ASSUME NEW rows, rows # {}, \A q \in rows : q.f_id \in Nat
  PROVE  FirstOf(rows) \in rows /\ \A q \in rows : FirstOf(rows).f_id <= q.f_id
<1>. PICK T : T = {q.f_id : q \in rows}
  OBVIOUS
<1>1. T \subseteq Nat /\ T # {}
  OBVIOUS
<1>2. PICK m \in T : \A n \in T : m <= n
  BY <1>1, Least
<1>3. PICK r \in rows : r.f_id = m
  OBVIOUS
<1>4. \A q \in rows : r.f_id <= q.f_id
  BY <1>2, <1>3
<1>5. \E p \in rows : \A q \in rows : p.f_id <= q.f_id
  BY <1>4
<1>. QED  BY <1>5, Zenon DEF FirstOf

-----------------------------------------------------------------------------
(* The stack of a handler.                                                  *)
LEMMA StackIs ==
  ASSUME NEW S, NEW q \in Seq(S), q # <<>>
  PROVE  /\ Len(q) \in Nat /\ Len(q) >= 1 /\ Head(q) = q[1] /\ Head(q) \in S
         /\ All(q) = {Head(q)} \cup Callers(q) /\ Callers(q) \subseteq S
<1>1. Len(q) \in Nat /\ Len(q) >= 1 /\ Head(q) = q[1]
  OBVIOUS
<1>2. \A i \in 1..Len(q) : q[i] \in S
  BY ElementOfSeq
<1>3. 1..Len(q) = {1} \cup 2..Len(q)
  BY <1>1
<1>. QED  BY <1>1, <1>2, <1>3 DEF All, Callers

LEMMA BecomeStack ==
  ASSUME NEW S, NEW q \in Seq(S), q # <<>>, NEW x \in S, NEW r, r = <<x>> \o Tail(q)
  PROVE  MadeOf(r, S, x, Callers(q)) /\ (StackOK(q) /\ x.fn = Head(q).fn => StackOK(r))
<1>1. Tail(q) \in Seq(S) /\ Len(Tail(q)) = Len(q) - 1 /\ \A i \in 1..Len(Tail(q)) : Tail(q)[i] = q[i + 1]
  BY HeadTailProperties
<1>2. Len(q) \in Nat /\ Len(q) >= 1
  OBVIOUS
<1>. PICK p, t : p = <<x>> /\ t = Tail(q)
  OBVIOUS
<1>3. p \in Seq(S) /\ Len(p) = 1 /\ p[1] = x
  OBVIOUS
<1>4. r \in Seq(S) /\ Len(r) = Len(p) + Len(t)
      /\ \A i \in 1..(Len(p) + Len(t)) : r[i] = IF i <= Len(p) THEN p[i] ELSE t[i - Len(p)]
  <2>1. r = p \o t
    OBVIOUS
  <2>. QED  BY <1>1, <1>3, <2>1, ConcatProperties
<1>5. Len(r) = Len(q) /\ r[1] = x
  BY <1>1, <1>2, <1>3, <1>4
<1>6. ASSUME NEW i \in 2..Len(q) PROVE r[i] = q[i]
  <2>1. i \in 1..(Len(p) + Len(t)) /\ ~(i <= Len(p)) /\ i - Len(p) = i - 1 /\ i - 1 \in 1..Len(t) /\ (i - 1) + 1 = i
    BY <1>1, <1>2, <1>3
  <2>2. r[i] = t[i - 1]
    BY <1>4, <2>1
  <2>. QED  BY <1>1, <2>1, <2>2
<1>7. r # <<>> /\ Head(r) = x
  BY <1>2, <1>4, <1>5
<1>8. Callers(r) = Callers(q)
  BY <1>5, <1>6 DEF Callers
<1>9. All(r) = {x} \cup Callers(r)
  BY <1>4, <1>7, StackIs
<1>10. MadeOf(r, S, x, Callers(q))
  BY <1>4, <1>7, <1>8, <1>9 DEF MadeOf
<1>11. ASSUME StackOK(q), x.fn = Head(q).fn PROVE StackOK(r)
  <2>. PICK n : n = Len(q)
    OBVIOUS
  <2>1. ASSUME NEW i \in 1..n PROVE r[i].fn \in Entries <=> i = n
    <3>1. r[i].fn = q[i].fn
      <4>1. CASE i = 1
        BY <1>5, <1>11, <4>1, StackIs
      <4>2. CASE i # 1
        <5>1. i \in 2..n
          BY <1>2, <4>2
        <5>. QED  BY <1>6, <5>1
      <4>. QED  BY <4>1, <4>2
    <3>. QED  BY <1>11, <3>1 DEF StackOK
  <2>. QED  BY <1>5, <1>8, <1>11, <2>1 DEF StackOK
<1>. QED  BY <1>10, <1>11

LEMMA CallStack ==
  ASSUME NEW S, NEW q \in Seq(S), q # <<>>, NEW x \in S, NEW y \in S, NEW r, r = <<x, y>> \o Tail(q)
  PROVE  /\ MadeOf(r, S, x, {y} \cup Callers(q))
         /\ StackOK(q) /\ x.fn \notin Entries /\ y.fn = Head(q).fn /\ y.fn \in Walkers /\ y.step = "next" => StackOK(r)
<1>1. Tail(q) \in Seq(S) /\ Len(Tail(q)) = Len(q) - 1 /\ \A i \in 1..Len(Tail(q)) : Tail(q)[i] = q[i + 1]
  BY HeadTailProperties
<1>2. Len(q) \in Nat /\ Len(q) >= 1
  OBVIOUS
<1>. PICK p, t : p = <<x, y>> /\ t = Tail(q)
  OBVIOUS
<1>3. p \in Seq(S) /\ Len(p) = 2 /\ p[1] = x /\ p[2] = y
  OBVIOUS
<1>4. r \in Seq(S) /\ Len(r) = Len(p) + Len(t)
      /\ \A i \in 1..(Len(p) + Len(t)) : r[i] = IF i <= Len(p) THEN p[i] ELSE t[i - Len(p)]
  <2>1. r = p \o t
    OBVIOUS
  <2>. QED  BY <1>1, <1>3, <2>1, ConcatProperties
<1>5. Len(r) = Len(q) + 1 /\ r[1] = x /\ r[2] = y
  BY <1>1, <1>2, <1>3, <1>4
<1>6. ASSUME NEW i \in 3..(Len(q) + 1) PROVE r[i] = q[i - 1]
  <2>1. i \in 1..(Len(p) + Len(t)) /\ ~(i <= Len(p)) /\ i - Len(p) = i - 2 /\ i - 2 \in 1..Len(t) /\ (i - 2) + 1 = i - 1
    BY <1>1, <1>2, <1>3
  <2>2. r[i] = t[i - 2]
    BY <1>4, <2>1
  <2>. QED  BY <1>1, <2>1, <2>2
<1>7. r # <<>> /\ Head(r) = x
  BY <1>2, <1>4, <1>5
<1>8. Callers(r) = {y} \cup Callers(q)
  <2>1. ASSUME NEW f \in Callers(r) PROVE f \in {y} \cup Callers(q)
    <3>1. PICK i \in 2..Len(r) : f = r[i]
      BY DEF Callers
    <3>2. CASE i = 2
      BY <1>5, <3>1, <3>2
    <3>3. CASE i # 2
      <4>1. i \in 3..(Len(q) + 1) /\ i - 1 \in 2..Len(q)
        BY <1>2, <1>5, <3>1, <3>3
      <4>. QED  BY <1>6, <3>1, <4>1 DEF Callers
    <3>. QED  BY <3>2, <3>3
  <2>2. ASSUME NEW f \in Callers(q) PROVE f \in Callers(r)
    <3>1. PICK i \in 2..Len(q) : f = q[i]
      BY DEF Callers
    <3>2. i + 1 \in 3..(Len(q) + 1) /\ (i + 1) - 1 = i /\ i + 1 \in 2..Len(r)
      BY <1>2, <1>5
    <3>3. r[i + 1] = f
      BY <1>6, <3>1, <3>2
    <3>. QED  BY <3>2, <3>3 DEF Callers
  <2>3. y \in Callers(r)
    <3>1. 2 \in 2..Len(r)
      BY <1>2, <1>5
    <3>. QED  BY <1>5, <3>1 DEF Callers
  <2>. QED  BY <2>1, <2>2, <2>3
<1>9. All(r) = {x} \cup Callers(r)
  BY <1>4, <1>7, StackIs
<1>10. MadeOf(r, S, x, {y} \cup Callers(q))
  BY <1>4, <1>7, <1>8, <1>9 DEF MadeOf
<1>11. ASSUME StackOK(q), x.fn \notin Entries, y.fn = Head(q).fn, y.fn \in Walkers, y.step = "next" PROVE StackOK(r)
  <2>. PICK n, m : n = Len(q) /\ m = Len(r)
    OBVIOUS
  <2>1. n \in Nat /\ n >= 1 /\ m = n + 1
    BY <1>2, <1>5
  <2>2. Head(q) = q[1]
    BY StackIs
  <2>3. ASSUME NEW i \in 1..m PROVE r[i].fn \in Entries <=> i = m
    <3>1. CASE i = 1
      BY <1>5, <1>11, <2>1, <3>1
    <3>2. CASE i # 1
      <4>1. i - 1 \in 1..n /\ (i - 1 = n <=> i = m)
        BY <2>1, <3>2
      <4>2. r[i].fn = q[i - 1].fn
        <5>1. CASE i = 2
          BY <1>5, <1>11, <2>2, <5>1
        <5>2. CASE i # 2
          <6>1. i \in 3..(n + 1)
            BY <2>1, <3>2, <5>2
          <6>. QED  BY <1>6, <6>1
        <5>. QED  BY <5>1, <5>2
      <4>. QED  BY <1>11, <4>1, <4>2 DEF StackOK
    <3>. QED  BY <3>1, <3>2
  <2>. QED  BY <1>8, <1>11, <2>3 DEF StackOK
<1>. QED  BY <1>10, <1>11

LEMMA RestOfStack ==
  ASSUME NEW S, NEW q \in Seq(S), q # <<>>, Len(q) # 1
  PROVE  \A r \in Seq(S) : Len(r) = Len(q) - 1 /\ (\A i \in 1..Len(r) : r[i] = q[i + 1])
           => r # <<>> /\ Head(r) \in Callers(q) /\ Callers(r) \subseteq Callers(q) /\ All(r) = Callers(q)
<1>. SUFFICES ASSUME NEW r \in Seq(S), Len(r) = Len(q) - 1, \A i \in 1..Len(r) : r[i] = q[i + 1]
     PROVE  r # <<>> /\ Head(r) \in Callers(q) /\ Callers(r) \subseteq Callers(q) /\ All(r) = Callers(q)
  OBVIOUS
<1>. PICK n, m : n = Len(q) /\ m = Len(r)
  OBVIOUS
<1>3. n \in Nat /\ n >= 1 /\ n # 1
  BY StackIs, Zenon
<1>1. m # 0 /\ Len(<<>>) = 0 /\ m = n - 1 /\ n >= 2
  BY <1>3
<1>2. r # <<>>
  BY <1>1, Zenon
<1>4. ASSUME NEW i \in 1..m PROVE r[i] \in Callers(q)
  <2>1. i + 1 \in 2..n
    BY <1>1, <1>3
  <2>. QED  BY <2>1 DEF Callers
<1>5. ASSUME NEW f \in Callers(q) PROVE f \in All(r)
  <2>1. PICK i \in 2..n : f = q[i]
    BY DEF Callers
  <2>2. i - 1 \in 1..m /\ (i - 1) + 1 = i
    BY <1>1, <1>3
  <2>3. r[i - 1] = f
    BY <2>1, <2>2
  <2>. QED  BY <2>2, <2>3 DEF All
<1>6. All(r) = Callers(q)
  BY <1>4, <1>5 DEF All
<1>7. Callers(r) \subseteq All(r) /\ Head(r) \in All(r)
  BY <1>2, StackIs
<1>. QED  BY <1>2, <1>6, <1>7

LEMMA ReturnStack ==
  ASSUME NEW S, NEW q \in Seq(S), q # <<>>, Len(q) # 1, NEW r, r = Tail(q)
  PROVE  /\ MadeOf(r, S, Head(r), Callers(r)) /\ All(r) = Callers(q)
         /\ StackOK(q) => StackOK(r)
<1>1. r \in Seq(S) /\ Len(r) = Len(q) - 1 /\ \A i \in 1..Len(r) : r[i] = q[i + 1]
  BY HeadTailProperties
<1>2. r # <<>> /\ Head(r) \in Callers(q) /\ Callers(r) \subseteq Callers(q) /\ All(r) = Callers(q)
  BY <1>1, RestOfStack, Zenon
<1>3. MadeOf(r, S, Head(r), Callers(r))
  BY <1>1, <1>2, StackIs DEF MadeOf
<1>4. ASSUME StackOK(q) PROVE StackOK(r)
  <2>. PICK n : n = Len(q)
    OBVIOUS
  <2>. PICK m : m = Len(r)
    OBVIOUS
  <2>1. n \in Nat /\ m = n - 1
    BY <1>1, LenProperties, Zenon
  <2>2. ASSUME NEW i \in 1..m PROVE r[i].fn \in Entries <=> i = m
    <3>1. i + 1 \in 1..n /\ (i + 1 = n <=> i = m)
      BY <2>1
    <3>2. r[i] = q[i + 1]
      BY <1>1, Zenon
    <3>. QED  BY <1>4, <3>1, <3>2, Zenon DEF StackOK
  <2>. QED  BY <1>2, <1>4, <2>2, Zenon DEF StackOK
<1>. QED  BY <1>2, <1>3, <1>4, Zenon

LEMMA FirstStack ==
  ASSUME NEW S, NEW x \in S, NEW r, r = <<x>>
  PROVE  MadeOf(r, S, x, {}) /\ (x.fn \in Entries => StackOK(r))
<1>1. r # <<>> /\ Len(r) = 1 /\ r[1] = x /\ Head(r) = x
  OBVIOUS
<1>2. 2..Len(r) = {} /\ 1..Len(r) = {1}
  BY <1>1
<1>3. Callers(r) = {} /\ All(r) = {x} /\ r \in Seq(S)
  BY <1>1, <1>2 DEF Callers, All
<1>. QED  BY <1>1, <1>2, <1>3 DEF MadeOf, StackOK

-----------------------------------------------------------------------------
(* What requests there are, and the path of the row that one inserts.       *)
LEMMA RequestIs ==
  ASSUME NEW r \in Requests
  PROVE  /\ r.fn \in Entries /\ r.u \in Users /\ r.u \in STRING /\ r.dir \in Seq(STRING) /\ Named(r) \subseteq Nat
         /\ r.fn \in {"deleteFile", "shareFile"} => r.ids \subseteq Nat
         /\ r.fn = "getShareByLink" => r.link \in Links
         /\ r.fn = "addFolder" => r.name \in STRING
         /\ r.fn = "uploadFile" => r.md5 \in STRING /\ r.md5 # "?"
<1>1. \/ r \in [fn : {"deleteFile", "shareFile"}, u : Users, dir : Seq(STRING), ids : SUBSET Nat]
      \/ r \in [fn : {"getShareByLink"}, u : Users, dir : Seq(STRING), link : Links]
      \/ r \in [fn : {"addFolder"}, u : Users, dir : Seq(STRING), name : STRING]
      \/ r \in [fn : {"uploadFile"}, u : Users, dir : Seq(STRING), md5 : STRING \ {"?"}]
  BY FilesAssumption
<1>2. Users \subseteq STRING
  BY FilesAssumption
<1>. QED  BY <1>1, <1>2 DEF Entries, Named

LEMMA OnDiskIs ==
  ASSUME NEW S, NEW u \in S, NEW dir \in Seq(S)
  PROVE  OnDisk(u, dir) \in Seq(S) /\ OnDisk(u, dir)[1] = u /\ Len(OnDisk(u, dir)) = Len(dir) + 1
<1>. PICK p, c : p = <<u>> /\ c = p \o dir
  OBVIOUS
<1>1. p \in Seq(S) /\ Len(p) = 1 /\ p[1] = u
  OBVIOUS
<1>2. c \in Seq(S) /\ Len(c) = Len(p) + Len(dir)
      /\ \A i \in 1..(Len(p) + Len(dir)) : c[i] = IF i <= Len(p) THEN p[i] ELSE dir[i - Len(p)]
  BY <1>1, ConcatProperties
<1>3. Len(dir) \in Nat
  BY LenProperties
<1>4. 1 \in 1..(Len(p) + Len(dir)) /\ 1 <= Len(p) /\ Len(p) + Len(dir) = Len(dir) + 1
  BY <1>1, <1>3
<1>5. OnDisk(u, dir) = c
  BY DEF OnDisk
<1>6. c \in Seq(S) /\ Len(c) = Len(dir) + 1 /\ c[1] = u
  BY <1>1, <1>2, <1>4
<1>. QED  BY <1>5, <1>6

LEMMA OnDiskInjective ==
  ASSUME NEW S, NEW u \in S, NEW v \in S, NEW d \in Seq(S), NEW e \in Seq(S), OnDisk(u, d) = OnDisk(v, e)
  PROVE  u = v /\ d = e
<1>1. u = OnDisk(u, d)[1] /\ v = OnDisk(v, e)[1]
  BY OnDiskIs
<1>2. u = v
  BY <1>1
<1>. PICK p : p = <<u>>
  OBVIOUS
<1>3. p \in Seq(S)
  OBVIOUS
<1>4. p \o d = p \o e
  BY <1>2 DEF OnDisk
<1>5. d = e
  BY <1>3, <1>4, ConcatSimplifications
<1>. QED  BY <1>2, <1>5

(* The last component of a path, and the directory it is in, are its own.   *)
LEMMA PathIs ==
  ASSUME NEW S, NEW u \in S, NEW dir \in Seq(S), NEW n \in S, NEW p, p = Append(OnDisk(u, dir), n)
  PROVE  p \in Seq(S) /\ p # <<>> /\ p[Len(p)] = n
<1>. PICK d : d = OnDisk(u, dir)
  OBVIOUS
<1>1. d \in Seq(S)
  BY OnDiskIs
<1>2. p \in Seq(S) /\ p # <<>> /\ Len(p) = Len(d) + 1 /\ p[Len(d) + 1] = n
  BY <1>1, AppendProperties
<1>. QED  BY <1>2

LEMMA RequestPath ==
  ASSUME NEW r \in Requests, r.fn \in {"uploadFile", "addFolder"}
  PROVE  /\ PathOf(r) \in Seq(STRING) /\ PathOf(r) # <<>>
         /\ PathOf(r)[Len(PathOf(r))] = IF r.fn = "uploadFile" THEN r.md5 ELSE r.name
         /\ KeyOf(r) = "?" <=> r.fn = "addFolder"
<1>. PICK n : n = IF r.fn = "uploadFile" THEN r.md5 ELSE r.name
  OBVIOUS
<1>1. n \in STRING
  BY RequestIs
<1>2. \A p : p = PathOf(r) => p = Append(OnDisk(r.u, r.dir), n)
  BY Zenon DEF PathOf
<1>3. r.u \in STRING /\ r.dir \in Seq(STRING)
  BY RequestIs
<1>. PICK p : p = PathOf(r)
  OBVIOUS
<1>4. p \in Seq(STRING) /\ p # <<>> /\ p[Len(p)] = n
  BY <1>1, <1>2, <1>3, PathIs
<1>5. KeyOf(r) = "?" <=> r.fn = "addFolder"
  BY RequestIs DEF KeyOf
<1>. QED  BY <1>4, <1>5

(* Two requests that insert a row with the same path and md5 are the same.  *)
LEMMA PathInjective ==
  ASSUME NEW r \in Requests, NEW q \in Requests, r.fn \in {"uploadFile", "addFolder"}, r.fn = q.fn, PathOf(r) = PathOf(q)
  PROVE  r = q
<1>. PICK n : n = IF r.fn = "uploadFile" THEN r.md5 ELSE r.name
  OBVIOUS
<1>. PICK m : m = IF q.fn = "uploadFile" THEN q.md5 ELSE q.name
  OBVIOUS
<1>1. n \in STRING /\ m \in STRING
  BY RequestIs
<1>2. Append(OnDisk(r.u, r.dir), n) = Append(OnDisk(q.u, q.dir), m)
  BY DEF PathOf
<1>3. r.u \in STRING /\ r.dir \in Seq(STRING) /\ q.u \in STRING /\ q.dir \in Seq(STRING)
  BY RequestIs
<1>4. OnDisk(r.u, r.dir) \in Seq(STRING) /\ OnDisk(q.u, q.dir) \in Seq(STRING)
  BY <1>3, OnDiskIs
<1>. PICK a, b : a = OnDisk(r.u, r.dir) /\ b = OnDisk(q.u, q.dir)
  OBVIOUS
<1>5. a = b /\ n = m
  BY <1>1, <1>2, <1>4, AppendInjective
<1>6. r.u = q.u /\ r.dir = q.dir
  BY <1>3, <1>5, OnDiskInjective
<1>7. \/ r \in [fn : {"addFolder"}, u : Users, dir : Seq(STRING), name : STRING]
      \/ r \in [fn : {"uploadFile"}, u : Users, dir : Seq(STRING), md5 : STRING \ {"?"}]
  BY FilesAssumption
<1>8. \/ q \in [fn : {"addFolder"}, u : Users, dir : Seq(STRING), name : STRING]
      \/ q \in [fn : {"uploadFile"}, u : Users, dir : Seq(STRING), md5 : STRING \ {"?"}]
  BY FilesAssumption
<1>9. CASE r.fn = "addFolder"
  <2>1. r.name = q.name
    BY <1>5, <1>9
  <2>2. r = [fn |-> r.fn, u |-> r.u, dir |-> r.dir, name |-> r.name] /\ q = [fn |-> q.fn, u |-> q.u, dir |-> q.dir, name |-> q.name]
    BY <1>7, <1>8, <1>9
  <2>. QED  BY <1>6, <2>1, <2>2, Zenon
<1>10. CASE r.fn = "uploadFile"
  <2>1. r.md5 = q.md5
    BY <1>5, <1>10
  <2>2. r = [fn |-> r.fn, u |-> r.u, dir |-> r.dir, md5 |-> r.md5] /\ q = [fn |-> q.fn, u |-> q.u, dir |-> q.dir, md5 |-> q.md5]
    BY <1>7, <1>8, <1>10
  <2>. QED  BY <1>6, <2>1, <2>2, Zenon
<1>. QED  BY <1>9, <1>10

-----------------------------------------------------------------------------
(* Directories, one below another.                                          *)
LEMMA BelowItself ==
  ASSUME NEW S, NEW d \in Seq(S)
  PROVE  IsBelow(d, d)
<1>1. SubSeq(d, 1, Len(d)) = d /\ Len(d) \in Nat
  BY SubSeqFull, LenProperties
<1>. QED  BY <1>1 DEF IsBelow

LEMMA BelowFirst ==
  ASSUME NEW S, NEW d \in Seq(S), NEW n \in S, NEW k \in Nat, k <= Len(d)
  PROVE  SubSeq(Append(d, n), 1, k) = SubSeq(d, 1, k)
<1>. PICK a : a = Append(d, n)
  OBVIOUS
<1>1. a \in Seq(S) /\ Len(a) = Len(d) + 1 /\ \A i \in 1..Len(d) : a[i] = d[i]
  BY AppendProperties
<1>2. Len(d) \in Nat
  BY LenProperties
<1>3. \A i \in 1..k : a[i] \in S /\ d[i] \in S /\ a[i] = d[i]
  <2>1. \A i \in 1..k : i \in 1..Len(d)
    BY <1>2
  <2>. QED  BY <1>1, <2>1, ElementOfSeq
<1>. PICK x, y : x = SubSeq(a, 1, k) /\ y = SubSeq(d, 1, k)
  OBVIOUS
<1>4. x \in Seq(S) /\ Len(x) = (IF 1 <= k THEN k - 1 + 1 ELSE 0) /\ \A i \in 1..(k - 1 + 1) : x[i] = a[1 + i - 1]
  BY <1>3, SubSeqProperties
<1>5. y \in Seq(S) /\ Len(y) = (IF 1 <= k THEN k - 1 + 1 ELSE 0) /\ \A i \in 1..(k - 1 + 1) : y[i] = d[1 + i - 1]
  BY <1>3, SubSeqProperties
<1>6. Len(x) = k /\ Len(y) = k
  BY <1>4, <1>5
<1>7. \A i \in 1..k : i \in 1..(k - 1 + 1) /\ 1 + i - 1 = i
  OBVIOUS
<1>8. \A i \in 1..Len(x) : x[i] = y[i]
  BY <1>3, <1>4, <1>5, <1>6, <1>7
<1>9. x = y
  BY <1>4, <1>5, <1>6, <1>8, SeqEqual
<1>. QED  BY <1>9

LEMMA BelowInside ==
  ASSUME NEW S, NEW d \in Seq(S), NEW n \in S, NEW top \in Seq(S), IsBelow(d, top)
  PROVE  IsBelow(Append(d, n), top)
<1>1. Len(top) \in Nat /\ Len(top) <= Len(d) /\ SubSeq(d, 1, Len(top)) = top /\ Len(d) \in Nat
  BY LenProperties DEF IsBelow
<1>2. Len(Append(d, n)) = Len(d) + 1
  BY AppendProperties
<1>3. SubSeq(Append(d, n), 1, Len(top)) = SubSeq(d, 1, Len(top))
  BY <1>1, BelowFirst
<1>4. Len(Append(d, n)) >= Len(top)
  BY <1>1, <1>2
<1>. QED  BY <1>1, <1>3, <1>4 DEF IsBelow

LEMMA BelowAbove ==
  ASSUME NEW S, NEW d \in Seq(S), NEW n \in S, NEW top \in Seq(S), IsBelow(Append(d, n), top)
  PROVE  IsBelow(d, top) \/ Append(d, n) = top
<1>. PICK a, k, m : a = Append(d, n) /\ k = Len(top) /\ m = Len(d)
  OBVIOUS
<1>1. a \in Seq(S) /\ Len(a) = m + 1 /\ m \in Nat /\ k \in Nat
  BY AppendProperties, LenProperties
<1>2. k <= m + 1 /\ SubSeq(a, 1, k) = top
  BY <1>1 DEF IsBelow
<1>3. CASE k = Len(a)
  BY <1>1, <1>2, <1>3, SubSeqFull
<1>4. CASE k <= m
  <2>1. SubSeq(d, 1, k) = top
    BY <1>1, <1>2, <1>4, BelowFirst
  <2>. QED  BY <1>1, <1>4, <2>1 DEF IsBelow
<1>5. k = Len(a) \/ k <= m
  BY <1>1, <1>2
<1>. QED  BY <1>3, <1>4, <1>5

-----------------------------------------------------------------------------
(* Handlers and frames.                                                     *)
LEMMA HandlingIsNotIdle ==
  ASSUME NEW h \in Handling
  PROVE  h # Idle
<1>1. "stack" \in DOMAIN h
  BY DEF Handling
<1>2. "stack" \notin DOMAIN Idle
  BY DEF Idle
<1>. QED  BY <1>1, <1>2

LEMMA IdleDoesNothing ==
  ASSUME NEW s \in Slots, NEW fn, NEW step, Doing(s, fn, step)
  PROVE  run[s] # Idle /\ Top(s).fn = fn /\ Top(s).step = step
BY DEF Doing

LEMMA FrameIs ==
  ASSUME NEW f \in FrameRecord
  PROVE  /\ f.fn \in RowFns \cup IdFns /\ f.step \in Steps /\ f.fid \in Nat /\ f.dir \in Seq(STRING)
         /\ f.dest \in Seq(STRING) \cup {<<"taken">>} /\ f.link \in Links \cup {0}
         /\ f.fn \in RowFns => f.rest \subseteq Relation
         /\ f.fn \in IdFns => f.rest \subseteq Nat
         /\ f = [fn |-> f.fn, step |-> f.step, fid |-> f.fid, dir |-> f.dir, rest |-> f.rest, dest |-> f.dest, link |-> f.link]
BY DEF FrameRecord, FramesOf, RowFns, IdFns, Copiers

LEMMA IsFrame ==
  ASSUME NEW g, g = [fn |-> g.fn, step |-> g.step, fid |-> g.fid, dir |-> g.dir, rest |-> g.rest, dest |-> g.dest, link |-> g.link],
         g.fn \in RowFns \cup IdFns, g.step \in Steps, g.fid \in Nat, g.dir \in Seq(STRING),
         g.fn \in RowFns => g.rest \subseteq Relation, g.fn \in IdFns => g.rest \subseteq Nat,
         g.dest \in Seq(STRING) \cup {<<"taken">>}, g.link \in Links \cup {0}
  PROVE  g \in FrameRecord
<1>1. CASE g.fn \in RowFns
  BY <1>1 DEF FrameRecord, FramesOf
<1>2. CASE g.fn \in IdFns
  BY <1>2 DEF FrameRecord, FramesOf
<1>. QED  BY <1>1, <1>2

(* The frames a handler makes of the one it has.                            *)
LEMMA StepFrame ==
  ASSUME NEW f \in FrameRecord, NEW step \in Steps, NEW g, g = [f EXCEPT !.step = step]
  PROVE  g \in FrameRecord /\ g.step = step /\ g.fn = f.fn /\ g.fid = f.fid /\ g.dir = f.dir /\ g.rest = f.rest
         /\ g.dest = f.dest /\ g.link = f.link
<1>. PICK fn, fid, dir, rest, dest, link :
       fn = f.fn /\ fid = f.fid /\ dir = f.dir /\ rest = f.rest /\ dest = f.dest /\ link = f.link
  OBVIOUS
<1>1. g = [fn |-> fn, step |-> step, fid |-> fid, dir |-> dir, rest |-> rest, dest |-> dest, link |-> link]
  BY DEF FrameRecord, FramesOf
<1>2. fn \in RowFns \cup IdFns /\ fid \in Nat /\ dir \in Seq(STRING) /\ (fn \in RowFns => rest \subseteq Relation) /\ (fn \in IdFns => rest \subseteq Nat) /\ dest \in Seq(STRING) \cup {<<"taken">>} /\ link \in Links \cup {0}
  BY FrameIs
<1>3. g.step = step /\ g.fn = f.fn /\ g.fid = f.fid /\ g.dir = f.dir /\ g.rest = f.rest /\ g.dest = f.dest /\ g.link = f.link
  BY <1>1
<1>4. g \in FrameRecord
  BY <1>1, <1>2, <1>3, IsFrame
<1>. QED  BY <1>3, <1>4

LEMMA RestFrame ==
  ASSUME NEW f \in FrameRecord, NEW x, NEW g, g = [f EXCEPT !.rest = @ \ {x}]
  PROVE  g \in FrameRecord /\ g.step = f.step /\ g.fn = f.fn /\ g.fid = f.fid /\ g.dir = f.dir /\ g.rest = f.rest \ {x}
         /\ g.dest = f.dest /\ g.link = f.link
<1>. PICK fn, step, fid, dir, rest, dest, link :
       fn = f.fn /\ step = f.step /\ fid = f.fid /\ dir = f.dir /\ rest = f.rest \ {x} /\ dest = f.dest /\ link = f.link
  OBVIOUS
<1>1. g = [fn |-> fn, step |-> step, fid |-> fid, dir |-> dir, rest |-> rest, dest |-> dest, link |-> link]
  BY DEF FrameRecord, FramesOf
<1>2. fn \in RowFns \cup IdFns /\ step \in Steps /\ fid \in Nat /\ dir \in Seq(STRING) /\ (fn \in RowFns => rest \subseteq Relation) /\ (fn \in IdFns => rest \subseteq Nat) /\ dest \in Seq(STRING) \cup {<<"taken">>} /\ link \in Links \cup {0}
  BY FrameIs
<1>3. g.step = f.step /\ g.fn = f.fn /\ g.fid = f.fid /\ g.dir = f.dir /\ g.rest = f.rest \ {x} /\ g.dest = f.dest /\ g.link = f.link
  BY <1>1
<1>4. g \in FrameRecord
  BY <1>1, <1>2, <1>3, IsFrame
<1>. QED  BY <1>3, <1>4

LEMMA DestFrame ==
  ASSUME NEW f \in FrameRecord, NEW d \in Seq(STRING) \cup {<<"taken">>}, NEW g, g = [f EXCEPT !.dest = d]
  PROVE  g \in FrameRecord /\ g.step = f.step /\ g.fn = f.fn /\ g.fid = f.fid /\ g.dir = f.dir /\ g.rest = f.rest
         /\ g.dest = d /\ g.link = f.link
<1>. PICK fn, step, fid, dir, rest, link :
       fn = f.fn /\ step = f.step /\ fid = f.fid /\ dir = f.dir /\ rest = f.rest /\ link = f.link
  OBVIOUS
<1>1. g = [fn |-> fn, step |-> step, fid |-> fid, dir |-> dir, rest |-> rest, dest |-> d, link |-> link]
  BY DEF FrameRecord, FramesOf
<1>2. fn \in RowFns \cup IdFns /\ step \in Steps /\ fid \in Nat /\ dir \in Seq(STRING) /\ (fn \in RowFns => rest \subseteq Relation) /\ (fn \in IdFns => rest \subseteq Nat) /\ link \in Links \cup {0}
  BY FrameIs
<1>3. g.step = f.step /\ g.fn = f.fn /\ g.fid = f.fid /\ g.dir = f.dir /\ g.rest = f.rest /\ g.dest = d /\ g.link = f.link
  BY <1>1
<1>4. g \in FrameRecord
  BY <1>1, <1>2, <1>3, IsFrame
<1>. QED  BY <1>3, <1>4

LEMMA FreshFrame ==
  ASSUME NEW fn \in RowFns \cup IdFns, NEW step \in Steps, NEW fid \in Nat, NEW dir \in Seq(STRING), NEW rest,
         rest = {} \/ (fn \in IdFns /\ fn \notin RowFns /\ rest \subseteq Nat), NEW g, g = Frame(fn, step, fid, dir, rest)
  PROVE  g \in FrameRecord /\ g.step = step /\ g.fn = fn /\ g.fid = fid /\ g.dir = dir /\ g.rest = rest
         /\ g.dest = <<>> /\ g.link = 0
<1>. PICK dest : dest = <<>>
  OBVIOUS
<1>1. g = [fn |-> fn, step |-> step, fid |-> fid, dir |-> dir, rest |-> rest, dest |-> dest, link |-> 0]
  BY DEF Frame
<1>2. dest \in Seq(STRING)
  BY EmptySeq
<1>3. (fn \in RowFns => rest \subseteq Relation) /\ (fn \in IdFns => rest \subseteq Nat)
  OBVIOUS
<1>5. g.step = step /\ g.fn = fn /\ g.fid = fid /\ g.dir = dir /\ g.rest = rest /\ g.dest = <<>> /\ g.link = 0
  BY <1>1
<1>4. g \in FrameRecord
  BY <1>1, <1>2, <1>3, <1>5, IsFrame
<1>. QED  BY <1>4, <1>5

-----------------------------------------------------------------------------
(* A handler in progress.                                                   *)
LEMMA Running ==
  ASSUME BaseInv, NEW s \in Slots, run[s] # Idle
  PROVE  /\ run[s] \in Handling /\ Rq(s) \in Requests /\ Top(s) \in FrameRecord /\ Beneath(s) \subseteq FrameRecord
         /\ run[s].stack \in Seq(FrameRecord) /\ run[s].stack # <<>> /\ run[s].alone \in BOOLEAN
         /\ OnStack(s) = {Top(s)} \cup Beneath(s)
         /\ reply[Rq(s)].kind = "asked"
         /\ FrameOK(Rq(s), Top(s)) /\ \A f \in Beneath(s) : FrameOK(Rq(s), f) /\ f.fn \in Walkers /\ f.step = "next"
         /\ Top(s).fn \in Entries <=> Len(run[s].stack) = 1
         /\ Top(s).fn \in Entries => Beneath(s) = {}
<1>1. run[s] \in Handling
  BY DEF BaseInv, StateOK
<1>2. Rq(s) \in Requests /\ run[s].stack \in Seq(FrameRecord) /\ run[s].stack # <<>> /\ run[s].alone \in BOOLEAN
  BY <1>1 DEF Handling, Rq
<1>. PICK q : q = run[s].stack
  OBVIOUS
<1>3. /\ Len(q) \in Nat /\ Len(q) >= 1 /\ Head(q) = q[1] /\ Head(q) \in FrameRecord
      /\ All(q) = {Head(q)} \cup Callers(q) /\ Callers(q) \subseteq FrameRecord
  BY <1>2, StackIs
<1>4. Top(s) = Head(q) /\ OnStack(s) = All(q) /\ Beneath(s) = Callers(q)
  BY DEF Top, OnStack, Beneath
<1>5. reply[Rq(s)].kind = "asked" /\ StackOK(q) /\ \A f \in OnStack(s) : FrameOK(Rq(s), f)
  BY DEF BaseInv, SlotOK
<1>6. 1 \in 1..Len(q)
  BY <1>3
<1>7. Top(s).fn \in Entries <=> Len(q) = 1
  BY <1>3, <1>4, <1>5, <1>6 DEF StackOK
<1>8. Len(q) = 1 => Callers(q) = {}
  BY DEF Callers
<1>9. \A f \in Beneath(s) : f.fn \in Walkers /\ f.step = "next"
  BY <1>4, <1>5 DEF StackOK
<1>. QED  BY <1>1, <1>2, <1>3, <1>4, <1>5, <1>7, <1>8, <1>9, Zenon

(* The handler in slot s goes on with frame top, above those beneath.       *)
Stays(s) == \A t \in Slots \ {s} : run'[t] = run[t]
MovesTo(s, top, beneath) ==
  /\ run' \in [Slots -> Handling \cup {Idle}]
  /\ run'[s] # Idle /\ run'[s].r = Rq(s) /\ run'[s].alone = run[s].alone /\ Stays(s)
  /\ Head(run'[s].stack) = top /\ Callers(run'[s].stack) = beneath /\ All(run'[s].stack) = {top} \cup beneath
  /\ StackOK(run'[s].stack)
EndsWith(s, kind, fid) ==
  /\ run' \in [Slots -> Handling \cup {Idle}] /\ run'[s] = Idle /\ Stays(s)
  /\ reply' \in [Requests -> [kind : Kinds, fid : Nat]]
  /\ reply'[Rq(s)] = [kind |-> kind, fid |-> fid] /\ \A r \in Requests \ {Rq(s)} : reply'[r] = reply[r]

LEMMA StackMoves ==
  ASSUME BaseInv, NEW s \in Slots, run[s] # Idle, NEW stack, NEW x, NEW under,
         MadeOf(stack, FrameRecord, x, under), StackOK(stack), run' = [run EXCEPT ![s].stack = stack]
  PROVE  MovesTo(s, x, under)
<1>1. run[s] \in Handling /\ run \in [Slots -> Handling \cup {Idle}]
  BY Running DEF BaseInv, StateOK
<1>. PICK h : h = [run[s] EXCEPT !.stack = stack]
  OBVIOUS
<1>2. h \in Handling /\ h.r = run[s].r /\ h.stack = stack /\ h.alone = run[s].alone
  BY <1>1 DEF Handling, MadeOf
<1>3. run' = [run EXCEPT ![s] = h]
  OBVIOUS
<1>4. run' \in [Slots -> Handling \cup {Idle}] /\ run'[s] = h /\ \A t \in Slots \ {s} : run'[t] = run[t]
  BY <1>1, <1>2, <1>3
<1>5. h # Idle
  BY <1>2, HandlingIsNotIdle
<1>. QED  BY <1>2, <1>4, <1>5 DEF MovesTo, Stays, Rq, MadeOf

LEMMA BecomeMoves ==
  ASSUME BaseInv, NEW s \in Slots, run[s] # Idle, NEW x \in FrameRecord, x.fn = Top(s).fn, Become(s, x)
  PROVE  MovesTo(s, x, Beneath(s))
<1>. PICK q : q = run[s].stack
  OBVIOUS
<1>. PICK r : r = <<x>> \o Tail(q)
  OBVIOUS
<1>1. q \in Seq(FrameRecord) /\ q # <<>> /\ StackOK(q)
  BY Running DEF BaseInv, SlotOK
<1>2. x.fn = Head(q).fn
  BY DEF Top
<1>3. MadeOf(r, FrameRecord, x, Callers(q))
  BY <1>1, BecomeStack, Zenon
<1>4. StackOK(r)
  BY <1>1, <1>2, BecomeStack, Zenon
<1>5. run' = [run EXCEPT ![s].stack = r]
  BY DEF Become
<1>. QED  BY <1>3, <1>4, <1>5, StackMoves, Zenon DEF Beneath

LEMMA CallMoves ==
  ASSUME BaseInv, NEW s \in Slots, run[s] # Idle, NEW x \in FrameRecord, NEW y \in FrameRecord,
         x.fn \notin Entries, y.fn = Top(s).fn, y.fn \in Walkers, y.step = "next", Call(s, y, x)
  PROVE  MovesTo(s, x, {y} \cup Beneath(s))
<1>. PICK q : q = run[s].stack
  OBVIOUS
<1>. PICK r : r = <<x, y>> \o Tail(q)
  OBVIOUS
<1>1. q \in Seq(FrameRecord) /\ q # <<>> /\ StackOK(q)
  BY Running DEF BaseInv, SlotOK
<1>2. y.fn = Head(q).fn
  BY DEF Top
<1>3. MadeOf(r, FrameRecord, x, {y} \cup Callers(q))
  BY <1>1, CallStack, Zenon
<1>4. StackOK(r)
  BY <1>1, <1>2, CallStack, Zenon
<1>5. run' = [run EXCEPT ![s].stack = r]
  BY DEF Call
<1>. QED  BY <1>3, <1>4, <1>5, StackMoves, Zenon DEF Beneath

LEMMA EndsMoves ==
  ASSUME BaseInv, NEW s \in Slots, run[s] # Idle, NEW kind \in Kinds, NEW fid \in Nat, Ends(s, kind, fid)
  PROVE  EndsWith(s, kind, fid)
<1>1. run \in [Slots -> Handling \cup {Idle}] /\ reply \in [Requests -> [kind : Kinds, fid : Nat]]
  BY DEF BaseInv, StateOK
<1>2. Rq(s) \in Requests
  BY Running
<1>. PICK p, r : p = [kind |-> kind, fid |-> fid] /\ r = Rq(s)
  OBVIOUS
<1>3. p \in [kind : Kinds, fid : Nat]
  OBVIOUS
<1>4. run' = [run EXCEPT ![s] = Idle] /\ reply' = [reply EXCEPT ![r] = p]
  BY DEF Ends
<1>5. run' \in [Slots -> Handling \cup {Idle}] /\ run'[s] = Idle /\ \A t \in Slots \ {s} : run'[t] = run[t]
  BY <1>1, <1>4
<1>6. reply' \in [Requests -> [kind : Kinds, fid : Nat]] /\ reply'[r] = p /\ \A o \in Requests \ {r} : reply'[o] = reply[o]
  BY <1>1, <1>2, <1>3, <1>4
<1>. QED  BY <1>5, <1>6 DEF EndsWith, Stays

(* A function returns to the one beneath; the last one ends the handler.    *)
LEMMA ReturnMoves ==
  ASSUME BaseInv, NEW s \in Slots, run[s] # Idle, Return(s)
  PROVE  \/ Top(s).fn \in Entries /\ EndsWith(s, "dropped", 0)
         \/ /\ Top(s).fn \notin Entries /\ reply' = reply
            /\ \E f \in Beneath(s), under \in SUBSET Beneath(s) : MovesTo(s, f, under) /\ {f} \cup under = Beneath(s)
<1>. PICK q : q = run[s].stack
  OBVIOUS
<1>. PICK r : r = Tail(q)
  OBVIOUS
<1>1. q \in Seq(FrameRecord) /\ q # <<>> /\ (Top(s).fn \in Entries <=> Len(q) = 1)
  BY Running
<1>2. CASE Len(q) = 1
  <2>1. Ends(s, "dropped", 0)
    BY <1>2 DEF Return
  <2>2. EndsWith(s, "dropped", 0)
    BY <2>1, EndsMoves DEF Kinds
  <2>. QED  BY <1>1, <1>2, <2>2
<1>3. CASE Len(q) # 1
  <2>1. StackOK(q)
    BY DEF BaseInv, SlotOK
  <2>2. MadeOf(r, FrameRecord, Head(r), Callers(r)) /\ All(r) = Callers(q)
    BY <1>1, <1>3, ReturnStack, Zenon
  <2>3. StackOK(r)
    BY <1>1, <1>3, <2>1, ReturnStack, Zenon
  <2>4. run' = [run EXCEPT ![s].stack = Tail(@)] /\ reply' = reply
    BY <1>3 DEF Return
  <2>5. run' = [run EXCEPT ![s].stack = r]
    BY <2>4
  <2>6. MovesTo(s, Head(r), Callers(r))
    BY <2>2, <2>3, <2>5, StackMoves, Zenon
  <2>7. {Head(r)} \cup Callers(r) = Beneath(s)
    BY <2>2 DEF MadeOf, Beneath
  <2>. QED  BY <1>1, <1>3, <2>4, <2>6, <2>7
<1>. QED  BY <1>2, <1>3

-----------------------------------------------------------------------------
(* The tables.  Rows of t_file are never taken away: they lose "there", and *)
(* get their state.  What a frame remembers of them stays true.             *)
Kept(f) ==
  /\ t_file'[f].path = t_file[f].path /\ t_file'[f].md5 = t_file[f].md5 /\ t_file'[f].type = t_file[f].type
  /\ t_file[f].state = 1 => t_file'[f].state = 1
  /\ ~t_file[f].there => ~t_file'[f].there
Grows == t_file' \in Seq(FileRecord) /\ Fids \subseteq Fids' /\ \A f \in Fids : Kept(f)

LEMMA RelationStays ==
  ASSUME Grows, NEW q, RelationOK(q)
  PROVE  RelationOK(q)'
BY DEF Grows, Kept, RelationOK, IsFolder, Name

LEMMA FrameStays ==
  ASSUME Grows, NEW r, NEW f, FrameOK(r, f)
  PROVE  FrameOK(r, f)'
<1>1. \A k \in Fids : k \in Fids' /\ (IsFile(k) => IsFile(k)') /\ (IsFolder(k) => IsFolder(k)') /\ (Marked(k) => Marked(k)')
                      /\ Name(k)' = Name(k) /\ (~t_file[k].there => ~t_file'[k].there) /\ t_file'[k].md5 = t_file[k].md5
  BY DEF Grows, Kept, IsFile, IsFolder, Marked, Name
<1>2. \A k : FromPath(k, r) => FromPath(k, r)'
  BY DEF Grows, Kept, FromPath
<1>3. RowsOK(f) => RowsOK(f)'
  BY RelationStays DEF RowsOK
<1>4. f.fn = "deleteFile" => DeleteFileOK(r, f)'
  BY DEF FrameOK, DeleteFileOK
<1>5. f.fn = "deleteFileById" => ByIdOK(r, f)'
  BY <1>1 DEF FrameOK, ByIdOK
<1>6. f.fn = "deleteFolderById" => FolderOK(r, f)'
  <2>. SUFFICES ASSUME FolderOK(r, f) PROVE FolderOK(r, f)'
    BY DEF FrameOK
  <2>1. PICK k \in r.ids : k \in Fids /\ IsFolder(k) /\ IsBelow(f.dest, Append(r.dir, Name(k)))
    BY DEF FolderOK
  <2>2. k \in Fids' /\ IsFolder(k)' /\ IsBelow(f.dest, Append(r.dir, Name(k)))'
    BY <1>1, <2>1 DEF IsBelow
  <2>3. f.fid \in Fids' /\ IsFolder(f.fid)' /\ f.dest = Append(f.dir, Name(f.fid))'
    BY <1>1 DEF FolderOK
  <2>. QED  BY <1>3, <2>2, <2>3 DEF FolderOK
<1>7. f.fn = "shareFile" => ShareFileOK(r, f)'
  BY DEF FrameOK, ShareFileOK
<1>8. f.fn \in Copiers => CopierOK(r, f)'
  BY <1>3 DEF FrameOK, CopierOK
<1>9. f.fn = "addFolder" => AddFolderOK(r, f)'
  BY <1>2 DEF FrameOK, AddFolderOK
<1>10. f.fn = "uploadFile" => UploadFileOK(r, f)'
  BY <1>1, <1>2 DEF FrameOK, UploadFileOK
<1>. QED  BY <1>4, <1>5, <1>6, <1>7, <1>8, <1>9, <1>10 DEF FrameOK

LEMMA ReplyStays ==
  ASSUME Grows, NEW r, ReplyOK(r), reply'[r] = reply[r]
  PROVE  ReplyOK(r)'
BY DEF Grows, Kept, ReplyOK, Marked, FromPath

LEMMA FileStays ==
  ASSUME Grows, NEW f \in Fids, FileOK(f), t_file \in Seq(FileRecord)
  PROVE  FileOK(f)'
<1>1. Kept(f) /\ f \in Fids'
  BY DEF Grows
<1>2. t_file[f] \in FileRecord /\ t_file'[f] \in FileRecord
  BY <1>1, ElementOfSeq DEF Grows, Fids
<1>. QED  BY <1>1, <1>2 DEF Kept, FileOK, IsFile, Name, FileRecord

LEMMA SameGrows ==
  ASSUME t_file \in Seq(FileRecord), t_file' = t_file
  PROVE  Grows /\ Fids' = Fids
BY DEF Grows, Kept, Fids

LEMMA FidsAre ==
  ASSUME t_file \in Seq(FileRecord)
  PROVE  Len(t_file) \in Nat /\ Fids \subseteq Nat /\ \A f \in Fids : t_file[f] \in FileRecord
<1>1. \A f \in 1..Len(t_file) : t_file[f] \in FileRecord
  BY ElementOfSeq
<1>2. Len(t_file) \in Nat
  BY LenProperties
<1>. QED  BY <1>1, <1>2 DEF Fids

LEMMA AllocIs ==
  ASSUME t_file \in Seq(FileRecord), NEW row \in FileRecord, Alloc(row)
  PROVE  /\ Grows
         /\ \E n \in Nat : n \notin Fids /\ Fids' = Fids \cup {n} /\ t_file'[n] = row /\ \A f \in Fids : t_file'[f] = t_file[f]
<1>. PICK n : n = Len(t_file) + 1
  OBVIOUS
<1>1. t_file' \in Seq(FileRecord) /\ Len(t_file') = n /\ t_file'[n] = row /\ \A f \in 1..Len(t_file) : t_file'[f] = t_file[f]
  BY AppendProperties DEF Alloc
<1>2. Len(t_file) \in Nat
  BY FidsAre
<1>3. n \in Nat /\ n \notin Fids
  BY <1>2 DEF Fids
<1>4. Fids' = Fids \cup {n}
  BY <1>1, <1>2 DEF Fids
<1>5. \A f \in Fids : t_file'[f] = t_file[f]
  BY <1>1 DEF Fids
<1>6. Grows
  BY <1>1, <1>4, <1>5 DEF Grows, Kept
<1>. QED  BY <1>1, <1>3, <1>4, <1>5, <1>6

LEMMA MarkIs ==
  ASSUME t_file \in Seq(FileRecord), NEW f \in Fids, t_file' = [t_file EXCEPT ![f].state = 1]
  PROVE  /\ Grows /\ Fids' = Fids /\ t_file'[f].state = 1
         /\ \A g \in Fids : t_file'[g].there = t_file[g].there /\ (g # f => t_file'[g] = t_file[g])
<1>. PICK row : row = [t_file[f] EXCEPT !.state = 1]
  OBVIOUS
<1>1. t_file[f] \in FileRecord /\ f \in 1..Len(t_file)
  BY FidsAre DEF Fids
<1>2. row \in FileRecord /\ row.path = t_file[f].path /\ row.md5 = t_file[f].md5 /\ row.type = t_file[f].type
      /\ row.there = t_file[f].there /\ row.state = 1
  BY <1>1 DEF FileRecord
<1>3. t_file' = [t_file EXCEPT ![f] = row]
  OBVIOUS
<1>4. t_file' \in Seq(FileRecord) /\ Len(t_file') = Len(t_file) /\ \A g \in 1..Len(t_file) : t_file'[g] = IF g = f THEN row ELSE t_file[g]
  BY <1>1, <1>2, <1>3, ExceptSeq
<1>5. Fids' = Fids /\ \A g \in Fids : t_file'[g] = IF g = f THEN row ELSE t_file[g]
  BY <1>4 DEF Fids
<1>. QED  BY <1>2, <1>4, <1>5 DEF Grows, Kept

LEMMA GoneIs ==
  ASSUME t_file \in Seq(FileRecord), NEW f \in Fids, t_file' = [t_file EXCEPT ![f].there = FALSE]
  PROVE  /\ Grows /\ Fids' = Fids /\ t_file'[f].there = FALSE
         /\ \A g \in Fids : t_file'[g].state = t_file[g].state /\ (g # f => t_file'[g] = t_file[g])
<1>. PICK row : row = [t_file[f] EXCEPT !.there = FALSE]
  OBVIOUS
<1>1. t_file[f] \in FileRecord /\ f \in 1..Len(t_file)
  BY FidsAre DEF Fids
<1>2. row \in FileRecord /\ row.path = t_file[f].path /\ row.md5 = t_file[f].md5 /\ row.type = t_file[f].type
      /\ row.there = FALSE /\ row.state = t_file[f].state
  BY <1>1 DEF FileRecord
<1>3. t_file' = [t_file EXCEPT ![f] = row]
  OBVIOUS
<1>4. t_file' \in Seq(FileRecord) /\ Len(t_file') = Len(t_file) /\ \A g \in 1..Len(t_file) : t_file'[g] = IF g = f THEN row ELSE t_file[g]
  BY <1>1, <1>2, <1>3, ExceptSeq
<1>5. Fids' = Fids /\ \A g \in Fids : t_file'[g] = IF g = f THEN row ELSE t_file[g]
  BY <1>4 DEF Fids
<1>. QED  BY <1>2, <1>4, <1>5 DEF Grows, Kept

(* A deletion takes one relation, and the row with the last of them.        *)
DeleteDone(u, fid, dir) ==
  /\ t_user_file' = {q \in t_user_file : ~Is(q, u, fid, dir)}
  /\ Grows /\ Fids' = Fids /\ \A f \in Fids : t_file'[f].state = t_file[f].state /\ (f # fid => t_file'[f] = t_file[f])
  /\ \/ t_file' = t_file
     \/ t_file'[fid].there = FALSE /\ (\E q \in t_user_file : q.f_id = fid) /\ (\A q \in t_user_file' : q.f_id # fid)
  /\ (\E q \in t_user_file : Is(q, u, fid, dir)) /\ (\A q \in t_user_file' : q.f_id # fid) => ~t_file'[fid].there

LEMMA DeleteIs ==
  ASSUME t_file \in Seq(FileRecord), NEW u, NEW fid \in Fids, NEW dir, DeleteRelation(u, fid, dir)
  PROVE  DeleteDone(u, fid, dir)
<1>. PICK kept : kept = {q \in t_user_file : ~Is(q, u, fid, dir)}
  OBVIOUS
<1>1. t_user_file' = kept
  BY DEF DeleteRelation, Matches
<1>2. t_file' = IF kept # t_user_file /\ LastReference(kept, fid) THEN [t_file EXCEPT ![fid].there = FALSE] ELSE t_file
  BY DEF DeleteRelation, Matches
<1>3. kept # t_user_file <=> \E q \in t_user_file : Is(q, u, fid, dir)
  OBVIOUS
<1>4. \A q : Is(q, u, fid, dir) => q.f_id = fid
  BY DEF Is
<1>5. CASE kept # t_user_file /\ LastReference(kept, fid)
  <2>1. t_file' = [t_file EXCEPT ![fid].there = FALSE]
    BY <1>2, <1>5
  <2>2. /\ Grows /\ Fids' = Fids /\ t_file'[fid].there = FALSE
        /\ \A g \in Fids : t_file'[g].state = t_file[g].state /\ (g # fid => t_file'[g] = t_file[g])
    BY <2>1, GoneIs
  <2>3. (\E q \in t_user_file : q.f_id = fid) /\ \A q \in t_user_file' : q.f_id # fid
    BY <1>1, <1>3, <1>4, <1>5 DEF LastReference
  <2>. QED  BY <1>1, <2>2, <2>3 DEF DeleteDone
<1>6. CASE ~(kept # t_user_file /\ LastReference(kept, fid))
  <2>1. t_file' = t_file
    BY <1>2, <1>6
  <2>2. Grows /\ Fids' = Fids
    BY <2>1, SameGrows
  <2>3. ~((\E q \in t_user_file : Is(q, u, fid, dir)) /\ (\A q \in t_user_file' : q.f_id # fid))
    BY <1>1, <1>3, <1>6 DEF LastReference
  <2>. QED  BY <1>1, <2>1, <2>2, <2>3 DEF DeleteDone
<1>. QED  BY <1>5, <1>6

-----------------------------------------------------------------------------
(* The tables after each statement.                                         *)
DbOK == t_file \in Seq(FileRecord) /\ t_user_file \in SUBSET Relation /\ TablesOK

LEMMA SameDb ==
  ASSUME DbOK, UNCHANGED db
  PROVE  DbOK' /\ Grows /\ Fids' = Fids
<1>1. t_file' = t_file /\ t_user_file' = t_user_file
  BY DEF db
<1>2. Grows /\ Fids' = Fids
  BY <1>1, SameGrows DEF DbOK
<1>3. (\A f \in Fids : FileOK(f)') /\ (\A q \in t_user_file : RelationOK(q)')
  BY <1>2, FileStays, RelationStays DEF DbOK, TablesOK
<1>4. KeysOK => KeysOK'
  BY <1>1 DEF KeysOK
<1>. QED  BY <1>1, <1>2, <1>3, <1>4 DEF DbOK, TablesOK

LEMMA DbAfterDelete ==
  ASSUME DbOK, NEW u, NEW fid \in Fids, NEW dir, DeleteDone(u, fid, dir)
  PROVE  DbOK'
<1>1. t_user_file' \subseteq t_user_file /\ Grows /\ Fids' = Fids
  BY DEF DeleteDone
<1>2. (\A f \in Fids : FileOK(f)') /\ (\A q \in t_user_file : RelationOK(q)')
  BY <1>1, FileStays, RelationStays DEF DbOK, TablesOK
<1>3. ASSUME KeysOK PROVE KeysOK'
  <2>1. \A q, r \in t_user_file' : Is(q, r.u_id, r.f_id, r.f_dir) => q = r
    BY <1>1, <1>3 DEF KeysOK
  <2>2. ASSUME NEW r \in t_user_file' PROVE t_file'[r.f_id].there
    <3>1. r.f_id \in Fids /\ t_file[r.f_id].there
      BY <1>1, <1>3 DEF KeysOK, DbOK, TablesOK, RelationOK
    <3>2. CASE t_file' = t_file
      BY <3>1, <3>2
    <3>3. CASE t_file' # t_file
      BY <3>1, <3>3 DEF DeleteDone
    <3>. QED  BY <3>2, <3>3
  <2>3. \A q, r : Is(q, r.u_id, r.f_id, r.f_dir)' <=> Is(q, r.u_id, r.f_id, r.f_dir)
    BY DEF Is
  <2>. QED  BY <2>1, <2>2, <2>3 DEF KeysOK
<1>. QED  BY <1>1, <1>2, <1>3 DEF DbOK, TablesOK, Grows

LEMMA DbAfterInsert ==
  ASSUME DbOK, NEW row \in Relation, RelationOK(row), InsertRelation(row), t_file' = t_file
  PROVE  DbOK' /\ Grows /\ Fids' = Fids
<1>1. t_user_file' = t_user_file \cup {row} /\ Insertable(row)
  BY DEF InsertRelation
<1>2. Grows /\ Fids' = Fids
  BY SameGrows DEF DbOK
<1>3. (\A f \in Fids : FileOK(f)') /\ (\A q \in t_user_file' : RelationOK(q)')
  BY <1>1, <1>2, FileStays, RelationStays DEF DbOK, TablesOK
<1>4. ASSUME SchemaKeys, KeysOK PROVE KeysOK'
  <2>1. t_file[row.f_id].there /\ \A q \in t_user_file : ~Is(q, row.u_id, row.f_id, row.f_dir)
    BY <1>1, <1>4 DEF Insertable
  <2>2. \A q, r : Is(q, r.u_id, r.f_id, r.f_dir) => Is(r, q.u_id, q.f_id, q.f_dir)
    BY DEF Is
  <2>3. \A q, r \in t_user_file' : Is(q, r.u_id, r.f_id, r.f_dir) => q = r
    BY <1>1, <1>4, <2>1, <2>2 DEF KeysOK
  <2>4. \A r \in t_user_file' : t_file'[r.f_id].there
    BY <1>1, <1>4, <2>1 DEF KeysOK
  <2>5. \A q, r : Is(q, r.u_id, r.f_id, r.f_dir)' <=> Is(q, r.u_id, r.f_id, r.f_dir)
    BY DEF Is
  <2>. QED  BY <2>3, <2>4, <2>5 DEF KeysOK
<1>. QED  BY <1>1, <1>2, <1>3, <1>4 DEF DbOK, TablesOK

LEMMA DbAfterAlloc ==
  ASSUME DbOK, NEW row \in FileRecord, row.path # <<>>,
         IF row.type = "file" THEN row.md5 = row.path[Len(row.path)] /\ row.md5 # "?" ELSE row.md5 = "?" /\ row.state = 1,
         Alloc(row), t_user_file' = t_user_file
  PROVE  DbOK' /\ Grows
<1>1. Grows
  BY AllocIs DEF DbOK
<1>2. PICK n \in Nat : n \notin Fids /\ Fids' = Fids \cup {n} /\ t_file'[n] = row /\ \A f \in Fids : t_file'[f] = t_file[f]
  BY AllocIs DEF DbOK
<1>3. \A f \in Fids : FileOK(f)'
  BY <1>1, FileStays DEF DbOK, TablesOK
<1>4. FileOK(n)'
  BY <1>2 DEF FileOK, IsFile, Name
<1>5. \A q \in t_user_file : RelationOK(q)'
  BY <1>1, RelationStays DEF DbOK, TablesOK
<1>6. ASSUME KeysOK PROVE KeysOK'
  <2>1. \A q \in t_user_file : q.f_id \in Fids
    BY DEF DbOK, TablesOK, RelationOK
  <2>. QED  BY <1>2, <1>6, <2>1 DEF KeysOK
<1>. QED  BY <1>1, <1>2, <1>3, <1>4, <1>5, <1>6 DEF DbOK, TablesOK, Grows

LEMMA DbAfterMark ==
  ASSUME DbOK, NEW f \in Fids, t_file' = [t_file EXCEPT ![f].state = 1], t_user_file' = t_user_file
  PROVE  DbOK' /\ Grows /\ Fids' = Fids
<1>1. /\ Grows /\ Fids' = Fids /\ t_file'[f].state = 1
      /\ \A g \in Fids : t_file'[g].there = t_file[g].there /\ (g # f => t_file'[g] = t_file[g])
  BY MarkIs DEF DbOK
<1>2. (\A g \in Fids : FileOK(g)') /\ (\A q \in t_user_file : RelationOK(q)')
  BY <1>1, FileStays, RelationStays DEF DbOK, TablesOK
<1>3. KeysOK => KeysOK'
  <2>1. \A q \in t_user_file : q.f_id \in Fids
    BY DEF DbOK, TablesOK, RelationOK
  <2>. QED  BY <1>1, <2>1 DEF KeysOK
<1>. QED  BY <1>1, <1>2, <1>3 DEF DbOK, TablesOK, Grows

(* The rows of a share get its number, and are otherwise what they were.    *)
Numbered(q, u, fid, dir, link) == IF Is(q, u, fid, dir) THEN [q EXCEPT !.s_link = link] ELSE q

Renumber(u, fid, dir, link) == t_user_file' = {Numbered(q, u, fid, dir, link) : q \in t_user_file}

LEMMA NumberedIs ==
  ASSUME NEW q \in Relation, NEW u, NEW fid, NEW dir, NEW link \in Links
  PROVE  /\ Numbered(q, u, fid, dir, link) \in Relation
         /\ Numbered(q, u, fid, dir, link).u_id = q.u_id /\ Numbered(q, u, fid, dir, link).f_id = q.f_id
         /\ Numbered(q, u, fid, dir, link).f_dir = q.f_dir /\ Numbered(q, u, fid, dir, link).f_name = q.f_name
         /\ Numbered(q, u, fid, dir, link).s_link = IF Is(q, u, fid, dir) THEN link ELSE q.s_link
<1>1. CASE Is(q, u, fid, dir)
  <2>. PICK p : p = [q EXCEPT !.s_link = link]
    OBVIOUS
  <2>1. p \in Relation /\ p.u_id = q.u_id /\ p.f_id = q.f_id /\ p.f_dir = q.f_dir /\ p.f_name = q.f_name /\ p.s_link = link
    BY DEF Relation
  <2>2. Numbered(q, u, fid, dir, link) = p
    BY <1>1 DEF Numbered
  <2>. QED  BY <1>1, <2>1, <2>2
<1>2. CASE ~Is(q, u, fid, dir)
  BY <1>2 DEF Numbered
<1>. QED  BY <1>1, <1>2

LEMMA DbAfterShare ==
  ASSUME DbOK, NEW u, NEW fid, NEW dir, NEW link \in Links, t_file' = t_file, Renumber(u, fid, dir, link)
  PROVE  DbOK' /\ Grows /\ Fids' = Fids
<1>1. Grows /\ Fids' = Fids
  BY SameGrows DEF DbOK
<1>2. ASSUME NEW p \in t_user_file'
      PROVE  p \in Relation /\ \E q \in t_user_file : p = Numbered(q, u, fid, dir, link) /\ p.u_id = q.u_id /\ p.f_id = q.f_id
                                                      /\ p.f_dir = q.f_dir /\ p.f_name = q.f_name
  BY NumberedIs DEF DbOK, Renumber
<1>3. \A f \in Fids : FileOK(f)'
  BY <1>1, FileStays DEF DbOK, TablesOK
<1>4. ASSUME NEW p \in t_user_file' PROVE RelationOK(p)'
  <2>1. PICK q \in t_user_file : p.f_id = q.f_id /\ p.f_name = q.f_name
    BY <1>2
  <2>2. RelationOK(q)'
    BY <1>1, RelationStays DEF DbOK, TablesOK
  <2>. QED  BY <2>1, <2>2 DEF RelationOK
<1>5. ASSUME KeysOK PROVE KeysOK'
  <2>1. ASSUME NEW p \in t_user_file', NEW r \in t_user_file', Is(p, r.u_id, r.f_id, r.f_dir) PROVE p = r
    <3>1. PICK q \in t_user_file : p = Numbered(q, u, fid, dir, link) /\ p.u_id = q.u_id /\ p.f_id = q.f_id /\ p.f_dir = q.f_dir
      BY <1>2
    <3>2. PICK o \in t_user_file : r = Numbered(o, u, fid, dir, link) /\ r.u_id = o.u_id /\ r.f_id = o.f_id /\ r.f_dir = o.f_dir
      BY <1>2
    <3>3. Is(q, o.u_id, o.f_id, o.f_dir)
      BY <2>1, <3>1, <3>2 DEF Is
    <3>. QED  BY <1>5, <3>1, <3>2, <3>3 DEF KeysOK
  <2>2. \A p \in t_user_file' : t_file'[p.f_id].there
    BY <1>2, <1>5 DEF KeysOK
  <2>3. \A q, r : Is(q, r.u_id, r.f_id, r.f_dir)' <=> Is(q, r.u_id, r.f_id, r.f_dir)
    BY DEF Is
  <2>. QED  BY <2>1, <2>2, <2>3 DEF KeysOK
<1>. QED  BY <1>1, <1>2, <1>3, <1>4, <1>5 DEF DbOK, TablesOK, Grows

-----------------------------------------------------------------------------
(* BaseInv after a step of one handler.                                     *)
FaultsOK == faults \in [left : Nat, seen : SUBSET Sorts]

LEMMA DisturbIs ==
  ASSUME FaultsOK, NEW kinds \in SUBSET Sorts, Disturb(kinds)
  PROVE  FaultsOK' /\ faults'.seen = faults.seen \cup kinds
BY DEF FaultsOK, Disturb

LEMMA FaultIs ==
  ASSUME FaultsOK, NEW kind \in Sorts, Fault(kind)
  PROVE  FaultsOK' /\ faults'.seen = faults.seen \cup {kind}
<1>1. faults.left - 1 \in Nat
  BY DEF FaultsOK, Fault
<1>. QED  BY <1>1 DEF FaultsOK, Fault

LEMMA BaseIs ==
  ASSUME BaseInv
  PROVE  DbOK /\ FaultsOK /\ Fids \subseteq Nat
BY FidsAre DEF BaseInv, StateOK, DbOK, FaultsOK

LEMMA OthersStay ==
  ASSUME BaseInv, Grows, NEW s \in Slots, run[s] # Idle, Stays(s), NEW t \in Slots, t # s, run'[t] # Idle,
         \A r \in Requests \ {Rq(s)} : reply'[r] = reply[r]
  PROVE  SlotOK(t)' /\ Rq(t)' = Rq(t) /\ run[t] # Idle /\ Rq(t) # Rq(s)
<1>. PICK o : o = Rq(t)
  OBVIOUS
<1>1. run'[t] = run[t] /\ run[t] # Idle
  BY DEF Stays
<1>2. Rq(t)' = Rq(t) /\ Rq(t) # Rq(s) /\ Rq(t) \in Requests /\ OnStack(t)' = OnStack(t)
  BY <1>1, Running DEF BaseInv, Rq, OnStack
<1>3. SlotOK(t)
  BY <1>1 DEF BaseInv
<1>4. \A f \in OnStack(t) : FrameOK(o, f)'
  BY <1>3, FrameStays DEF SlotOK
<1>5. reply'[Rq(t)].kind = "asked" /\ StackOK(run'[t].stack)
  BY <1>1, <1>2, <1>3 DEF SlotOK
<1>6. (\A f \in OnStack(t) : FrameOK(Rq(t), f))'
  BY <1>2, <1>4
<1>. QED  BY <1>1, <1>2, <1>5, <1>6 DEF SlotOK

LEMMA BaseMove ==
  ASSUME BaseInv, NEW s \in Slots, run[s] # Idle, Grows, DbOK', FaultsOK', reply' = reply,
         NEW x, NEW under, MovesTo(s, x, under), NEW o, o = Rq(s), \A f \in {x} \cup under : FrameOK(o, f)'
  PROVE  BaseInv'
<1>1. Rq(s) \in Requests /\ reply[Rq(s)].kind = "asked"
  BY Running
<1>2. run'[s].r = Rq(s) /\ StackOK(run'[s].stack) /\ All(run'[s].stack) = {x} \cup under /\ Stays(s)
      /\ run' \in [Slots -> Handling \cup {Idle}] /\ run'[s] # Idle
  BY DEF MovesTo
<1>3. SlotOK(s)'
  BY <1>1, <1>2 DEF SlotOK, Rq, OnStack
<1>4. \A t \in Slots : t # s /\ run'[t] # Idle => SlotOK(t)' /\ Rq(t)' = Rq(t) /\ run[t] # Idle /\ Rq(t) # Rq(s)
  BY <1>2, OthersStay
<1>5. \A r \in Requests : ReplyOK(r)'
  BY ReplyStays DEF BaseInv
<1>6. StateOK'
  BY <1>2 DEF StateOK, BaseInv, DbOK, FaultsOK
<1>7. Rq(s)' = Rq(s)
  BY <1>2 DEF Rq
<1>8. ASSUME NEW a \in Slots, NEW b \in Slots, run'[a] # Idle, run'[b] # Idle, Rq(a)' = Rq(b)' PROVE a = b
  <2>1. CASE a = s /\ b = s
    BY <2>1
  <2>2. CASE a = s /\ b # s
    BY <1>4, <1>7, <1>8, <2>2
  <2>3. CASE a # s /\ b = s
    BY <1>4, <1>7, <1>8, <2>3
  <2>4. CASE a # s /\ b # s
    BY <1>4, <1>8, <2>4 DEF BaseInv
  <2>. QED  BY <2>1, <2>2, <2>3, <2>4
<1>. QED  BY <1>3, <1>4, <1>5, <1>6, <1>8 DEF BaseInv, DbOK

LEMMA BaseEnd ==
  ASSUME BaseInv, NEW s \in Slots, run[s] # Idle, Grows, DbOK', FaultsOK', NEW kind, NEW fid,
         EndsWith(s, kind, fid), NEW r, r = Rq(s), kind = "uploading" => r.fn = "uploadFile" /\ FromPath(fid, r)'
  PROVE  BaseInv'
<1>1. Rq(s) \in Requests /\ reply[Rq(s)].kind = "asked"
  BY Running
<1>2. run' \in [Slots -> Handling \cup {Idle}] /\ run'[s] = Idle /\ Stays(s) /\ reply' \in [Requests -> [kind : Kinds, fid : Nat]]
      /\ reply'[Rq(s)] = [kind |-> kind, fid |-> fid] /\ \A o \in Requests \ {Rq(s)} : reply'[o] = reply[o]
  BY DEF EndsWith
<1>3. \A t \in Slots : t # s /\ run'[t] # Idle => SlotOK(t)' /\ Rq(t)' = Rq(t) /\ run[t] # Idle /\ Rq(t) # Rq(s)
  BY <1>2, OthersStay
<1>4. \A o \in Requests \ {Rq(s)} : ReplyOK(o)'
  BY <1>2, ReplyStays DEF BaseInv
<1>5. ReplyOK(r)'
  <2>1. \A k \in Named(r) : k \in Fids /\ Marked(k)
    BY <1>1 DEF BaseInv, ReplyOK
  <2>2. \A k \in Fids : Marked(k) => k \in Fids' /\ Marked(k)'
    BY DEF Grows, Kept, Marked
  <2>3. \A k \in Named(r) : k \in Fids' /\ Marked(k)'
    BY <2>1, <2>2
  <2>4. reply'[r].kind = kind /\ reply'[r].fid = fid
    BY <1>2
  <2>5. kind = "uploading" => r.fn = "uploadFile" /\ FromPath(fid, r)'
    OBVIOUS
  <2>6. kind = "uploading" => FromPath(reply[r].fid, r)'
    BY <2>4, <2>5 DEF FromPath
  <2>. QED  BY <2>3, <2>4, <2>5, <2>6 DEF ReplyOK, Named
<1>6. \A o \in Requests : ReplyOK(o)'
  BY <1>4, <1>5
<1>7. StateOK'
  BY <1>2 DEF StateOK, BaseInv, DbOK, FaultsOK
<1>8. \A t \in Slots : run'[t] # Idle => SlotOK(t)'
  BY <1>2, <1>3
<1>9. \A a, b \in Slots : run'[a] # Idle /\ run'[b] # Idle /\ Rq(a)' = Rq(b)' => a = b
  BY <1>2, <1>3 DEF BaseInv
<1>. QED  BY <1>6, <1>7, <1>8, <1>9 DEF BaseInv, DbOK

(* A function returns: its frame is gone, and the handler's end, if it was  *)
(* the last, is no answer.                                                  *)
Returns(s) ==
  \/ Top(s).fn \in Entries /\ EndsWith(s, "dropped", 0)
  \/ /\ Top(s).fn \notin Entries /\ reply' = reply
     /\ \E f \in Beneath(s), under \in SUBSET Beneath(s) : MovesTo(s, f, under) /\ {f} \cup under = Beneath(s)

LEMMA BaseReturn ==
  ASSUME BaseInv, NEW s \in Slots, run[s] # Idle, Grows, DbOK', FaultsOK', Return(s)
  PROVE  BaseInv' /\ Returns(s)
<1>. PICK o : o = Rq(s)
  OBVIOUS
<1>1. Returns(s)
  BY ReturnMoves DEF Returns
<1>2. CASE EndsWith(s, "dropped", 0)
  <2>1. "dropped" # "uploading"
    OBVIOUS
  <2>. QED  BY <1>1, <1>2, <2>1, BaseEnd
<1>3. CASE reply' = reply /\ \E f \in Beneath(s), under \in SUBSET Beneath(s) : MovesTo(s, f, under) /\ {f} \cup under = Beneath(s)
  <2>1. PICK f \in Beneath(s), under \in SUBSET Beneath(s) : MovesTo(s, f, under) /\ {f} \cup under = Beneath(s)
    BY <1>3
  <2>2. \A g \in {f} \cup under : FrameOK(o, g)
    BY <2>1, Running
  <2>3. \A g \in {f} \cup under : FrameOK(o, g)'
    BY <2>2, FrameStays
  <2>. QED  BY <1>1, <1>3, <2>1, <2>3, BaseMove
<1>. QED  BY <1>1, <1>2, <1>3 DEF Returns

Goes(s, x) == reply' = reply /\ MovesTo(s, x, Beneath(s))
Calls(s, x, y) == reply' = reply /\ MovesTo(s, x, {y} \cup Beneath(s))

LEMMA BaseGoes ==
  ASSUME BaseInv, NEW s \in Slots, run[s] # Idle, Grows, DbOK', FaultsOK', NEW x \in FrameRecord, x.fn = Top(s).fn,
         Become(s, x), reply' = reply, NEW o, o = Rq(s), FrameOK(o, x)'
  PROVE  BaseInv' /\ Goes(s, x)
<1>1. MovesTo(s, x, Beneath(s))
  BY BecomeMoves
<1>2. \A f \in Beneath(s) : FrameOK(o, f)'
  BY Running, FrameStays
<1>. QED  BY <1>1, <1>2, BaseMove DEF Goes

LEMMA BaseCalls ==
  ASSUME BaseInv, NEW s \in Slots, run[s] # Idle, Grows, DbOK', FaultsOK', NEW x \in FrameRecord, NEW y \in FrameRecord,
         x.fn \notin Entries, y.fn = Top(s).fn, y.fn \in Walkers, y.step = "next",
         Call(s, y, x), reply' = reply, NEW o, o = Rq(s), FrameOK(o, x)', FrameOK(o, y)'
  PROVE  BaseInv' /\ Calls(s, x, y)
<1>1. MovesTo(s, x, {y} \cup Beneath(s))
  BY CallMoves
<1>2. \A f \in Beneath(s) : FrameOK(o, f)'
  BY Running, FrameStays
<1>. QED  BY <1>1, <1>2, BaseMove DEF Calls

LEMMA RestartIs ==
  ASSUME BaseInv, Restart, FaultsOK'
  PROVE  /\ BaseInv' /\ UNCHANGED <<db, disk>> /\ \A s \in Slots : run'[s] = Idle
         /\ \A r \in Requests : /\ reply'[r].kind \notin {"asked", "uploading"}
                                /\ reply'[r].kind # "dropped" => reply'[r] = reply[r]
                                /\ reply'[r].kind = "none" <=> reply[r].kind = "none"
<1>1. run' = [s \in Slots |-> Idle] /\ UNCHANGED <<db, disk>>
  BY DEF Restart
<1>2. DbOK' /\ Grows
  BY <1>1, SameDb, BaseIs
<1>3. reply \in [Requests -> [kind : Kinds, fid : Nat]]
  BY DEF BaseInv, StateOK
<1>4. ASSUME NEW r \in Requests
      PROVE  /\ reply'[r] \in [kind : Kinds, fid : Nat] /\ reply'[r].kind \notin {"asked", "uploading"}
             /\ reply'[r].kind # "dropped" => reply'[r] = reply[r]
             /\ reply'[r].kind = "none" <=> reply[r].kind = "none"
  <2>1. reply'[r] = IF reply[r].kind \in {"asked", "uploading"} THEN [reply[r] EXCEPT !.kind = "dropped"] ELSE reply[r]
    BY DEF Restart
  <2>. PICK p : p = reply[r]
    OBVIOUS
  <2>2. p \in [kind : Kinds, fid : Nat]
    BY <1>3
  <2>. PICK d : d = [p EXCEPT !.kind = "dropped"]
    OBVIOUS
  <2>3. d \in [kind : Kinds, fid : Nat] /\ d.kind = "dropped"
    BY <2>2 DEF Kinds
  <2>. QED  BY <2>1, <2>2, <2>3
<1>5. reply' \in [Requests -> [kind : Kinds, fid : Nat]]
  <2>1. reply' = [r \in Requests |-> reply'[r]]
    BY DEF Restart
  <2>. QED  BY <1>4, <2>1
<1>6. ASSUME NEW r \in Requests PROVE ReplyOK(r)'
  <2>1. \A k \in Fids : Marked(k) => k \in Fids' /\ Marked(k)'
    BY <1>2 DEF Grows, Kept, Marked
  <2>2. reply'[r].kind # "none" => \A k \in Named(r) : k \in Fids' /\ Marked(k)'
    BY <1>4, <2>1 DEF BaseInv, ReplyOK
  <2>. QED  BY <1>4, <2>2 DEF ReplyOK, Named
<1>7. StateOK'
  BY <1>1, <1>2, <1>5 DEF StateOK, DbOK, FaultsOK
<1>. QED  BY <1>1, <1>2, <1>4, <1>6, <1>7 DEF BaseInv, DbOK

-----------------------------------------------------------------------------
(* What each step of a handler does, and that BaseInv stands.               *)
Still == UNCHANGED <<t_file, t_user_file, disk, faults>>

LEMMA StillIs ==
  ASSUME BaseInv, Still
  PROVE  Grows /\ DbOK' /\ FaultsOK' /\ Fids' = Fids
BY BaseIs, SameDb DEF Still, db, FaultsOK

LEMMA SameFaults ==
  ASSUME BaseInv, UNCHANGED faults
  PROVE  FaultsOK'
BY BaseIs DEF FaultsOK

LEMMA ReturnStill ==
  ASSUME BaseInv, NEW s \in Slots, run[s] # Idle, Still, Return(s)
  PROVE  BaseInv' /\ Returns(s)
BY StillIs, BaseReturn

LEMMA RelationIs ==
  ASSUME BaseInv, NEW q \in t_user_file
  PROVE  q \in Relation /\ RelationOK(q) /\ q.f_id \in Fids /\ q.f_id \in Nat /\ q.f_dir \in Seq(STRING) /\ q.f_name \in STRING
BY BaseIs DEF DbOK, TablesOK, Relation, RelationOK

LEMMA NameIs ==
  ASSUME BaseInv, NEW f \in Fids
  PROVE  Name(f) \in STRING /\ FileOK(f) /\ t_file[f].path \in Seq(STRING) /\ t_file[f].type \in {"file", "folder"}
         /\ t_file[f].state \in {0, 1} /\ t_file[f].there \in BOOLEAN /\ (IsFolder(f) <=> ~IsFile(f))
<1>1. t_file[f] \in FileRecord /\ FileOK(f)
  BY BaseIs, FidsAre DEF DbOK, TablesOK
<1>. PICK p : p = t_file[f].path
  OBVIOUS
<1>2. p \in Seq(STRING) /\ p # <<>>
  BY <1>1 DEF FileRecord, FileOK
<1>3. Len(p) \in 1..Len(p)
  BY <1>2, EmptySeq
<1>4. p[Len(p)] \in STRING
  BY <1>2, <1>3, ElementOfSeq
<1>. QED  BY <1>1, <1>2, <1>4 DEF Name, FileRecord, IsFile, IsFolder

(* The frame of deleteFolderById for a relation to a folder.                *)
LEMMA FolderFrame ==
  ASSUME BaseInv, NEW q \in Relation, RelationOK(q), IsFolder(q.f_id), NEW x, x = Folder(q)
  PROVE  x \in FrameRecord /\ x.fn = "deleteFolderById" /\ x.step = "delete" /\ x.fid = q.f_id /\ x.dir = q.f_dir /\ x.rest = {}
         /\ x.dest = Append(q.f_dir, q.f_name) /\ x.dest = Append(x.dir, Name(x.fid))
<1>. PICK d : d = Append(q.f_dir, q.f_name)
  OBVIOUS
<1>1. q.f_id \in Nat /\ q.f_dir \in Seq(STRING) /\ q.f_name \in STRING
  BY DEF Relation
<1>2. d \in Seq(STRING)
  BY <1>1, AppendProperties
<1>. PICK k, dir : k = q.f_id /\ dir = q.f_dir
  OBVIOUS
<1>3. x = [fn |-> "deleteFolderById", step |-> "delete", fid |-> k, dir |-> dir, rest |-> {}, dest |-> d, link |-> 0]
  BY DEF Folder, Frame
<1>4. x.fn = "deleteFolderById" /\ x.step = "delete" /\ x.fid = k /\ x.dir = dir /\ x.rest = {} /\ x.dest = d /\ x.link = 0
  BY <1>3
<1>5. "deleteFolderById" \in RowFns \cup IdFns /\ "delete" \in Steps
  BY DEF RowFns, IdFns, Steps
<1>6. x \in FrameRecord
  BY <1>1, <1>2, <1>3, <1>4, <1>5, IsFrame
<1>. QED  BY <1>4, <1>6 DEF RelationOK

LEMMA DeletionFrame ==
  ASSUME NEW fid \in Nat, NEW dir \in Seq(STRING), NEW x, x = Frame("deleteFileById", "delete", fid, dir, {})
  PROVE  x \in FrameRecord /\ x.fn = "deleteFileById" /\ x.step = "delete" /\ x.fid = fid /\ x.dir = dir /\ x.rest = {}
<1>1. "deleteFileById" \in RowFns \cup IdFns /\ "delete" \in Steps
  BY DEF IdFns, Steps
<1>. QED  BY <1>1, FreshFrame

LEMMA DeleteFileNext ==
  ASSUME BaseInv, NEW s \in Slots, deleteFile_next(s)
  PROVE  /\ BaseInv' /\ Still /\ Doing(s, "deleteFile", "next")
         /\ \/ Returns(s)
            \/ \E fid \in Top(s).rest, x, y \in FrameRecord :
                 /\ Calls(s, x, y) /\ y.fn = "deleteFile" /\ y.step = "next" /\ y.rest = Top(s).rest \ {fid}
                 /\ x.fn = (IF IsFolder(fid) THEN "deleteFolderById" ELSE "deleteFileById")
                 /\ x.step = "delete" /\ x.fid = fid /\ x.dir = Rq(s).dir /\ x.rest = {}
                 /\ fid \in Fids /\ fid \in Rq(s).ids /\ Marked(fid) /\ t_file[fid].there
<1>. PICK f, o : f = Top(s) /\ o = Rq(s)
  OBVIOUS
<1>1. run[s] # Idle /\ f.fn = "deleteFile" /\ f.step = "next" /\ f.rest # {} /\ Still
  BY DEF deleteFile_next, Doing, Still, db
<1>2. f \in FrameRecord /\ o \in Requests /\ FrameOK(o, f) /\ reply[o].kind = "asked"
  BY <1>1, Running
<1>3. DeleteFileOK(o, f)
  BY <1>1, <1>2 DEF FrameOK
<1>4. f.rest \subseteq Nat
  BY <1>1, <1>2, FrameIs DEF IdFns
<1>. PICK fid : fid = FirstFid(f.rest)
  OBVIOUS
<1>5. fid \in f.rest /\ fid \in Nat
  BY <1>1, <1>4, FirstFidIs
<1>6. fid \in Fids /\ Marked(fid) /\ fid \in o.ids /\ f.dir = o.dir /\ o.fn = "deleteFile"
  BY <1>2, <1>3, <1>5 DEF DeleteFileOK, BaseInv, ReplyOK, Named
<1>. PICK rows : rows = {r \in In(o.u, f.dir) : r.f_id = fid}
  OBVIOUS
<1>. PICK y : y = [f EXCEPT !.rest = @ \ {fid}]
  OBVIOUS
<1>7. y \in FrameRecord /\ y.step = "next" /\ y.fn = "deleteFile" /\ y.dir = f.dir /\ y.rest = f.rest \ {fid}
  BY <1>1, <1>2, RestFrame
<1>8. FrameOK(o, y)
  BY <1>3, <1>7 DEF FrameOK, DeleteFileOK, Copiers
<1>9. \/ Return(s)
      \/ rows # {} /\ reply' = reply
         /\ Call(s, y, IF IsFolder(fid) THEN Folder(FirstOf(rows)) ELSE Frame("deleteFileById", "delete", fid, f.dir, {}))
  BY DEF deleteFile_next
<1>14. rows # {} => t_file[fid].there
  BY DEF In, user_file_info
<1>10. CASE Return(s)
  BY <1>1, <1>10, ReturnStill DEF Doing
<1>11. ASSUME NEW x \in FrameRecord, reply' = reply, Call(s, y, x), FrameOK(o, x),
              x.fn = (IF IsFolder(fid) THEN "deleteFolderById" ELSE "deleteFileById"), x.step = "delete", x.fid = fid, x.dir = o.dir
       PROVE  BaseInv' /\ Calls(s, x, y)
  <2>1. Grows /\ DbOK' /\ FaultsOK'
    BY <1>1, StillIs
  <2>2. FrameOK(o, x)' /\ FrameOK(o, y)'
    BY <1>8, <1>11, <2>1, FrameStays
  <2>3. x.fn \notin Entries /\ y.fn \in Walkers
    BY <1>7, <1>11 DEF Entries, Walkers
  <2>. QED  BY <1>1, <1>7, <1>11, <2>1, <2>2, <2>3, BaseCalls
<1>15. ASSUME NEW x \in FrameRecord, Calls(s, x, y), x.step = "delete", x.fid = fid, x.dir = o.dir, x.rest = {}, rows # {},
               x.fn = (IF IsFolder(fid) THEN "deleteFolderById" ELSE "deleteFileById")
       PROVE  \E k \in Top(s).rest, w, v \in FrameRecord :
                /\ Calls(s, w, v) /\ v.fn = "deleteFile" /\ v.step = "next" /\ v.rest = Top(s).rest \ {k}
                /\ w.fn = (IF IsFolder(k) THEN "deleteFolderById" ELSE "deleteFileById")
                /\ w.step = "delete" /\ w.fid = k /\ w.dir = Rq(s).dir /\ w.rest = {}
                /\ k \in Fids /\ k \in Rq(s).ids /\ Marked(k) /\ t_file[k].there
  <2>. fid \in Top(s).rest /\ y \in FrameRecord /\ x \in FrameRecord
    BY <1>5, <1>7, <1>15
  <2>. WITNESS fid \in Top(s).rest, x \in FrameRecord, y \in FrameRecord
  <2>. QED  BY <1>6, <1>7, <1>14, <1>15
<1>12. CASE rows # {} /\ IsFolder(fid) /\ reply' = reply /\ Call(s, y, Folder(FirstOf(rows)))
  <2>1. \A q \in rows : q \in t_user_file /\ q.f_id = fid /\ q.f_dir = f.dir /\ q \in Relation /\ RelationOK(q) /\ q.f_id \in Nat
    BY <1>5, RelationIs DEF In, user_file_info
  <2>. PICK q : q = FirstOf(rows)
    OBVIOUS
  <2>2. q \in rows
    BY <1>12, <2>1, FirstOfIs
  <2>. PICK x : x = Folder(q)
    OBVIOUS
  <2>3. q \in Relation /\ RelationOK(q) /\ IsFolder(q.f_id) /\ q.f_id = fid /\ q.f_dir = f.dir
    BY <1>12, <2>1, <2>2
  <2>4. x \in FrameRecord /\ x.fn = "deleteFolderById" /\ x.step = "delete" /\ x.fid = q.f_id /\ x.dir = q.f_dir /\ x.rest = {}
         /\ x.dest = Append(x.dir, Name(x.fid))
    BY <2>3, FolderFrame
  <2>5. x.dest \in Seq(STRING)
    BY <1>2, <1>6, <2>3, <2>4, AppendProperties, NameIs, FrameIs
  <2>6. IsBelow(x.dest, x.dest)
    BY <2>5, BelowItself
  <2>10. x.dest = Append(o.dir, Name(fid)) /\ x.fid = fid
    BY <1>6, <2>3, <2>4
  <2>11. \E k \in o.ids : k \in Fids /\ IsFolder(k) /\ IsBelow(x.dest, Append(o.dir, Name(k)))
    BY <1>6, <1>12, <2>6, <2>10
  <2>7. FolderOK(o, x)
    BY <1>6, <1>12, <2>4, <2>10, <2>11 DEF FolderOK, RowsOK
  <2>8. FrameOK(o, x)
    BY <2>4, <2>7 DEF FrameOK, Copiers
  <2>9. BaseInv' /\ Calls(s, x, y)
    BY <1>6, <1>11, <1>12, <2>3, <2>4, <2>8
  <2>12. x.fn = (IF IsFolder(fid) THEN "deleteFolderById" ELSE "deleteFileById") /\ x.fid = fid /\ x.dir = o.dir
    BY <1>6, <1>12, <2>3, <2>4
  <2>. QED  BY <1>1, <1>12, <1>15, <2>4, <2>9, <2>12 DEF Doing
<1>13. CASE rows # {} /\ ~IsFolder(fid) /\ reply' = reply /\ Call(s, y, Frame("deleteFileById", "delete", fid, f.dir, {}))
  <2>. PICK x : x = Frame("deleteFileById", "delete", fid, f.dir, {})
    OBVIOUS
  <2>1. f.dir \in Seq(STRING)
    BY <1>2, FrameIs
  <2>2. x \in FrameRecord /\ x.fn = "deleteFileById" /\ x.step = "delete" /\ x.fid = fid /\ x.dir = f.dir /\ x.rest = {}
    BY <1>5, <2>1, DeletionFrame
  <2>3. ByIdOK(o, x)
    BY <1>6, <1>13, <2>2, NameIs DEF ByIdOK
  <2>4. FrameOK(o, x)
    BY <2>2, <2>3 DEF FrameOK, Copiers
  <2>5. BaseInv' /\ Calls(s, x, y)
    BY <1>6, <1>11, <1>13, <2>2, <2>4
  <2>6. x.fn = (IF IsFolder(fid) THEN "deleteFolderById" ELSE "deleteFileById") /\ x.dir = o.dir
    BY <1>6, <1>13, <2>2
  <2>. QED  BY <1>1, <1>13, <1>15, <2>2, <2>5, <2>6 DEF Doing
<1>. QED  BY <1>9, <1>10, <1>12, <1>13

LEMMA DeleteFileReply ==
  ASSUME BaseInv, NEW s \in Slots, deleteFile_reply(s)
  PROVE  BaseInv' /\ Still /\ Doing(s, "deleteFile", "next") /\ Top(s).rest = {} /\ EndsWith(s, "ok", 0)
<1>1. run[s] # Idle /\ Still /\ Ends(s, "ok", 0) /\ Doing(s, "deleteFile", "next") /\ Top(s).rest = {}
  BY DEF deleteFile_reply, Doing, Still, db, SendData
<1>2. EndsWith(s, "ok", 0)
  BY <1>1, EndsMoves DEF Kinds
<1>3. "ok" # "uploading"
  OBVIOUS
<1>. QED  BY <1>1, <1>2, <1>3, StillIs, BaseEnd

LEMMA ByIdDelete ==
  ASSUME BaseInv, NEW s \in Slots, deleteFileById_delete(s)
  PROVE  /\ BaseInv' /\ UNCHANGED <<disk, faults>> /\ Doing(s, "deleteFileById", "delete")
         /\ DeleteDone(Rq(s).u, Top(s).fid, Rq(s).dir) /\ Top(s).dir = Rq(s).dir
         /\ \E x \in FrameRecord : Goes(s, x) /\ x.fn = "deleteFileById" /\ x.step = "count" /\ x.fid = Top(s).fid
<1>. PICK f, o : f = Top(s) /\ o = Rq(s)
  OBVIOUS
<1>1. run[s] # Idle /\ f.fn = "deleteFileById" /\ f.step = "delete" /\ UNCHANGED <<disk, reply, faults>>
      /\ DeleteRelation(o.u, f.fid, f.dir) /\ Goto(s, "count")
  BY DEF deleteFileById_delete, Doing
<1>2. f \in FrameRecord /\ o \in Requests /\ FrameOK(o, f) /\ ByIdOK(o, f)
  BY <1>1, Running DEF FrameOK
<1>. PICK x : x = [f EXCEPT !.step = "count"]
  OBVIOUS
<1>3. x \in FrameRecord /\ x.step = "count" /\ x.fn = f.fn /\ x.fid = f.fid /\ x.dir = f.dir
  BY <1>2, StepFrame DEF Steps
<1>4. FrameOK(o, x)
  BY <1>1, <1>2, <1>3 DEF FrameOK, ByIdOK, Copiers
<1>5. f.fid \in Fids /\ f.dir = o.dir
  BY <1>2 DEF ByIdOK
<1>6. DeleteDone(o.u, f.fid, f.dir)
  BY <1>1, <1>5, BaseIs, DeleteIs DEF DbOK
<1>7. DbOK' /\ Grows
  <2>1. Grows
    BY <1>6 DEF DeleteDone
  <2>. QED  BY <1>5, <1>6, <2>1, BaseIs, DbAfterDelete
<1>8. Become(s, x)
  BY <1>1 DEF Goto
<1>9. BaseInv' /\ Goes(s, x)
  BY <1>1, <1>3, <1>4, <1>7, <1>8, SameFaults, FrameStays, BaseGoes
<1>. QED  BY <1>1, <1>3, <1>5, <1>6, <1>9 DEF Doing

LEMMA ByIdCount ==
  ASSUME BaseInv, NEW s \in Slots, deleteFileById_count(s)
  PROVE  /\ BaseInv' /\ Still /\ Doing(s, "deleteFileById", "count")
         /\ \/ t_file[Top(s).fid].there /\ Returns(s)
            \/ ~t_file[Top(s).fid].there
               /\ \E x \in FrameRecord : Goes(s, x) /\ x.fn = "deleteFileById" /\ x.step = "remove" /\ x.fid = Top(s).fid
<1>. PICK f, o : f = Top(s) /\ o = Rq(s)
  OBVIOUS
<1>1. run[s] # Idle /\ f.fn = "deleteFileById" /\ f.step = "count" /\ Still /\ Doing(s, "deleteFileById", "count")
      /\ IF ~t_file[f.fid].there THEN Goto(s, "remove") /\ reply' = reply ELSE Return(s)
  BY DEF deleteFileById_count, Doing, Still, db, RowGone
<1>2. f \in FrameRecord /\ o \in Requests /\ FrameOK(o, f) /\ ByIdOK(o, f)
  BY <1>1, Running DEF FrameOK
<1>3. CASE t_file[f.fid].there
  BY <1>1, <1>3, ReturnStill
<1>4. CASE ~t_file[f.fid].there
  <2>. PICK x : x = [f EXCEPT !.step = "remove"]
    OBVIOUS
  <2>1. x \in FrameRecord /\ x.step = "remove" /\ x.fn = f.fn /\ x.fid = f.fid /\ x.dir = f.dir
    BY <1>2, StepFrame DEF Steps
  <2>2. FrameOK(o, x)
    BY <1>1, <1>2, <1>4, <2>1 DEF FrameOK, ByIdOK, Copiers
  <2>3. Become(s, x)
    BY <1>1, <1>4 DEF Goto
  <2>4. BaseInv' /\ Goes(s, x)
    BY <1>1, <1>4, <2>1, <2>2, <2>3, StillIs, FrameStays, BaseGoes
  <2>. QED  BY <1>1, <1>4, <2>1, <2>4
<1>. QED  BY <1>3, <1>4

LEMMA ByIdRemove ==
  ASSUME BaseInv, NEW s \in Slots, deleteFileById_remove(s)
  PROVE  /\ BaseInv' /\ UNCHANGED <<t_file, t_user_file, faults>> /\ Doing(s, "deleteFileById", "remove") /\ Returns(s)
         /\ disk' = disk \ {t_file[Top(s).fid].path}
<1>1. run[s] # Idle /\ UNCHANGED <<t_file, t_user_file, faults>> /\ Return(s) /\ Doing(s, "deleteFileById", "remove")
      /\ disk' = disk \ {t_file[Top(s).fid].path}
  BY DEF deleteFileById_remove, Doing, db
<1>. QED  BY <1>1, BaseIs, SameDb, SameFaults, BaseReturn DEF db

(* deleteFolderById.                                                        *)
LEMMA FolderDelete ==
  ASSUME BaseInv, NEW s \in Slots, deleteFolderById_delete(s)
  PROVE  /\ BaseInv' /\ UNCHANGED <<disk, faults>> /\ Doing(s, "deleteFolderById", "delete")
         /\ DeleteDone(Rq(s).u, Top(s).fid, Top(s).dir) /\ Top(s).fid \in Fids /\ FolderOK(Rq(s), Top(s))
         /\ \E x \in FrameRecord : /\ Goes(s, x) /\ x.fn = "deleteFolderById" /\ x.step = "select" /\ x.fid = Top(s).fid
                                   /\ x.dir = Top(s).dir /\ x.dest = Top(s).dest /\ x.rest = Top(s).rest
<1>. PICK f, o : f = Top(s) /\ o = Rq(s)
  OBVIOUS
<1>1. run[s] # Idle /\ f.fn = "deleteFolderById" /\ f.step = "delete" /\ UNCHANGED <<disk, reply, faults>>
      /\ DeleteRelation(o.u, f.fid, f.dir) /\ Goto(s, "select")
  BY DEF deleteFolderById_delete, Doing
<1>2. f \in FrameRecord /\ o \in Requests /\ FrameOK(o, f) /\ FolderOK(o, f)
  BY <1>1, Running DEF FrameOK
<1>. PICK x : x = [f EXCEPT !.step = "select"]
  OBVIOUS
<1>3. x \in FrameRecord /\ x.step = "select" /\ x.fn = f.fn /\ x.fid = f.fid /\ x.dir = f.dir /\ x.dest = f.dest /\ x.rest = f.rest
  BY <1>2, StepFrame DEF Steps
<1>4. FrameOK(o, x)
  BY <1>1, <1>2, <1>3 DEF FrameOK, FolderOK, RowsOK, Copiers
<1>5. f.fid \in Fids
  BY <1>2 DEF FolderOK
<1>6. DeleteDone(o.u, f.fid, f.dir)
  BY <1>1, <1>5, BaseIs, DeleteIs DEF DbOK
<1>7. DbOK' /\ Grows
  <2>1. Grows
    BY <1>6 DEF DeleteDone
  <2>. QED  BY <1>5, <1>6, <2>1, BaseIs, DbAfterDelete
<1>8. Become(s, x)
  BY <1>1 DEF Goto
<1>9. BaseInv' /\ Goes(s, x)
  BY <1>1, <1>3, <1>4, <1>7, <1>8, SameFaults, FrameStays, BaseGoes
<1>. QED  BY <1>1, <1>2, <1>3, <1>5, <1>6, <1>9 DEF Doing

LEMMA FolderSelect ==
  ASSUME BaseInv, NEW s \in Slots, deleteFolderById_select(s)
  PROVE  /\ BaseInv' /\ Still /\ Doing(s, "deleteFolderById", "select") /\ FolderOK(Rq(s), Top(s))
         /\ \E x \in FrameRecord : /\ Goes(s, x) /\ x.fn = "deleteFolderById" /\ x.step = "next" /\ x.dest = Top(s).dest
                                   /\ x.rest = In(Rq(s).u, Top(s).dest)
<1>. PICK f, o : f = Top(s) /\ o = Rq(s)
  OBVIOUS
<1>. PICK rows : rows = In(o.u, f.dest)
  OBVIOUS
<1>1. run[s] # Idle /\ f.fn = "deleteFolderById" /\ f.step = "select" /\ Still /\ reply' = reply
      /\ Become(s, [f EXCEPT !.step = "next", !.rest = rows])
  BY DEF deleteFolderById_select, Doing, Still, db
<1>2. f \in FrameRecord /\ o \in Requests /\ FrameOK(o, f) /\ FolderOK(o, f)
  BY <1>1, Running DEF FrameOK
<1>3. \A q \in rows : q \in Relation /\ RelationOK(q) /\ q.f_dir = f.dest
  BY RelationIs DEF In, user_file_info
<1>. PICK x : x = [f EXCEPT !.step = "next", !.rest = rows]
  OBVIOUS
<1>4. x \in FrameRecord /\ x.step = "next" /\ x.fn = f.fn /\ x.fid = f.fid /\ x.dir = f.dir /\ x.dest = f.dest /\ x.rest = rows
  <2>1. rows \in SUBSET Relation /\ f.fn \in RowFns /\ "next" \in Steps
    BY <1>1, <1>3 DEF RowFns, Steps
  <2>2. f \in FrameRecord
    BY <1>2
  <2>3. /\ x \in FrameRecord /\ x.step = "next" /\ x.fn = f.fn /\ x.fid = f.fid /\ x.dir = f.dir /\ x.rest = rows
        /\ x.dest = f.dest /\ x.link = f.link
    <3>1. x = [fn |-> f.fn, step |-> "next", fid |-> f.fid, dir |-> f.dir, rest |-> rows, dest |-> f.dest, link |-> f.link]
      BY <2>2 DEF FrameRecord, FramesOf
    <3>2. x.step = "next" /\ x.fn = f.fn /\ x.fid = f.fid /\ x.dir = f.dir /\ x.rest = rows /\ x.dest = f.dest /\ x.link = f.link
      BY <3>1
    <3>3. f.fn \in RowFns \cup IdFns /\ f.fn \notin IdFns
      BY <2>1 DEF RowFns, IdFns, Copiers
    <3>4. x \in FrameRecord
      BY <2>1, <2>2, <3>1, <3>2, <3>3, FrameIs, IsFrame
    <3>. QED  BY <3>2, <3>4
  <2>. QED  BY <2>3
<1>5. FrameOK(o, x)
  BY <1>1, <1>2, <1>3, <1>4 DEF FrameOK, FolderOK, RowsOK, Copiers
<1>6. BaseInv' /\ Goes(s, x)
  BY <1>1, <1>4, <1>5, StillIs, FrameStays, BaseGoes
<1>. QED  BY <1>1, <1>2, <1>4, <1>6 DEF Doing

LEMMA FolderRow ==
  ASSUME BaseInv, NEW s \in Slots, Doing(s, "deleteFolderById", "next"), Top(s).rest # {}, NEW r, r = FirstOf(Top(s).rest)
  PROVE  /\ r \in Top(s).rest /\ r \in Relation /\ RelationOK(r) /\ r.f_id \in Fids /\ r.f_dir = Top(s).dest
         /\ FolderOK(Rq(s), Top(s)) /\ Top(s) \in FrameRecord /\ Rq(s) \in Requests /\ run[s] # Idle
         /\ Top(s).rest \subseteq Relation
<1>1. run[s] # Idle /\ Top(s).fn = "deleteFolderById"
  BY DEF Doing
<1>2. FolderOK(Rq(s), Top(s)) /\ Top(s) \in FrameRecord /\ Rq(s) \in Requests
  BY <1>1, Running DEF FrameOK
<1>3. \A q \in Top(s).rest : q \in Relation /\ RelationOK(q) /\ q.f_dir = Top(s).dest
  BY <1>2 DEF FolderOK, RowsOK
<1>4. \A q \in Top(s).rest : q.f_id \in Nat
  BY <1>3 DEF Relation
<1>5. r \in Top(s).rest
  BY <1>4, FirstOfIs
<1>. QED  BY <1>1, <1>2, <1>3, <1>5 DEF RelationOK

LEMMA FolderFile ==
  ASSUME BaseInv, NEW s \in Slots, deleteFolderById_file(s)
  PROVE  /\ BaseInv' /\ UNCHANGED disk /\ Doing(s, "deleteFolderById", "next") /\ FolderOK(Rq(s), Top(s))
         /\ \E r \in Top(s).rest, x \in FrameRecord :
              /\ r.f_id \in Fids /\ ~IsFolder(r.f_id) /\ r.f_dir = Top(s).dest /\ DeleteDone(Rq(s).u, r.f_id, Top(s).dest)
              /\ Goes(s, x) /\ x.fn = "deleteFolderById" /\ x.step = "next" /\ x.dest = Top(s).dest /\ x.rest = Top(s).rest \ {r}
         /\ faults'.seen = faults.seen \cup (IF t_file' # t_file THEN {"bytesKept"} ELSE {})
<1>. PICK f, o : f = Top(s) /\ o = Rq(s)
  OBVIOUS
<1>. PICK r : r = FirstOf(f.rest)
  OBVIOUS
<1>1. /\ Doing(s, "deleteFolderById", "next") /\ f.rest # {} /\ ~IsFolder(r.f_id) /\ disk' = disk /\ reply' = reply
      /\ DeleteRelation(o.u, r.f_id, f.dest) /\ Become(s, [f EXCEPT !.rest = @ \ {r}])
      /\ Disturb(IF t_file' # t_file THEN {"bytesKept"} ELSE {})
  BY DEF deleteFolderById_file
<1>2. r \in f.rest /\ r.f_id \in Fids /\ r.f_dir = f.dest /\ FolderOK(o, f) /\ f \in FrameRecord /\ run[s] # Idle
      /\ f.rest \subseteq Relation
  BY <1>1, FolderRow
<1>3. f.fn = "deleteFolderById" /\ f.step = "next"
  BY <1>1 DEF Doing
<1>. PICK x : x = [f EXCEPT !.rest = @ \ {r}]
  OBVIOUS
<1>4. x \in FrameRecord /\ x.step = f.step /\ x.fn = f.fn /\ x.fid = f.fid /\ x.dir = f.dir /\ x.dest = f.dest /\ x.rest = f.rest \ {r}
  BY <1>2, RestFrame
<1>5. FrameOK(o, x)
  BY <1>2, <1>3, <1>4 DEF FrameOK, FolderOK, RowsOK, Copiers
<1>6. DeleteDone(o.u, r.f_id, f.dest)
  BY <1>1, <1>2, BaseIs, DeleteIs DEF DbOK
<1>7. DbOK' /\ Grows
  <2>1. Grows
    BY <1>6 DEF DeleteDone
  <2>. QED  BY <1>2, <1>6, <2>1, BaseIs, DbAfterDelete
<1>8. FaultsOK' /\ faults'.seen = faults.seen \cup (IF t_file' # t_file THEN {"bytesKept"} ELSE {})
  <2>1. (IF t_file' # t_file THEN {"bytesKept"} ELSE {}) \in SUBSET Sorts
    BY DEF Sorts
  <2>. QED  BY <1>1, <2>1, BaseIs, DisturbIs
<1>9. Become(s, x)
  BY <1>1
<1>10. BaseInv' /\ Goes(s, x)
  BY <1>1, <1>2, <1>4, <1>5, <1>7, <1>8, <1>9, FrameStays, BaseGoes
<1>. QED  BY <1>1, <1>2, <1>3, <1>4, <1>6, <1>8, <1>10

LEMMA FolderFolder ==
  ASSUME BaseInv, NEW s \in Slots, deleteFolderById_folder(s)
  PROVE  /\ BaseInv' /\ Still /\ Doing(s, "deleteFolderById", "next") /\ FolderOK(Rq(s), Top(s))
         /\ \E r \in Top(s).rest, x, y \in FrameRecord :
              /\ r.f_id \in Fids /\ IsFolder(r.f_id) /\ r.f_dir = Top(s).dest
              /\ Calls(s, x, y) /\ y.fn = "deleteFolderById" /\ y.step = "next" /\ y.dest = Top(s).dest /\ y.rest = Top(s).rest \ {r}
              /\ x.fn = "deleteFolderById" /\ x.step = "delete" /\ x.fid = r.f_id /\ x.dir = Top(s).dest /\ x.rest = {}
<1>. PICK f, o : f = Top(s) /\ o = Rq(s)
  OBVIOUS
<1>. PICK r : r = FirstOf(f.rest)
  OBVIOUS
<1>1. /\ Doing(s, "deleteFolderById", "next") /\ f.rest # {} /\ IsFolder(r.f_id) /\ Still /\ reply' = reply
      /\ Call(s, [f EXCEPT !.rest = @ \ {r}], Folder(r))
  BY DEF deleteFolderById_folder, Still, db
<1>2. r \in f.rest /\ r \in Relation /\ RelationOK(r) /\ r.f_id \in Fids /\ r.f_dir = f.dest /\ FolderOK(o, f) /\ f \in FrameRecord
      /\ run[s] # Idle /\ f.rest \subseteq Relation /\ o \in Requests
  BY <1>1, FolderRow
<1>3. f.fn = "deleteFolderById" /\ f.step = "next"
  BY <1>1 DEF Doing
<1>. PICK y : y = [f EXCEPT !.rest = @ \ {r}]
  OBVIOUS
<1>4. y \in FrameRecord /\ y.step = f.step /\ y.fn = f.fn /\ y.fid = f.fid /\ y.dir = f.dir /\ y.dest = f.dest /\ y.rest = f.rest \ {r}
  BY <1>2, RestFrame
<1>5. FrameOK(o, y)
  BY <1>2, <1>3, <1>4 DEF FrameOK, FolderOK, RowsOK, Copiers
<1>. PICK x : x = Folder(r)
  OBVIOUS
<1>6. x \in FrameRecord /\ x.fn = "deleteFolderById" /\ x.step = "delete" /\ x.fid = r.f_id /\ x.dir = r.f_dir /\ x.rest = {}
      /\ x.dest = Append(r.f_dir, r.f_name) /\ x.dest = Append(x.dir, Name(x.fid))
  BY <1>1, <1>2, FolderFrame
<1>7. \E k \in o.ids : k \in Fids /\ IsFolder(k) /\ IsBelow(x.dest, Append(o.dir, Name(k)))
  <2>1. PICK k \in o.ids : k \in Fids /\ IsFolder(k) /\ IsBelow(f.dest, Append(o.dir, Name(k)))
    BY <1>2 DEF FolderOK
  <2>2. r.f_dir \in Seq(STRING) /\ r.f_name \in STRING
    BY <1>2 DEF Relation
  <2>3. Append(o.dir, Name(k)) \in Seq(STRING)
    BY <1>2, <2>1, NameIs, RequestIs, AppendProperties
  <2>4. IsBelow(r.f_dir, Append(o.dir, Name(k)))
    BY <1>2, <2>1
  <2>5. IsBelow(Append(r.f_dir, r.f_name), Append(o.dir, Name(k)))
    BY <2>2, <2>3, <2>4, BelowInside
  <2>. QED  BY <1>6, <2>1, <2>5
<1>8. FolderOK(o, x)
  BY <1>1, <1>2, <1>6, <1>7 DEF FolderOK, RowsOK
<1>9. FrameOK(o, x)
  BY <1>6, <1>8 DEF FrameOK, Copiers
<1>10. Grows /\ DbOK' /\ FaultsOK'
  BY <1>1, StillIs
<1>11. FrameOK(o, x)' /\ FrameOK(o, y)'
  BY <1>5, <1>9, <1>10, FrameStays
<1>12. x.fn \notin Entries /\ y.fn \in Walkers /\ y.step = "next" /\ y.fn = Top(s).fn
  BY <1>3, <1>4, <1>6 DEF Entries, Walkers
<1>13. BaseInv' /\ Calls(s, x, y)
  BY <1>1, <1>2, <1>4, <1>6, <1>10, <1>11, <1>12, BaseCalls
<1>14. x.fid = r.f_id /\ x.dir = f.dest /\ y.dest = f.dest /\ y.rest = f.rest \ {r} /\ x.fn = "deleteFolderById" /\ x.step = "delete"
       /\ x.rest = {} /\ y.fn = "deleteFolderById" /\ x \in FrameRecord /\ y \in FrameRecord
  BY <1>2, <1>3, <1>4, <1>6
<1>. QED  BY <1>1, <1>2, <1>12, <1>13, <1>14

LEMMA FolderEnd ==
  ASSUME BaseInv, NEW s \in Slots, deleteFolderById_end(s)
  PROVE  BaseInv' /\ Still /\ Doing(s, "deleteFolderById", "next") /\ Top(s).rest = {} /\ Returns(s)
<1>1. run[s] # Idle /\ Doing(s, "deleteFolderById", "next") /\ Top(s).rest = {} /\ Still /\ Return(s)
  BY DEF deleteFolderById_end, Doing, Still, db
<1>. QED  BY <1>1, ReturnStill

(* shareFile.                                                               *)
LEMMA SharePick ==
  ASSUME BaseInv, NEW s \in Slots, shareFile_pick(s)
  PROVE  /\ BaseInv' /\ Still /\ Doing(s, "shareFile", "pick")
         /\ \E x \in FrameRecord : /\ Goes(s, x) /\ x.fn = "shareFile" /\ x.rest = Top(s).rest
                                   /\ \/ x.step = "pick"
                                      \/ x.step = "next" /\ x.link \in Links /\ ~LinkTaken(x.link)
<1>. PICK f, o : f = Top(s) /\ o = Rq(s)
  OBVIOUS
<1>1. /\ run[s] # Idle /\ f.fn = "shareFile" /\ f.step = "pick" /\ Still /\ reply' = reply
      /\ \E link \in Links : IF LinkTaken(link) \/ f.dest # <<>> THEN Become(s, [f EXCEPT !.dest = <<"taken">>])
                             ELSE Become(s, [f EXCEPT !.step = "next", !.link = link])
  BY DEF shareFile_pick, Doing, Still, db
<1>2. f \in FrameRecord /\ o \in Requests /\ FrameOK(o, f) /\ ShareFileOK(o, f)
  BY <1>1, Running DEF FrameOK
<1>3. CASE Become(s, [f EXCEPT !.dest = <<"taken">>])
  <2>. PICK d : d = <<"taken">>
    OBVIOUS
  <2>. PICK x : x = [f EXCEPT !.dest = d]
    OBVIOUS
  <2>1. x \in FrameRecord /\ x.step = f.step /\ x.fn = f.fn /\ x.dir = f.dir /\ x.rest = f.rest
    BY <1>2, DestFrame
  <2>2. FrameOK(o, x)
    BY <1>1, <1>2, <2>1 DEF FrameOK, ShareFileOK, Copiers
  <2>3. BaseInv' /\ Goes(s, x)
    BY <1>1, <1>3, <2>1, <2>2, StillIs, FrameStays, BaseGoes
  <2>. QED  BY <1>1, <2>1, <2>3 DEF Doing
<1>4. CASE \E link \in Links : ~LinkTaken(link) /\ Become(s, [f EXCEPT !.step = "next", !.link = link])
  <2>1. PICK link \in Links : ~LinkTaken(link) /\ Become(s, [f EXCEPT !.step = "next", !.link = link])
    BY <1>4
  <2>. PICK x : x = [f EXCEPT !.step = "next", !.link = link]
    OBVIOUS
  <2>2. x \in FrameRecord /\ x.step = "next" /\ x.fn = f.fn /\ x.dir = f.dir /\ x.rest = f.rest /\ x.link = link
    <3>1. "next" \in Steps
      BY DEF Steps
    <3>2. x = [fn |-> f.fn, step |-> "next", fid |-> f.fid, dir |-> f.dir, rest |-> f.rest, dest |-> f.dest, link |-> link]
      BY <1>2 DEF FrameRecord, FramesOf
    <3>3. x.step = "next" /\ x.fn = f.fn /\ x.fid = f.fid /\ x.dir = f.dir /\ x.rest = f.rest /\ x.dest = f.dest /\ x.link = link
      BY <3>2
    <3>4. x \in FrameRecord
      BY <1>2, <3>1, <3>2, <3>3, FrameIs, IsFrame
    <3>. QED  BY <3>3, <3>4
  <2>3. FrameOK(o, x)
    BY <1>1, <1>2, <2>2 DEF FrameOK, ShareFileOK, Copiers
  <2>4. BaseInv' /\ Goes(s, x)
    BY <1>1, <2>1, <2>2, <2>3, StillIs, FrameStays, BaseGoes
  <2>. QED  BY <1>1, <2>1, <2>2, <2>4 DEF Doing
<1>. QED  BY <1>1, <1>3, <1>4

LEMMA ShareUpdate ==
  ASSUME BaseInv, NEW s \in Slots, shareFile_update(s)
  PROVE  /\ BaseInv' /\ UNCHANGED <<t_file, disk, faults>> /\ Doing(s, "shareFile", "next") /\ Top(s).link \in Links
         /\ \E x \in FrameRecord : Goes(s, x) /\ x.fn = "shareFile" /\ x.step = "next" /\ x.link = Top(s).link
         /\ \E fid \in Fids : Renumber(Rq(s).u, fid, Rq(s).dir, Top(s).link)
<1>. PICK f, o : f = Top(s) /\ o = Rq(s)
  OBVIOUS
<1>. PICK fid : fid = FirstFid(f.rest)
  OBVIOUS
<1>1. /\ run[s] # Idle /\ f.fn = "shareFile" /\ f.step = "next" /\ f.rest # {} /\ UNCHANGED <<t_file, disk, reply, faults>>
      /\ Become(s, [f EXCEPT !.rest = @ \ {fid}])
      /\ t_user_file' = {IF Is(q, o.u, fid, f.dir) THEN [q EXCEPT !.s_link = f.link] ELSE q : q \in t_user_file}
  BY DEF shareFile_update, Doing
<1>2. f \in FrameRecord /\ o \in Requests /\ FrameOK(o, f) /\ ShareFileOK(o, f) /\ reply[o].kind = "asked"
  BY <1>1, Running DEF FrameOK
<1>3. f.rest \subseteq Nat /\ f.link \in Links /\ f.dir = o.dir
  BY <1>1, <1>2, FrameIs DEF IdFns, ShareFileOK
<1>4. fid \in f.rest
  BY <1>1, <1>3, FirstFidIs
<1>5. fid \in Fids
  BY <1>2, <1>4 DEF ShareFileOK, BaseInv, ReplyOK, Named
<1>6. Renumber(o.u, fid, o.dir, f.link)
  BY <1>1, <1>3 DEF Numbered, Renumber
<1>7. DbOK' /\ Grows
  BY <1>1, <1>3, <1>6, BaseIs, DbAfterShare
<1>. PICK x : x = [f EXCEPT !.rest = @ \ {fid}]
  OBVIOUS
<1>8. x \in FrameRecord /\ x.step = f.step /\ x.fn = f.fn /\ x.dir = f.dir /\ x.rest = f.rest \ {fid} /\ x.link = f.link
  BY <1>2, RestFrame
<1>9. FrameOK(o, x)
  BY <1>1, <1>2, <1>8 DEF FrameOK, ShareFileOK, Copiers
<1>10. BaseInv' /\ Goes(s, x)
  BY <1>1, <1>7, <1>8, <1>9, SameFaults, FrameStays, BaseGoes
<1>. QED  BY <1>1, <1>3, <1>5, <1>6, <1>8, <1>10 DEF Doing

LEMMA ShareReply ==
  ASSUME BaseInv, NEW s \in Slots, shareFile_reply(s)
  PROVE  BaseInv' /\ Still /\ Doing(s, "shareFile", "next") /\ EndsWith(s, "ok", 0)
<1>1. run[s] # Idle /\ Still /\ Ends(s, "ok", 0) /\ Doing(s, "shareFile", "next")
  BY DEF shareFile_reply, Doing, Still, db, SendData
<1>2. EndsWith(s, "ok", 0)
  BY <1>1, EndsMoves DEF Kinds
<1>3. "ok" # "uploading"
  OBVIOUS
<1>. QED  BY <1>1, <1>2, <1>3, StillIs, BaseEnd

(* getShareByLink and addFolderByShareDir.                                  *)
LEMMA RowIs ==
  ASSUME NEW u \in Users, NEW fid \in Nat, NEW dir \in Seq(STRING), NEW name \in STRING, NEW row, row = Row(u, fid, dir, name)
  PROVE  row \in Relation /\ row.u_id = u /\ row.f_id = fid /\ row.f_dir = dir /\ row.f_name = name /\ row.s_link = 0
BY DEF Row, Relation

LEMMA InsertIs ==
  ASSUME BaseInv, NEW row \in Relation, RelationOK(row), InsertRelation(row), t_file' = t_file
  PROVE  /\ DbOK' /\ Grows /\ FaultsOK' /\ t_user_file' = t_user_file \cup {row} /\ Insertable(row)
         /\ faults'.seen = faults.seen \cup (IF Listed(row.u_id, row.f_dir) THEN {} ELSE {"late"})
<1>1. DbOK' /\ Grows
  BY BaseIs, DbAfterInsert
<1>2. Disturb(IF Listed(row.u_id, row.f_dir) THEN {} ELSE {"late"}) /\ t_user_file' = t_user_file \cup {row} /\ Insertable(row)
  BY DEF InsertRelation
<1>3. (IF Listed(row.u_id, row.f_dir) THEN {} ELSE {"late"}) \in SUBSET Sorts
  BY DEF Sorts
<1>4. FaultsOK' /\ faults'.seen = faults.seen \cup (IF Listed(row.u_id, row.f_dir) THEN {} ELSE {"late"})
  BY <1>2, <1>3, BaseIs, DisturbIs
<1>. QED  BY <1>1, <1>2, <1>4

LEMMA LinkSelect ==
  ASSUME BaseInv, NEW s \in Slots, getShareByLink_select(s)
  PROVE  /\ BaseInv' /\ Still /\ Doing(s, "getShareByLink", "select")
         /\ \/ EndsWith(s, "false", 0)
            \/ \E x \in FrameRecord : /\ Goes(s, x) /\ x.fn = "getShareByLink" /\ x.step = "next" /\ x.dest = Top(s).dest
                                      /\ x.rest = {r \in user_file_info : r.s_link = Rq(s).link}
<1>. PICK f, o : f = Top(s) /\ o = Rq(s)
  OBVIOUS
<1>. PICK rows : rows = {r \in user_file_info : r.s_link = o.link}
  OBVIOUS
<1>1. /\ run[s] # Idle /\ f.fn = "getShareByLink" /\ f.step = "select" /\ Still
      /\ IF rows = {} THEN Ends(s, "false", 0) ELSE Become(s, [f EXCEPT !.step = "next", !.rest = rows]) /\ reply' = reply
  BY DEF getShareByLink_select, Doing, Still, db, SendData
<1>2. f \in FrameRecord /\ o \in Requests /\ FrameOK(o, f) /\ CopierOK(o, f)
  BY <1>1, Running DEF FrameOK, Copiers
<1>3. CASE Ends(s, "false", 0)
  <2>1. EndsWith(s, "false", 0)
    BY <1>1, <1>3, EndsMoves DEF Kinds
  <2>2. "false" # "uploading"
    OBVIOUS
  <2>3. BaseInv'
    BY <1>1, <2>1, <2>2, StillIs, BaseEnd
  <2>. QED  BY <1>1, <2>1, <2>3 DEF Doing
<1>4. CASE Become(s, [f EXCEPT !.step = "next", !.rest = rows]) /\ reply' = reply
  <2>1. \A q \in rows : q \in Relation /\ RelationOK(q) /\ q \in user_file_info
    BY RelationIs DEF user_file_info
  <2>. PICK x : x = [f EXCEPT !.step = "next", !.rest = rows]
    OBVIOUS
  <2>2. x \in FrameRecord /\ x.step = "next" /\ x.fn = f.fn /\ x.dest = f.dest /\ x.rest = rows
    <3>1. rows \subseteq Relation /\ f.fn \in RowFns /\ f.fn \notin IdFns /\ "next" \in Steps
      BY <1>1, <2>1 DEF RowFns, Steps, Copiers, IdFns
    <3>2. x = [fn |-> f.fn, step |-> "next", fid |-> f.fid, dir |-> f.dir, rest |-> rows, dest |-> f.dest, link |-> f.link]
      BY <1>2 DEF FrameRecord, FramesOf
    <3>3. x.step = "next" /\ x.fn = f.fn /\ x.fid = f.fid /\ x.dir = f.dir /\ x.rest = rows /\ x.dest = f.dest /\ x.link = f.link
      BY <3>2
    <3>4. x \in FrameRecord
      BY <1>2, <3>1, <3>2, <3>3, FrameIs, IsFrame
    <3>. QED  BY <3>3, <3>4
  <2>3. FrameOK(o, x)
    BY <1>1, <1>2, <2>1, <2>2 DEF FrameOK, CopierOK, RowsOK, Copiers
  <2>4. BaseInv' /\ Goes(s, x)
    BY <1>1, <1>4, <2>2, <2>3, StillIs, FrameStays, BaseGoes
  <2>. QED  BY <1>1, <2>1, <2>2, <2>4 DEF Doing
<1>. QED  BY <1>1, <1>3, <1>4

LEMMA CopierRow ==
  ASSUME BaseInv, NEW s \in Slots, NEW fn \in Copiers, Doing(s, fn, "next"), Top(s).rest # {}, NEW r, r = FirstOf(Top(s).rest),
         NEW row, row = Row(Rq(s).u, r.f_id, Top(s).dest, r.f_name)
  PROVE  /\ r \in Top(s).rest /\ r \in Relation /\ RelationOK(r) /\ r.f_id \in Fids
         /\ CopierOK(Rq(s), Top(s)) /\ Top(s) \in FrameRecord /\ Rq(s) \in Requests /\ run[s] # Idle
         /\ Top(s).rest \subseteq Relation /\ row \in Relation /\ RelationOK(row)
         /\ row.u_id = Rq(s).u /\ row.f_id = r.f_id /\ row.f_dir = Top(s).dest /\ row.f_name = r.f_name /\ row.s_link = 0
<1>. PICK f, o : f = Top(s) /\ o = Rq(s)
  OBVIOUS
<1>1. run[s] # Idle /\ f.fn = fn
  BY DEF Doing
<1>2. f \in FrameRecord /\ o \in Requests /\ CopierOK(o, f)
  BY <1>1, Running DEF FrameOK
<1>3. \A q \in f.rest : q \in Relation /\ RelationOK(q)
  BY <1>2 DEF CopierOK, RowsOK
<1>4. \A q \in f.rest : q.f_id \in Nat
  BY <1>3 DEF Relation
<1>5. r \in f.rest
  BY <1>4, FirstOfIs
<1>6. r \in Relation /\ RelationOK(r) /\ r.f_id \in Nat /\ r.f_name \in STRING
  BY <1>3, <1>5 DEF Relation
<1>7. o.u \in Users /\ f.dest \in Seq(STRING)
  BY <1>2, RequestIs DEF CopierOK
<1>8. row \in Relation /\ row.u_id = o.u /\ row.f_id = r.f_id /\ row.f_dir = f.dest /\ row.f_name = r.f_name /\ row.s_link = 0
  BY <1>6, <1>7 DEF Row, Relation
<1>9. RelationOK(row)
  BY <1>6, <1>8 DEF RelationOK
<1>. QED  BY <1>1, <1>2, <1>3, <1>5, <1>6, <1>8, <1>9 DEF RelationOK

LEMMA ContentsFrame ==
  ASSUME NEW d \in Seq(STRING), NEW r \in Relation, NEW x, x = Contents(d, r)
  PROVE  /\ x \in FrameRecord /\ x.fn = "addFolderByShareDir" /\ x.step = "select" /\ x.rest = {} /\ x.dest = d
         /\ x.dir = Path(r)
<1>. PICK k, dir : k = r.f_id /\ dir = Append(r.f_dir, r.f_name)
  OBVIOUS
<1>1. k \in Nat /\ r.f_dir \in Seq(STRING) /\ r.f_name \in STRING
  BY DEF Relation
<1>2. dir \in Seq(STRING)
  BY <1>1, AppendProperties
<1>3. x = [fn |-> "addFolderByShareDir", step |-> "select", fid |-> k, dir |-> dir, rest |-> {}, dest |-> d, link |-> 0]
  BY DEF Contents, Frame
<1>4. x.fn = "addFolderByShareDir" /\ x.step = "select" /\ x.fid = k /\ x.dir = dir /\ x.rest = {} /\ x.dest = d /\ x.link = 0
  BY <1>3
<1>5. "addFolderByShareDir" \in RowFns \cup IdFns /\ "select" \in Steps
  BY DEF RowFns, Copiers, Steps
<1>6. x \in FrameRecord
  BY <1>1, <1>2, <1>3, <1>4, <1>5, IsFrame
<1>. QED  BY <1>4, <1>6 DEF Path

(* A row is copied; the frame y that remembers the rest, and x for what is  *)
(* in a folder.                                                             *)
Copied(s, fn, r, x, y) ==
  /\ y.fn = fn /\ y.step = "next" /\ y.rest = Top(s).rest \ {r} /\ y.dir = Top(s).dir
  /\ x.fn = "addFolderByShareDir" /\ x.step = "select" /\ x.rest = {}
  /\ x.dir = Path(r) /\ x.dest = Append(Top(s).dest, r.f_name)
  /\ IF IsFolder(r.f_id) THEN Calls(s, x, y) ELSE Goes(s, y)

LEMMA CopyIs ==
  ASSUME BaseInv, NEW s \in Slots, NEW fn \in Copiers, Doing(s, fn, "next"), NEW folderDest \in BOOLEAN, CopyRow(s, folderDest)
  PROVE  /\ BaseInv' /\ UNCHANGED <<t_file, disk, reply>>
         /\ \E r \in Top(s).rest, row \in Relation, x, y \in FrameRecord :
              /\ r = FirstOf(Top(s).rest)
              /\ InsertRelation(row) /\ row.u_id = Rq(s).u /\ row.f_id = r.f_id /\ row.f_dir = Top(s).dest /\ row.s_link = 0
              /\ Copied(s, fn, r, x, y) /\ ((folderDest /\ IsFolder(r.f_id)) \/ y.dest = Top(s).dest)
<1>. PICK f, o : f = Top(s) /\ o = Rq(s)
  OBVIOUS
<1>. PICK r : r = FirstOf(f.rest)
  OBVIOUS
<1>. DEFINE row   == Row(o.u, r.f_id, f.dest, r.f_name)
            below == Append(f.dest, r.f_name)
            rest  == [f EXCEPT !.rest = @ \ {r}]
            there == [rest EXCEPT !.dest = below]
            x     == Contents(below, r)
<1>1. /\ f.rest # {} /\ InsertRelation(row) /\ UNCHANGED <<t_file, disk, reply>>
      /\ IF IsFolder(r.f_id) THEN Call(s, IF folderDest THEN there ELSE rest, x) ELSE Become(s, rest)
      /\ r = FirstOf(Top(s).rest)
  BY DEF CopyRow, Below
<1>. HIDE DEF row, below, rest, there, x
<1>2. /\ r \in f.rest /\ r \in Relation /\ RelationOK(r) /\ CopierOK(o, f) /\ f \in FrameRecord /\ o \in Requests /\ run[s] # Idle
      /\ row \in Relation /\ RelationOK(row) /\ row.u_id = o.u /\ row.f_id = r.f_id /\ row.f_dir = f.dest /\ row.s_link = 0
  BY <1>1, CopierRow DEF row
<1>3. f.fn = fn /\ f.step = "next"
  BY DEF Doing
<1>4. below \in Seq(STRING)
  BY <1>2, AppendProperties DEF CopierOK, Relation, below
<1>5. rest \in FrameRecord /\ rest.step = "next" /\ rest.fn = fn /\ rest.rest = f.rest \ {r} /\ rest.dest = f.dest /\ rest.dir = f.dir
  BY <1>2, <1>3, RestFrame DEF rest
<1>6. there \in FrameRecord /\ there.step = "next" /\ there.fn = fn /\ there.rest = f.rest \ {r} /\ there.dest = below /\ there.dir = f.dir
  BY <1>4, <1>5, DestFrame DEF there
<1>7. x \in FrameRecord /\ x.fn = "addFolderByShareDir" /\ x.step = "select" /\ x.rest = {} /\ x.dest = below /\ x.dir = Path(r)
  BY <1>2, <1>4, ContentsFrame DEF x
<1>8. CopierOK(o, rest) /\ CopierOK(o, there) /\ CopierOK(o, x)
  BY <1>2, <1>4, <1>5, <1>6, <1>7 DEF CopierOK, RowsOK
<1>9. FrameOK(o, rest) /\ FrameOK(o, there) /\ FrameOK(o, x)
  BY <1>5, <1>6, <1>7, <1>8 DEF FrameOK, Copiers
<1>10. Grows /\ DbOK' /\ FaultsOK'
  BY <1>1, <1>2, InsertIs
<1>11. FrameOK(o, rest)' /\ FrameOK(o, there)' /\ FrameOK(o, x)'
  BY <1>9, <1>10, FrameStays
<1>12. CASE ~IsFolder(r.f_id)
  <2>1. Become(s, rest) /\ rest.fn = Top(s).fn
    BY <1>1, <1>3, <1>5, <1>12
  <2>2. BaseInv' /\ Goes(s, rest)
    BY <1>1, <1>2, <1>5, <1>10, <1>11, <2>1, BaseGoes
  <2>4. Copied(s, fn, r, x, rest)
    BY <1>5, <1>7, <1>12, <2>2 DEF Copied, below
  <2>. QED  BY <1>1, <1>2, <1>5, <1>7, <2>2, <2>4
<1>13. ASSUME NEW y \in {rest, there}, Call(s, y, x), IsFolder(r.f_id)
       PROVE  BaseInv' /\ Copied(s, fn, r, x, y)
  <2>1. y \in FrameRecord /\ y.step = "next" /\ y.fn = fn /\ y.rest = f.rest \ {r} /\ y.dir = f.dir /\ FrameOK(o, y)'
    BY <1>5, <1>6, <1>11, <1>13
  <2>2. x.fn \notin Entries /\ y.fn \in Walkers /\ x.fn \in Copiers /\ y.fn = Top(s).fn
    BY <1>3, <1>7, <2>1 DEF Entries, Walkers, Copiers
  <2>3. BaseInv' /\ Calls(s, x, y)
    BY <1>1, <1>2, <1>7, <1>10, <1>11, <1>13, <2>1, <2>2, BaseCalls
  <2>. QED  BY <1>7, <1>13, <2>1, <2>3 DEF Copied, below
<1>14. CASE IsFolder(r.f_id)
  <2>1. \E y \in {rest, there} : Call(s, y, x) /\ (folderDest \/ y = rest)
    BY <1>1, <1>14
  <2>2. PICK y \in {rest, there} : Call(s, y, x) /\ (folderDest \/ y = rest)
    BY <2>1
  <2>3. BaseInv' /\ Copied(s, fn, r, x, y) /\ y \in FrameRecord
    BY <1>5, <1>6, <1>13, <1>14, <2>2
  <2>4. folderDest \/ y.dest = f.dest
    BY <1>5, <2>2
  <2>. QED  BY <1>1, <1>2, <1>7, <1>14, <2>3, <2>4
<1>. QED  BY <1>12, <1>14

LEMMA CopyRefusedIs ==
  ASSUME BaseInv, NEW s \in Slots, NEW fn \in Copiers, Doing(s, fn, "next"), CopyRefused(s)
  PROVE  BaseInv' /\ UNCHANGED <<t_file, t_user_file, disk>> /\ Returns(s) /\ faults'.seen = faults.seen \cup {"refused"}
<1>1. run[s] # Idle /\ Return(s) /\ Disturb({"refused"}) /\ UNCHANGED <<db, disk>>
  BY DEF CopyRefused, Doing
<1>2. FaultsOK' /\ faults'.seen = faults.seen \cup {"refused"}
  BY <1>1, BaseIs, DisturbIs DEF Sorts
<1>3. DbOK' /\ Grows
  BY <1>1, BaseIs, SameDb
<1>. QED  BY <1>1, <1>2, <1>3, BaseReturn DEF db

LEMMA LinkReply ==
  ASSUME BaseInv, NEW s \in Slots, getShareByLink_reply(s)
  PROVE  BaseInv' /\ Still /\ Doing(s, "getShareByLink", "next") /\ Top(s).rest = {} /\ EndsWith(s, "ok", 0)
<1>1. run[s] # Idle /\ Still /\ Ends(s, "ok", 0) /\ Doing(s, "getShareByLink", "next") /\ Top(s).rest = {}
  BY DEF getShareByLink_reply, Doing, Still, db, SendData
<1>2. EndsWith(s, "ok", 0)
  BY <1>1, EndsMoves DEF Kinds
<1>3. "ok" # "uploading"
  OBVIOUS
<1>. QED  BY <1>1, <1>2, <1>3, StillIs, BaseEnd

LEMMA ContentsSelect ==
  ASSUME BaseInv, NEW s \in Slots, addFolderByShareDir_select(s)
  PROVE  /\ BaseInv' /\ Still /\ Doing(s, "addFolderByShareDir", "select")
         /\ \E x \in FrameRecord : /\ Goes(s, x) /\ x.fn = "addFolderByShareDir" /\ x.step = "next" /\ x.dest = Top(s).dest
                                   /\ x.dir = Top(s).dir /\ x.rest = {r \in user_file_info : r.f_dir = Top(s).dir}
<1>. PICK f, o : f = Top(s) /\ o = Rq(s)
  OBVIOUS
<1>. PICK rows : rows = {r \in user_file_info : r.f_dir = f.dir}
  OBVIOUS
<1>1. /\ run[s] # Idle /\ f.fn = "addFolderByShareDir" /\ f.step = "select" /\ Still
      /\ Become(s, [f EXCEPT !.step = "next", !.rest = rows]) /\ reply' = reply
  BY DEF addFolderByShareDir_select, Doing, Still, db
<1>2. f \in FrameRecord /\ o \in Requests /\ FrameOK(o, f) /\ CopierOK(o, f)
  BY <1>1, Running DEF FrameOK, Copiers
<1>3. \A q \in rows : q \in Relation /\ RelationOK(q) /\ q \in user_file_info
  BY RelationIs DEF user_file_info
<1>. PICK x : x = [f EXCEPT !.step = "next", !.rest = rows]
  OBVIOUS
<1>4. x \in FrameRecord /\ x.step = "next" /\ x.fn = f.fn /\ x.dir = f.dir /\ x.dest = f.dest /\ x.rest = rows
  <2>1. rows \subseteq Relation /\ f.fn \in RowFns /\ f.fn \notin IdFns /\ "next" \in Steps
    BY <1>1, <1>3 DEF RowFns, Steps, Copiers, IdFns
  <2>2. x = [fn |-> f.fn, step |-> "next", fid |-> f.fid, dir |-> f.dir, rest |-> rows, dest |-> f.dest, link |-> f.link]
    BY <1>2 DEF FrameRecord, FramesOf
  <2>3. x.step = "next" /\ x.fn = f.fn /\ x.fid = f.fid /\ x.dir = f.dir /\ x.rest = rows /\ x.dest = f.dest /\ x.link = f.link
    BY <2>2
  <2>4. x \in FrameRecord
    BY <1>2, <2>1, <2>2, <2>3, FrameIs, IsFrame
  <2>. QED  BY <2>3, <2>4
<1>5. FrameOK(o, x)
  BY <1>1, <1>2, <1>3, <1>4 DEF FrameOK, CopierOK, RowsOK, Copiers
<1>6. BaseInv' /\ Goes(s, x)
  BY <1>1, <1>4, <1>5, StillIs, FrameStays, BaseGoes
<1>. QED  BY <1>1, <1>3, <1>4, <1>6 DEF Doing

LEMMA ContentsEnd ==
  ASSUME BaseInv, NEW s \in Slots, addFolderByShareDir_end(s)
  PROVE  BaseInv' /\ Still /\ Doing(s, "addFolderByShareDir", "next") /\ Top(s).rest = {} /\ Returns(s)
<1>1. run[s] # Idle /\ Doing(s, "addFolderByShareDir", "next") /\ Top(s).rest = {} /\ Still /\ Return(s)
  BY DEF addFolderByShareDir_end, Doing, Still, db
<1>. QED  BY <1>1, ReturnStill

-----------------------------------------------------------------------------
(* addFolder and uploadFile.                                                *)
Makers == {"addFolder", "uploadFile"}
NewFile(r) ==
  FileRow(PathOf(r), KeyOf(r), IF r.fn = "uploadFile" THEN "file" ELSE "folder", IF r.fn = "uploadFile" THEN 0 ELSE 1)

LEMMA MakerIs ==
  ASSUME BaseInv, NEW s \in Slots, run[s] # Idle, Top(s).fn \in Makers
  PROVE  /\ Top(s) \in FrameRecord /\ Rq(s) \in Requests /\ FrameOK(Rq(s), Top(s)) /\ reply[Rq(s)].kind = "asked"
         /\ Rq(s).fn = Top(s).fn /\ Beneath(s) = {} /\ Top(s).fn \in Entries /\ Top(s).fn \notin RowFns /\ OnStack(s) = {Top(s)}
         /\ Top(s).fn = "uploadFile" => UploadFileOK(Rq(s), Top(s)) /\ PathOf(Rq(s)) = UploadPath(s) /\ KeyOf(Rq(s)) = Rq(s).md5
         /\ Top(s).fn = "addFolder" => AddFolderOK(Rq(s), Top(s)) /\ PathOf(Rq(s)) = FolderPath(s) /\ KeyOf(Rq(s)) = "?"
<1>1. Top(s).fn \in Entries /\ Top(s).fn \notin RowFns
  BY DEF Makers, Entries, RowFns, Copiers
<1>2. /\ Top(s) \in FrameRecord /\ Rq(s) \in Requests /\ FrameOK(Rq(s), Top(s)) /\ reply[Rq(s)].kind = "asked" /\ Beneath(s) = {}
      /\ OnStack(s) = {Top(s)} \cup Beneath(s)
  BY <1>1, Running
<1>3. CASE Top(s).fn = "uploadFile"
  BY <1>1, <1>2, <1>3 DEF FrameOK, UploadFileOK, PathOf, UploadPath, KeyOf
<1>4. CASE Top(s).fn = "addFolder"
  BY <1>1, <1>2, <1>4 DEF FrameOK, AddFolderOK, PathOf, FolderPath, KeyOf
<1>. QED  BY <1>1, <1>2, <1>3, <1>4 DEF Makers

LEMMA NewFileIs ==
  ASSUME NEW r \in Requests, r.fn \in Makers
  PROVE  /\ NewFile(r) \in FileRecord /\ NewFile(r).path = PathOf(r) /\ NewFile(r).md5 = KeyOf(r) /\ NewFile(r).path # <<>>
         /\ NewFile(r).there = TRUE /\ NewFile(r).type = (IF r.fn = "uploadFile" THEN "file" ELSE "folder")
         /\ NewFile(r).state = IF r.fn = "uploadFile" THEN 0 ELSE 1
         /\ IF NewFile(r).type = "file" THEN NewFile(r).md5 = NewFile(r).path[Len(NewFile(r).path)] /\ NewFile(r).md5 # "?"
            ELSE NewFile(r).md5 = "?" /\ NewFile(r).state = 1
<1>. PICK p, k : p = PathOf(r) /\ k = KeyOf(r)
  OBVIOUS
<1>1. p \in Seq(STRING) /\ p # <<>> /\ p[Len(p)] = (IF r.fn = "uploadFile" THEN r.md5 ELSE r.name) /\ (k = "?" <=> r.fn = "addFolder")
  BY RequestPath DEF Makers
<1>2. k \in STRING \cup {"?"} /\ (r.fn = "uploadFile" => k = r.md5)
  BY RequestIs DEF KeyOf, Makers
<1>3. r.fn = "uploadFile" \/ r.fn = "addFolder"
  BY DEF Makers
<1>4. CASE r.fn = "uploadFile"
  BY <1>1, <1>2, <1>4 DEF NewFile, FileRow, FileRecord
<1>5. CASE r.fn = "addFolder"
  BY <1>1, <1>2, <1>5 DEF NewFile, FileRow, FileRecord
<1>. QED  BY <1>3, <1>4, <1>5

(* The frame of addFolder or of uploadFile at another step.                 *)
MakerGoes(s, step, fid) ==
  \E x \in FrameRecord : Goes(s, x) /\ x.fn = Top(s).fn /\ x.step = step /\ x.fid = fid

LEMMA InsertFileIs ==
  ASSUME BaseInv, NEW s \in Slots, NEW fn \in Makers, Doing(s, fn, "insertFile"), Alloc(NewFile(Rq(s))), Goto(s, "selectId"),
         UNCHANGED <<t_user_file, disk, reply, faults>>
  PROVE  BaseInv' /\ Grows /\ MakerGoes(s, "selectId", Top(s).fid)
<1>. PICK f, o : f = Top(s) /\ o = Rq(s)
  OBVIOUS
<1>1. run[s] # Idle /\ f.fn = fn /\ f.step = "insertFile"
  BY DEF Doing
<1>2. f \in FrameRecord /\ o \in Requests /\ FrameOK(o, f) /\ o.fn = fn
  BY <1>1, MakerIs
<1>. DEFINE row == NewFile(o)
            x   == [f EXCEPT !.step = "selectId"]
<1>3. Alloc(row) /\ Become(s, x)
  BY DEF Goto
<1>4. /\ row \in FileRecord /\ row.path # <<>>
      /\ IF row.type = "file" THEN row.md5 = row.path[Len(row.path)] /\ row.md5 # "?" ELSE row.md5 = "?" /\ row.state = 1
  BY <1>2, NewFileIs
<1>. HIDE DEF row, x
<1>5. DbOK' /\ Grows
  BY <1>3, <1>4, BaseIs, DbAfterAlloc
<1>6. x \in FrameRecord /\ x.step = "selectId" /\ x.fn = f.fn /\ x.fid = f.fid
  BY <1>2, StepFrame DEF Steps, x
<1>7. FrameOK(o, x)
  BY <1>1, <1>2, <1>6 DEF FrameOK, AddFolderOK, UploadFileOK, Copiers, Makers
<1>8. BaseInv' /\ Goes(s, x)
  BY <1>1, <1>3, <1>5, <1>6, <1>7, SameFaults, FrameStays, BaseGoes
<1>. QED  BY <1>1, <1>5, <1>6, <1>8 DEF MakerGoes

(* The rows that the select for the new id finds.                           *)
Found(r) == {f \in Fids : t_file[f].there /\ FromPath(f, r)}

LEMMA SelectIdIs ==
  ASSUME BaseInv, NEW s \in Slots, NEW fn \in Makers, Doing(s, fn, "selectId"), SelectId(s, Found(Rq(s)))
  PROVE  BaseInv' /\ Still /\ (\/ Found(Rq(s)) = {} /\ Restart
                               \/ \E f \in Found(Rq(s)) : MakerGoes(s, "insertRel", f))
<1>. PICK f, o : f = Top(s) /\ o = Rq(s)
  OBVIOUS
<1>. PICK fids : fids = Found(o)
  OBVIOUS
<1>1. run[s] # Idle /\ f.fn = fn /\ f.step = "selectId"
  BY DEF Doing
<1>2. f \in FrameRecord /\ o \in Requests /\ FrameOK(o, f) /\ o.fn = fn
  BY <1>1, MakerIs
<1>3. UNCHANGED faults /\ FaultsOK'
  BY SameFaults DEF SelectId
<1>4. CASE fids = {}
  <2>1. Restart
    BY <1>4 DEF SelectId
  <2>. QED  BY <1>3, <1>4, <2>1, RestartIs DEF Still, db
<1>5. CASE fids # {}
  <2>1. fids \subseteq Nat /\ \A g \in fids : FromPath(g, o)
    BY BaseIs DEF Found
  <2>10. FirstFid(fids) \in fids
    BY <1>5, <2>1, FirstFidIs
  <2>. PICK fid : fid = FirstFid(fids)
    OBVIOUS
  <2>2. fid \in fids /\ fid \in Nat /\ FromPath(fid, o)
    BY <2>1, <2>10
  <2>. PICK x : x = [f EXCEPT !.step = "insertRel", !.fid = fid]
    OBVIOUS
  <2>3. Become(s, x) /\ UNCHANGED <<db, disk, reply>>
    BY <1>5 DEF SelectId
  <2>4. x \in FrameRecord /\ x.step = "insertRel" /\ x.fn = f.fn /\ x.fid = fid
    <3>1. f.fn \in IdFns /\ f.fn \notin RowFns /\ "insertRel" \in Steps
      BY <1>1 DEF RowFns, Steps, Copiers, IdFns, Makers
    <3>5. f \in FrameRecord
      BY <1>2
    <3>2. x = [fn |-> f.fn, step |-> "insertRel", fid |-> fid, dir |-> f.dir, rest |-> f.rest, dest |-> f.dest, link |-> f.link]
      BY <3>5 DEF FrameRecord, FramesOf
    <3>3. x.step = "insertRel" /\ x.fn = f.fn /\ x.fid = fid /\ x.dir = f.dir /\ x.rest = f.rest /\ x.dest = f.dest /\ x.link = f.link
      BY <3>2
    <3>4. x \in FrameRecord
      BY <1>2, <2>2, <3>1, <3>2, <3>3, FrameIs, IsFrame
    <3>. QED  BY <3>3, <3>4
  <2>5. FrameOK(o, x)
    BY <1>1, <1>2, <2>2, <2>4 DEF FrameOK, AddFolderOK, UploadFileOK, Copiers, Makers
  <2>6. Still
    BY <1>3, <2>3 DEF Still, db
  <2>9. Grows /\ DbOK' /\ FaultsOK' /\ FrameOK(o, x)'
    BY <2>5, <2>6, StillIs, FrameStays
  <2>7. BaseInv' /\ Goes(s, x)
    BY <1>1, <2>3, <2>4, <2>9, BaseGoes
  <2>8. MakerGoes(s, "insertRel", fid)
    BY <2>4, <2>7 DEF MakerGoes
  <2>. QED  BY <2>2, <2>6, <2>7, <2>8
<1>. QED  BY <1>4, <1>5

(* The relation to a file is made, or a key of the table refuses it.        *)
Related(s, step) ==
  \/ \E row \in Relation : /\ InsertRelation(row) /\ row.u_id = Rq(s).u /\ row.f_id = Top(s).fid /\ row.f_dir = Rq(s).dir
                           /\ row.s_link = 0
                           /\ MakerGoes(s, step, Top(s).fid)
  \/ t_user_file' = t_user_file /\ Returns(s) /\ faults'.seen = faults.seen \cup {"refused"}

LEMMA InsertRelIs ==
  ASSUME BaseInv, NEW s \in Slots, run[s] # Idle, Top(s).fn \in Makers, Top(s).fid \in Fids, NEW name \in STRING,
         IsFolder(Top(s).fid) => name = Name(Top(s).fid), NEW step \in Steps, InsertRel(s, name, step),
         NEW o, o = Rq(s), NEW x, x = [Top(s) EXCEPT !.step = step], FrameOK(o, x)
  PROVE  BaseInv' /\ UNCHANGED <<t_file, disk>> /\ Related(s, step)
<1>. PICK f : f = Top(s)
  OBVIOUS
<1>1. f \in FrameRecord /\ o \in Requests /\ o.u \in Users /\ o.dir \in Seq(STRING) /\ f.fid \in Nat
  BY MakerIs, RequestIs, FrameIs
<1>. DEFINE row == Row(o.u, f.fid, o.dir, name)
<1>2. /\ UNCHANGED <<t_file, disk>>
      /\ \/ InsertRelation(row) /\ Become(s, x) /\ reply' = reply
         \/ Return(s) /\ Disturb({"refused"}) /\ t_user_file' = t_user_file
  BY DEF InsertRel, Goto
<1>3. row \in Relation /\ row.u_id = o.u /\ row.f_id = f.fid /\ row.f_dir = o.dir /\ row.f_name = name /\ row.s_link = 0
  BY <1>1 DEF Row, Relation
<1>. HIDE DEF row
<1>4. RelationOK(row)
  BY <1>3 DEF RelationOK
<1>5. CASE InsertRelation(row) /\ Become(s, x) /\ reply' = reply
  <2>1. Grows /\ DbOK' /\ FaultsOK'
    BY <1>2, <1>3, <1>4, <1>5, InsertIs
  <2>2. x \in FrameRecord /\ x.step = step /\ x.fn = f.fn /\ x.fid = f.fid
    BY <1>1, StepFrame
  <2>3. BaseInv' /\ Goes(s, x)
    BY <1>5, <2>1, <2>2, FrameStays, BaseGoes
  <2>4. MakerGoes(s, step, f.fid)
    BY <2>2, <2>3 DEF MakerGoes
  <2>. QED  BY <1>2, <1>3, <1>5, <2>3, <2>4 DEF Related
<1>6. CASE Return(s) /\ Disturb({"refused"}) /\ t_user_file' = t_user_file
  <2>1. FaultsOK' /\ faults'.seen = faults.seen \cup {"refused"}
    BY <1>6, BaseIs, DisturbIs DEF Sorts
  <2>2. DbOK' /\ Grows
    BY <1>2, <1>6, BaseIs, SameDb DEF db
  <2>3. BaseInv' /\ Returns(s)
    BY <1>6, <2>1, <2>2, BaseReturn
  <2>. QED  BY <1>2, <1>6, <2>1, <2>3 DEF Related
<1>. QED  BY <1>2, <1>5, <1>6

LEMMA AddFolderInsert ==
  ASSUME BaseInv, NEW s \in Slots, addFolder_insertFile(s)
  PROVE  /\ BaseInv' /\ Grows /\ UNCHANGED <<t_user_file, disk, faults>> /\ Doing(s, "addFolder", "insertFile")
         /\ Alloc(NewFile(Rq(s))) /\ MakerGoes(s, "selectId", Top(s).fid)
<1>1. Doing(s, "addFolder", "insertFile") /\ Goto(s, "selectId") /\ UNCHANGED <<t_user_file, disk, reply, faults>>
      /\ run[s] # Idle /\ Top(s).fn = "addFolder" /\ Alloc(FileRow(FolderPath(s), "?", "folder", 1))
  BY DEF addFolder_insertFile, Doing
<1>2. "addFolder" \in Makers
  BY DEF Makers
<1>3. PathOf(Rq(s)) = FolderPath(s) /\ KeyOf(Rq(s)) = "?" /\ Rq(s).fn = "addFolder"
  BY <1>1, <1>2, MakerIs
<1>4. Alloc(NewFile(Rq(s)))
  BY <1>1, <1>3 DEF NewFile
<1>. QED  BY <1>1, <1>2, <1>4, InsertFileIs

LEMMA AddFolderSelect ==
  ASSUME BaseInv, NEW s \in Slots, addFolder_selectId(s)
  PROVE  /\ BaseInv' /\ UNCHANGED <<t_file, t_user_file, disk>> /\ Doing(s, "addFolder", "selectId")
         /\ \/ UNCHANGED faults /\ Found(Rq(s)) = {} /\ Restart
            \/ UNCHANGED faults /\ \E f \in Found(Rq(s)) : MakerGoes(s, "insertRel", f)
            \/ Restart /\ faults'.seen = faults.seen \cup {"crash"}
<1>1. Doing(s, "addFolder", "selectId") /\ run[s] # Idle /\ Top(s).fn = "addFolder"
      /\ (SelectId(s, WithPath(FolderPath(s), "?")) \/ (Fault("crash") /\ Restart))
  BY DEF addFolder_selectId, Doing
<1>2. "addFolder" \in Makers
  BY DEF Makers
<1>3. PathOf(Rq(s)) = FolderPath(s) /\ KeyOf(Rq(s)) = "?"
  BY <1>1, <1>2, MakerIs
<1>4. WithPath(FolderPath(s), "?") = Found(Rq(s))
  BY <1>3 DEF WithPath, Found, FromPath
<1>5. CASE SelectId(s, WithPath(FolderPath(s), "?"))
  <2>1. SelectId(s, Found(Rq(s)))
    BY <1>4, <1>5
  <2>2. BaseInv' /\ Still /\ ((Found(Rq(s)) = {} /\ Restart) \/ \E f \in Found(Rq(s)) : MakerGoes(s, "insertRel", f))
    BY <1>1, <1>2, <2>1, SelectIdIs
  <2>. QED  BY <1>1, <2>2 DEF Still
<1>6. CASE Fault("crash") /\ Restart
  <2>1. FaultsOK' /\ faults'.seen = faults.seen \cup {"crash"}
    BY <1>6, BaseIs, FaultIs DEF Sorts
  <2>2. BaseInv' /\ UNCHANGED <<db, disk>>
    BY <1>6, <2>1, RestartIs
  <2>. QED  BY <1>1, <1>6, <2>1, <2>2 DEF db
<1>. QED  BY <1>1, <1>5, <1>6

LEMMA AddFolderRelate ==
  ASSUME BaseInv, NEW s \in Slots, addFolder_insertRel(s)
  PROVE  BaseInv' /\ UNCHANGED <<t_file, disk>> /\ Doing(s, "addFolder", "insertRel") /\ FromPath(Top(s).fid, Rq(s))
         /\ Related(s, "mkdir")
<1>. PICK f, o : f = Top(s) /\ o = Rq(s)
  OBVIOUS
<1>1. run[s] # Idle /\ f.fn = "addFolder" /\ f.step = "insertRel" /\ InsertRel(s, o.name, "mkdir")
  BY DEF addFolder_insertRel, Doing
<1>2. f.fn \in Makers
  BY <1>1 DEF Makers
<1>3. f \in FrameRecord /\ o \in Requests /\ o.fn = "addFolder" /\ AddFolderOK(o, f) /\ KeyOf(o) = "?"
  BY <1>1, <1>2, MakerIs
<1>4. FromPath(f.fid, o) /\ f.fid \in Fids
  BY <1>1, <1>3 DEF AddFolderOK, FromPath
<1>5. o.name \in STRING /\ PathOf(o)[Len(PathOf(o))] = o.name
  BY <1>3, RequestIs, RequestPath
<1>6. o.name = Name(f.fid)
  BY <1>4, <1>5 DEF Name, FromPath
<1>. PICK x : x = [f EXCEPT !.step = "mkdir"]
  OBVIOUS
<1>7. "mkdir" \in Steps
  BY DEF Steps
<1>8. x.step = "mkdir" /\ x.fn = f.fn
  BY <1>3, <1>7, StepFrame
<1>9. FrameOK(o, x)
  BY <1>1, <1>3, <1>8 DEF FrameOK, AddFolderOK, Copiers
<1>10. BaseInv' /\ UNCHANGED <<t_file, disk>> /\ Related(s, "mkdir")
  BY <1>1, <1>2, <1>4, <1>5, <1>6, <1>7, <1>9, InsertRelIs
<1>. QED  BY <1>1, <1>4, <1>10 DEF Doing

LEMMA AddFolderMkdir ==
  ASSUME BaseInv, NEW s \in Slots, addFolder_mkdir(s)
  PROVE  /\ BaseInv' /\ UNCHANGED <<t_file, t_user_file, faults>> /\ Doing(s, "addFolder", "mkdir")
         /\ \/ disk' = disk \cup {PathOf(Rq(s))} /\ EndsWith(s, "ok", 0)
            \/ disk' = disk /\ Returns(s)
<1>6. Doing(s, "addFolder", "mkdir") /\ run[s] # Idle /\ Top(s).fn = "addFolder" /\ UNCHANGED <<db, faults>>
  BY DEF addFolder_mkdir, Doing
<1>7. \/ disk' = disk \cup {FolderPath(s)} /\ Ends(s, "ok", 0)
      \/ disk' = disk /\ Return(s)
  <2>1. CASE Directory(Rq(s).u, Rq(s).dir)
    BY <2>1, Zenon DEF addFolder_mkdir, SendData
  <2>2. CASE ~Directory(Rq(s).u, Rq(s).dir)
    BY <2>2, Zenon DEF addFolder_mkdir
  <2>. QED  BY <2>1, <2>2
<1>1. Doing(s, "addFolder", "mkdir") /\ run[s] # Idle /\ Top(s).fn = "addFolder" /\ UNCHANGED <<db, faults>>
      /\ ((disk' = disk \cup {FolderPath(s)} /\ Ends(s, "ok", 0)) \/ (disk' = disk /\ Return(s)))
  BY <1>6, <1>7
<1>2. DbOK' /\ Grows /\ FaultsOK'
  BY <1>1, BaseIs, SameDb, SameFaults
<1>3. PathOf(Rq(s)) = FolderPath(s)
  BY <1>1, MakerIs DEF Makers
<1>4. CASE disk' = disk \cup {FolderPath(s)} /\ Ends(s, "ok", 0)
  <2>1. EndsWith(s, "ok", 0)
    BY <1>1, <1>4, EndsMoves DEF Kinds
  <2>2. "ok" # "uploading"
    OBVIOUS
  <2>3. BaseInv'
    BY <1>1, <1>2, <2>1, <2>2, BaseEnd
  <2>. QED  BY <1>1, <1>3, <1>4, <2>1, <2>3 DEF db
<1>5. CASE disk' = disk /\ Return(s)
  <2>1. BaseInv' /\ Returns(s)
    BY <1>1, <1>2, <1>5, BaseReturn
  <2>. QED  BY <1>1, <1>5, <2>1 DEF db
<1>. QED  BY <1>1, <1>4, <1>5

LEMMA UploadStart ==
  ASSUME NEW s \in Slots, run[s] # Idle, Top(s).fn = "uploadFile", BaseInv
  PROVE  /\ Top(s) \in FrameRecord /\ Rq(s) \in Requests /\ Rq(s).fn = "uploadFile" /\ UploadFileOK(Rq(s), Top(s))
         /\ PathOf(Rq(s)) = UploadPath(s) /\ KeyOf(Rq(s)) = Rq(s).md5 /\ Top(s).fn \in Makers
         /\ Rq(s).md5 \in STRING /\ Rq(s).md5 # "?"
<1>1. Top(s).fn \in Makers
  BY DEF Makers
<1>. QED  BY <1>1, MakerIs, RequestIs

LEMMA UploadQuick ==
  ASSUME BaseInv, NEW s \in Slots, uploadFile_quick(s)
  PROVE  /\ BaseInv' /\ Still /\ Doing(s, "uploadFile", "quick")
         /\ \/ Complete(Rq(s).md5) = {} /\ MakerGoes(s, "open", Top(s).fid)
            \/ \E f \in Complete(Rq(s).md5) : MakerGoes(s, "quickInsert", f)
<1>. PICK f, o : f = Top(s) /\ o = Rq(s)
  OBVIOUS
<1>. PICK fids : fids = Complete(o.md5)
  OBVIOUS
<1>1. run[s] # Idle /\ f.fn = "uploadFile" /\ f.step = "quick" /\ Still /\ reply' = reply
      /\ Become(s, IF fids = {} THEN [f EXCEPT !.step = "open"] ELSE [f EXCEPT !.step = "quickInsert", !.fid = FirstFid(fids)])
  BY DEF uploadFile_quick, Doing, Still, db
<1>2. f \in FrameRecord /\ o \in Requests /\ o.fn = "uploadFile" /\ UploadFileOK(o, f)
  BY <1>1, UploadStart
<1>3. CASE fids = {}
  <2>. PICK x : x = [f EXCEPT !.step = "open"]
    OBVIOUS
  <2>1. Become(s, x)
    BY <1>1, <1>3
  <2>2. x \in FrameRecord /\ x.step = "open" /\ x.fn = f.fn /\ x.fid = f.fid
    BY <1>2, StepFrame DEF Steps
  <2>3. FrameOK(o, x)
    BY <1>1, <1>2, <2>2 DEF FrameOK, UploadFileOK, Copiers
  <2>4. Grows /\ DbOK' /\ FaultsOK' /\ FrameOK(o, x)'
    BY <1>1, <2>3, StillIs, FrameStays
  <2>5. BaseInv' /\ Goes(s, x)
    BY <1>1, <2>1, <2>2, <2>4, BaseGoes
  <2>6. MakerGoes(s, "open", f.fid)
    BY <2>2, <2>5 DEF MakerGoes
  <2>. QED  BY <1>1, <1>3, <2>5, <2>6 DEF Doing
<1>4. CASE fids # {}
  <2>1. fids \subseteq Nat /\ \A g \in fids : g \in Fids /\ t_file[g].md5 = o.md5 /\ Marked(g)
    BY BaseIs DEF Complete, Marked
  <2>2. FirstFid(fids) \in fids
    BY <1>4, <2>1, FirstFidIs
  <2>. PICK fid : fid = FirstFid(fids)
    OBVIOUS
  <2>3. fid \in fids /\ fid \in Nat /\ fid \in Fids /\ t_file[fid].md5 = o.md5 /\ Marked(fid)
    BY <2>1, <2>2
  <2>. PICK x : x = [f EXCEPT !.step = "quickInsert", !.fid = fid]
    OBVIOUS
  <2>4. Become(s, x)
    BY <1>1, <1>4
  <2>5. x \in FrameRecord /\ x.step = "quickInsert" /\ x.fn = f.fn /\ x.fid = fid
    <3>1. f.fn \in IdFns /\ f.fn \notin RowFns /\ "quickInsert" \in Steps
      BY <1>1 DEF RowFns, Steps, Copiers, IdFns
    <3>2. f \in FrameRecord
      BY <1>2
    <3>3. x = [fn |-> f.fn, step |-> "quickInsert", fid |-> fid, dir |-> f.dir, rest |-> f.rest, dest |-> f.dest, link |-> f.link]
      BY <3>2 DEF FrameRecord, FramesOf
    <3>4. x.step = "quickInsert" /\ x.fn = f.fn /\ x.fid = fid /\ x.dir = f.dir /\ x.rest = f.rest /\ x.dest = f.dest /\ x.link = f.link
      BY <3>3
    <3>5. x \in FrameRecord
      BY <2>3, <3>1, <3>2, <3>3, <3>4, FrameIs, IsFrame
    <3>. QED  BY <3>4, <3>5
  <2>6. FrameOK(o, x)
    BY <1>1, <1>2, <2>3, <2>5 DEF FrameOK, UploadFileOK, Copiers
  <2>7. Grows /\ DbOK' /\ FaultsOK' /\ FrameOK(o, x)'
    BY <1>1, <2>6, StillIs, FrameStays
  <2>8. BaseInv' /\ Goes(s, x)
    BY <1>1, <2>4, <2>5, <2>7, BaseGoes
  <2>9. MakerGoes(s, "quickInsert", fid)
    BY <2>5, <2>8 DEF MakerGoes
  <2>. QED  BY <1>1, <2>3, <2>8, <2>9 DEF Doing
<1>. QED  BY <1>3, <1>4

LEMMA UploadRelate ==
  ASSUME BaseInv, NEW s \in Slots, NEW at \in {"quickInsert", "insertRel"}, Doing(s, "uploadFile", at),
         NEW step, step = (IF at = "quickInsert" THEN "quickReply" ELSE "reply"), InsertRel(s, Rq(s).md5, step)
  PROVE  BaseInv' /\ UNCHANGED <<t_file, disk>> /\ Related(s, step) /\ UploadFileOK(Rq(s), Top(s)) /\ Top(s).fid \in Fids
<1>. PICK f, o : f = Top(s) /\ o = Rq(s)
  OBVIOUS
<1>1. run[s] # Idle /\ f.fn = "uploadFile" /\ f.step = at
  BY DEF Doing
<1>2. f \in FrameRecord /\ o \in Requests /\ o.fn = "uploadFile" /\ UploadFileOK(o, f) /\ KeyOf(o) = o.md5 /\ f.fn \in Makers
      /\ o.md5 \in STRING /\ o.md5 # "?"
  BY <1>1, UploadStart
<1>3. f.fid \in Fids /\ t_file[f.fid].md5 = o.md5
  BY <1>1, <1>2 DEF UploadFileOK, FromPath
<1>4. ~IsFolder(f.fid)
  BY <1>2, <1>3, NameIs DEF FileOK
<1>. PICK x : x = [f EXCEPT !.step = step]
  OBVIOUS
<1>5. step \in Steps
  BY DEF Steps
<1>6. x.step = step /\ x.fn = f.fn /\ x.fid = f.fid
  BY <1>2, <1>5, StepFrame
<1>7. FrameOK(o, x)
  BY <1>1, <1>2, <1>6 DEF FrameOK, UploadFileOK, Copiers
<1>8. BaseInv' /\ UNCHANGED <<t_file, disk>> /\ Related(s, step)
  BY <1>1, <1>2, <1>3, <1>4, <1>5, <1>7, InsertRelIs
<1>. QED  BY <1>2, <1>3, <1>8

LEMMA UploadOpen ==
  ASSUME BaseInv, NEW s \in Slots, uploadFile_open(s)
  PROVE  /\ BaseInv' /\ UNCHANGED <<t_file, t_user_file>> /\ Doing(s, "uploadFile", "open")
         /\ \/ /\ disk' = disk \cup {PathOf(Rq(s))} /\ MakerGoes(s, "insertFile", Top(s).fid)
               /\ faults'.seen = faults.seen \cup (IF \E t \in Slots : Removes(t, PathOf(Rq(s))) THEN {"reopened"} ELSE {})
            \/ disk' = disk /\ faults' = faults /\ Returns(s)
<1>. PICK f, o : f = Top(s) /\ o = Rq(s)
  OBVIOUS
<1>1. Doing(s, "uploadFile", "open") /\ run[s] # Idle /\ f.fn = "uploadFile" /\ f.step = "open" /\ UNCHANGED db
  BY DEF uploadFile_open, Doing
<1>2. f \in FrameRecord /\ o \in Requests /\ o.fn = "uploadFile" /\ UploadFileOK(o, f) /\ PathOf(o) = UploadPath(s)
  BY <1>1, UploadStart
<1>. PICK kinds : kinds = IF \E t \in Slots : Removes(t, PathOf(o)) THEN {"reopened"} ELSE {}
  OBVIOUS
<1>. PICK x : x = [f EXCEPT !.step = "insertFile"]
  OBVIOUS
<1>3. \/ disk' = disk \cup {PathOf(o)} /\ Become(s, x) /\ Disturb(kinds) /\ reply' = reply
      \/ disk' = disk /\ faults' = faults /\ Return(s)
  BY <1>2 DEF uploadFile_open, Removes, Goto
<1>4. DbOK' /\ Grows
  BY <1>1, BaseIs, SameDb
<1>5. CASE disk' = disk \cup {PathOf(o)} /\ Become(s, x) /\ Disturb(kinds) /\ reply' = reply
  <2>1. kinds \in SUBSET Sorts
    BY DEF Sorts
  <2>2. FaultsOK' /\ faults'.seen = faults.seen \cup kinds
    BY <1>5, <2>1, BaseIs, DisturbIs
  <2>3. x \in FrameRecord /\ x.step = "insertFile" /\ x.fn = f.fn /\ x.fid = f.fid
    BY <1>2, StepFrame DEF Steps
  <2>4. FrameOK(o, x)
    BY <1>1, <1>2, <2>3 DEF FrameOK, UploadFileOK, Copiers
  <2>5. FrameOK(o, x)'
    BY <1>4, <2>4, FrameStays
  <2>6. BaseInv' /\ Goes(s, x)
    BY <1>1, <1>4, <1>5, <2>2, <2>3, <2>5, BaseGoes
  <2>7. MakerGoes(s, "insertFile", f.fid)
    BY <2>3, <2>6 DEF MakerGoes
  <2>. QED  BY <1>1, <1>5, <2>2, <2>6, <2>7 DEF db
<1>6. CASE disk' = disk /\ faults' = faults /\ Return(s)
  <2>1. BaseInv' /\ Returns(s)
    BY <1>1, <1>4, <1>6, SameFaults, BaseReturn
  <2>. QED  BY <1>1, <1>6, <2>1 DEF db
<1>. QED  BY <1>3, <1>5, <1>6

LEMMA UploadInsert ==
  ASSUME BaseInv, NEW s \in Slots, uploadFile_insertFile(s)
  PROVE  /\ BaseInv' /\ Grows /\ UNCHANGED <<t_user_file, disk, faults>> /\ Doing(s, "uploadFile", "insertFile")
         /\ Alloc(NewFile(Rq(s))) /\ MakerGoes(s, "selectId", Top(s).fid)
<1>1. Doing(s, "uploadFile", "insertFile") /\ Goto(s, "selectId") /\ UNCHANGED <<t_user_file, disk, reply, faults>>
      /\ run[s] # Idle /\ Top(s).fn = "uploadFile" /\ Alloc(FileRow(UploadPath(s), Rq(s).md5, "file", 0))
  BY DEF uploadFile_insertFile, Doing
<1>2. "uploadFile" \in Makers
  BY DEF Makers
<1>3. PathOf(Rq(s)) = UploadPath(s) /\ KeyOf(Rq(s)) = Rq(s).md5 /\ Rq(s).fn = "uploadFile"
  BY <1>1, UploadStart
<1>4. Alloc(NewFile(Rq(s)))
  BY <1>1, <1>3 DEF NewFile
<1>. QED  BY <1>1, <1>2, <1>4, InsertFileIs

LEMMA UploadSelect ==
  ASSUME BaseInv, NEW s \in Slots, uploadFile_selectId(s)
  PROVE  /\ BaseInv' /\ Still /\ Doing(s, "uploadFile", "selectId")
         /\ \/ Found(Rq(s)) = {} /\ Restart
            \/ \E f \in Found(Rq(s)) : MakerGoes(s, "insertRel", f)
<1>1. Doing(s, "uploadFile", "selectId") /\ run[s] # Idle /\ Top(s).fn = "uploadFile"
      /\ SelectId(s, WithPath(UploadPath(s), Rq(s).md5))
  BY DEF uploadFile_selectId, Doing
<1>2. "uploadFile" \in Makers
  BY DEF Makers
<1>3. PathOf(Rq(s)) = UploadPath(s) /\ KeyOf(Rq(s)) = Rq(s).md5
  BY <1>1, UploadStart
<1>4. WithPath(UploadPath(s), Rq(s).md5) = Found(Rq(s))
  BY <1>3 DEF WithPath, Found, FromPath
<1>5. SelectId(s, Found(Rq(s)))
  BY <1>1, <1>4
<1>. QED  BY <1>1, <1>2, <1>5, SelectIdIs

LEMMA UploadReply ==
  ASSUME BaseInv, NEW s \in Slots, uploadFile_reply(s)
  PROVE  /\ BaseInv' /\ Still
         /\ \/ Doing(s, "uploadFile", "quickReply") /\ EndsWith(s, "ok", 0)
            \/ Doing(s, "uploadFile", "reply") /\ EndsWith(s, "uploading", Top(s).fid) /\ FromPath(Top(s).fid, Rq(s))
<1>. PICK f, o : f = Top(s) /\ o = Rq(s)
  OBVIOUS
<1>1. /\ run[s] # Idle /\ f.fn = "uploadFile" /\ Still
      /\ \/ Doing(s, "uploadFile", "quickReply") /\ Ends(s, "ok", 0)
         \/ Doing(s, "uploadFile", "reply") /\ Ends(s, "uploading", f.fid)
  BY DEF uploadFile_reply, Doing, Still, db, SendData
<1>2. f \in FrameRecord /\ o \in Requests /\ o.fn = "uploadFile" /\ UploadFileOK(o, f) /\ f.fid \in Nat
  BY <1>1, UploadStart, FrameIs
<1>3. CASE Doing(s, "uploadFile", "quickReply") /\ Ends(s, "ok", 0)
  <2>1. EndsWith(s, "ok", 0)
    BY <1>1, <1>3, EndsMoves DEF Kinds
  <2>2. "ok" # "uploading"
    OBVIOUS
  <2>3. BaseInv'
    BY <1>1, <2>1, <2>2, StillIs, BaseEnd
  <2>. QED  BY <1>1, <1>3, <2>1, <2>3
<1>4. CASE Doing(s, "uploadFile", "reply") /\ Ends(s, "uploading", f.fid)
  <2>1. EndsWith(s, "uploading", f.fid)
    BY <1>1, <1>2, <1>4, EndsMoves DEF Kinds
  <2>2. FromPath(f.fid, o)
    BY <1>2, <1>4 DEF UploadFileOK, Doing
  <2>3. Grows /\ DbOK' /\ FaultsOK'
    BY <1>1, StillIs
  <2>. PICK k : k = f.fid
    OBVIOUS
  <2>4. FromPath(k, o)'
    BY <2>2, <2>3 DEF FromPath, Grows, Kept
  <2>5. BaseInv'
    BY <1>1, <1>2, <2>1, <2>3, <2>4, BaseEnd
  <2>. QED  BY <1>1, <1>4, <2>1, <2>2, <2>5
<1>. QED  BY <1>1, <1>3, <1>4

-----------------------------------------------------------------------------
(* What is not a step of a handler's own: a call that fails, a crash, the   *)
(* last block of an upload, and a request that arrives.                     *)
LEMMA CallFailsIs ==
  ASSUME BaseInv, NEW s \in Slots, CallFails(s)
  PROVE  /\ BaseInv' /\ UNCHANGED <<t_file, t_user_file, disk>> /\ run[s] # Idle /\ Returns(s)
         /\ faults'.seen = faults.seen \cup {"call"}
<1>1. run[s] # Idle /\ Return(s) /\ Fault("call") /\ UNCHANGED <<db, disk>>
  BY DEF CallFails
<1>2. FaultsOK' /\ faults'.seen = faults.seen \cup {"call"}
  BY <1>1, BaseIs, FaultIs DEF Sorts
<1>3. DbOK' /\ Grows
  BY <1>1, BaseIs, SameDb
<1>. QED  BY <1>1, <1>2, <1>3, BaseReturn DEF db

LEMMA CrashIs ==
  ASSUME BaseInv, crash
  PROVE  BaseInv' /\ UNCHANGED <<t_file, t_user_file, disk>> /\ Restart /\ faults'.seen = faults.seen \cup {"crash"}
<1>1. Restart /\ Fault("crash")
  BY DEF crash
<1>2. FaultsOK' /\ faults'.seen = faults.seen \cup {"crash"}
  BY <1>1, BaseIs, FaultIs DEF Sorts
<1>. QED  BY <1>1, <1>2, RestartIs DEF db

(* The last block: the row is complete, and the request is carried out.     *)
LastBlock(r) ==
  /\ r.fn = "uploadFile" /\ reply[r].kind = "uploading" /\ FromPath(reply[r].fid, r)
  /\ t_file' = [t_file EXCEPT ![reply[r].fid].state = 1]
  /\ UNCHANGED <<t_user_file, disk, run, faults>>
  /\ reply'[r].kind = "ok" /\ \A o \in Requests \ {r} : reply'[o] = reply[o]

LEMMA LastBlockIs ==
  ASSUME BaseInv, NEW r \in Requests, fileContentRq_update(r)
  PROVE  BaseInv' /\ LastBlock(r)
<1>. PICK f : f = reply[r].fid
  OBVIOUS
<1>1. r.fn = "uploadFile" /\ reply[r].kind = "uploading" /\ FromPath(f, r) /\ f \in Fids
  BY DEF fileContentRq_update, BaseInv, ReplyOK, FromPath
<1>2. t_file' = [t_file EXCEPT ![f].state = 1] /\ UNCHANGED <<t_user_file, disk, run, faults>>
      /\ reply' = [reply EXCEPT ![r].kind = "ok"]
  BY DEF fileContentRq_update
<1>3. DbOK' /\ Grows /\ FaultsOK'
  BY <1>1, <1>2, BaseIs, DbAfterMark, SameFaults
<1>4. reply \in [Requests -> [kind : Kinds, fid : Nat]] /\ run \in [Slots -> Handling \cup {Idle}]
  BY DEF BaseInv, StateOK
<1>. PICK p : p = [reply[r] EXCEPT !.kind = "ok"]
  OBVIOUS
<1>5. p \in [kind : Kinds, fid : Nat] /\ p.kind = "ok"
  BY <1>4 DEF Kinds
<1>6. reply' = [reply EXCEPT ![r] = p]
  BY <1>2
<1>7. reply' \in [Requests -> [kind : Kinds, fid : Nat]] /\ reply'[r].kind = "ok" /\ \A o \in Requests \ {r} : reply'[o] = reply[o]
  BY <1>4, <1>5, <1>6
<1>8. StateOK'
  BY <1>2, <1>3, <1>4, <1>7 DEF StateOK, DbOK, FaultsOK
<1>9. ASSUME NEW o \in Requests PROVE ReplyOK(o)'
  <2>1. CASE o = r
    BY <1>1, <1>7, <2>1 DEF ReplyOK, Named
  <2>2. CASE o # r
    BY <1>3, <1>7, <2>2, ReplyStays DEF BaseInv
  <2>. QED  BY <2>1, <2>2
<1>10. ASSUME NEW s \in Slots, run'[s] # Idle PROVE SlotOK(s)'
  <2>1. run[s] # Idle /\ run'[s] = run[s]
    BY <1>2, <1>10
  <2>. PICK o : o = Rq(s)
    OBVIOUS
  <2>2. o \in Requests /\ reply[o].kind = "asked" /\ SlotOK(s)
    BY <2>1, Running DEF BaseInv
  <2>3. reply'[o].kind = "asked"
    BY <1>1, <1>7, <2>2
  <2>4. \A g \in OnStack(s) : FrameOK(o, g)'
    BY <1>3, <2>2, FrameStays DEF SlotOK
  <2>5. Rq(s)' = o /\ OnStack(s)' = OnStack(s)
    BY <2>1 DEF Rq, OnStack
  <2>6. (\A g \in OnStack(s) : FrameOK(Rq(s), g))'
    BY <2>4, <2>5
  <2>7. reply'[Rq(s)'].kind = "asked" /\ StackOK(run'[s].stack)
    BY <2>1, <2>2, <2>3, <2>5 DEF SlotOK
  <2>. QED  BY <2>6, <2>7 DEF SlotOK
<1>11. \A s, t \in Slots : run'[s] # Idle /\ run'[t] # Idle /\ Rq(s)' = Rq(t)' => s = t
  BY <1>2 DEF BaseInv, Rq
<1>. QED  BY <1>1, <1>2, <1>3, <1>7, <1>8, <1>9, <1>10, <1>11 DEF BaseInv, DbOK, LastBlock

(* The frame a handler begins with.                                         *)
Begins(r, x) ==
  /\ x.fn = r.fn
  /\ x.step = CASE r.fn = "deleteFile" -> "next" [] r.fn = "shareFile" -> "pick" [] r.fn = "getShareByLink" -> "select"
                [] r.fn = "addFolder" -> "insertFile" [] r.fn = "uploadFile" -> "quick"
  /\ r.fn \in RowFns => x.rest = {}
  /\ r.fn \in {"deleteFile", "shareFile"} => x.rest = r.ids
  /\ r.fn = "getShareByLink" => x.dest = r.dir

LEMMA FirstFrame ==
  ASSUME NEW fn \in IdFns, NEW step \in Steps, NEW dir \in Seq(STRING), NEW rest \in SUBSET Nat, NEW x,
         x = Frame(fn, step, 0, dir, rest)
  PROVE  x \in FrameRecord /\ x.fn = fn /\ x.step = step /\ x.rest = rest /\ x.dir = dir
<1>1. fn \notin RowFns
  BY DEF IdFns, RowFns, Copiers
<1>. PICK dest : dest = <<>>
  OBVIOUS
<1>2. x = [fn |-> fn, step |-> step, fid |-> 0, dir |-> dir, rest |-> rest, dest |-> dest, link |-> 0]
  BY DEF Frame
<1>3. x.fn = fn /\ x.step = step /\ x.fid = 0 /\ x.dir = dir /\ x.rest = rest /\ x.dest = dest /\ x.link = 0
  BY <1>2
<1>4. dest \in Seq(STRING)
  BY EmptySeq
<1>5. x \in FrameRecord
  BY <1>1, <1>2, <1>3, <1>4, IsFrame
<1>. QED  BY <1>3, <1>5

LEMMA FirstIs ==
  ASSUME NEW r \in Requests, NEW x, x = First(r)
  PROVE  x \in FrameRecord /\ Begins(r, x) /\ FrameOK(r, x)
<1>. PICK fn, dir : fn = r.fn /\ dir = r.dir
  OBVIOUS
<1>1. fn \in Entries /\ dir \in Seq(STRING) /\ (fn \in {"deleteFile", "shareFile"} => r.ids \subseteq Nat) /\ 0 \in Nat
  BY RequestIs
<1>3. CASE fn = "deleteFile"
  <2>1. x = Frame(fn, "next", 0, dir, r.ids)
    BY <1>3 DEF First
  <2>2. "next" \in Steps /\ fn \in IdFns /\ r.ids \in SUBSET Nat
    BY <1>1, <1>3 DEF Steps, IdFns
  <2>3. x \in FrameRecord /\ x.fn = fn /\ x.step = "next" /\ x.rest = r.ids /\ x.dir = dir
    BY <1>1, <2>1, <2>2, FirstFrame
  <2>. QED  BY <1>3, <2>3 DEF Begins, RowFns, Copiers, FrameOK, DeleteFileOK
<1>4. CASE fn = "shareFile"
  <2>1. x = Frame(fn, "pick", 0, dir, r.ids)
    BY <1>4 DEF First
  <2>2. "pick" \in Steps /\ fn \in IdFns /\ r.ids \in SUBSET Nat
    BY <1>1, <1>4 DEF Steps, IdFns
  <2>3. x \in FrameRecord /\ x.fn = fn /\ x.step = "pick" /\ x.rest = r.ids /\ x.dir = dir
    BY <1>1, <2>1, <2>2, FirstFrame
  <2>. QED  BY <1>4, <2>3 DEF Begins, RowFns, Copiers, FrameOK, ShareFileOK
<1>5. CASE fn = "addFolder"
  <2>1. x = Frame(fn, "insertFile", 0, dir, {})
    BY <1>5 DEF First
  <2>2. "insertFile" \in Steps /\ fn \in IdFns
    BY <1>5 DEF Steps, IdFns
  <2>3. x \in FrameRecord /\ x.fn = fn /\ x.step = "insertFile"
    BY <1>1, <2>1, <2>2, FirstFrame
  <2>. QED  BY <1>5, <2>3 DEF Begins, RowFns, Copiers, FrameOK, AddFolderOK
<1>6. CASE fn = "uploadFile"
  <2>1. x = Frame(fn, "quick", 0, dir, {})
    BY <1>6 DEF First
  <2>2. "quick" \in Steps /\ fn \in IdFns
    BY <1>6 DEF Steps, IdFns
  <2>3. x \in FrameRecord /\ x.fn = fn /\ x.step = "quick"
    BY <1>1, <2>1, <2>2, FirstFrame
  <2>. QED  BY <1>6, <2>3 DEF Begins, RowFns, Copiers, FrameOK, UploadFileOK
<1>7. CASE fn = "getShareByLink"
  <2>1. x = [Frame(fn, "select", 0, dir, {}) EXCEPT !.dest = dir]
    BY <1>7 DEF First
  <2>2. x = [fn |-> fn, step |-> "select", fid |-> 0, dir |-> dir, rest |-> {}, dest |-> dir, link |-> 0]
    BY <2>1 DEF Frame
  <2>3. x.fn = fn /\ x.step = "select" /\ x.fid = 0 /\ x.dir = dir /\ x.rest = {} /\ x.dest = dir /\ x.link = 0
    BY <2>2
  <2>4. fn \in RowFns \cup IdFns /\ "select" \in Steps
    BY <1>7 DEF RowFns, Copiers, Steps
  <2>5. x \in FrameRecord
    BY <1>1, <2>2, <2>3, <2>4, IsFrame
  <2>. QED  BY <1>1, <1>7, <2>3, <2>5 DEF Begins, RowFns, Copiers, FrameOK, CopierOK, RowsOK
<1>. QED  BY <1>1, <1>3, <1>4, <1>5, <1>6, <1>7 DEF Entries

(* Request r begins in slot s.                                              *)
Starts(r, s, x) ==
  /\ run[s] = Idle /\ run'[s] # Idle /\ Rq(s)' = r /\ Top(s)' = x /\ Beneath(s)' = {} /\ OnStack(s)' = {x}
  /\ run'[s].alone <=> \A o \in Slots : run[o] = Idle
  /\ \A t \in Slots \ {s} : /\ run'[t] # Idle <=> run[t] # Idle
                            /\ run[t] # Idle => run'[t].stack = run[t].stack /\ run'[t].r = run[t].r /\ run'[t].alone = FALSE
  /\ reply[r].kind = "none" /\ reply'[r].kind = "asked" /\ \A o \in Requests \ {r} : reply'[o] = reply[o]

LEMMA FirstStackIs ==
  ASSUME NEW x \in FrameRecord, x.fn \in Entries, NEW q, q = <<x>>
  PROVE  q \in Seq(FrameRecord) /\ q # <<>> /\ Head(q) = x /\ Callers(q) = {} /\ All(q) = {x} /\ StackOK(q)
<1>1. MadeOf(q, FrameRecord, x, {}) /\ StackOK(q)
  BY FirstStack
<1>. QED  BY <1>1 DEF MadeOf

LEMMA SendIs ==
  ASSUME BaseInv, NEW r \in Requests, Send(r)
  PROVE  /\ BaseInv' /\ UNCHANGED <<t_file, t_user_file, disk>> /\ Listed(r.u, r.dir)
         /\ \A fid \in Named(r) : \E q \in getFileList(r.u, r.dir) : q.f_id = fid
         /\ \E s \in Slots, x \in FrameRecord : Starts(r, s, x) /\ Begins(r, x)
         /\ faults'.seen = faults.seen \cup (IF r.fn = "shareFile" /\ \E s \in Slots : Sharing(s) THEN {"twoShares"} ELSE {})
<1>. PICK kinds : kinds = IF r.fn = "shareFile" /\ \E s \in Slots : Sharing(s) THEN {"twoShares"} ELSE {}
  OBVIOUS
<1>. PICK x : x = First(r)
  OBVIOUS
<1>. PICK q : q = <<x>>
  OBVIOUS
<1>. PICK alone \in BOOLEAN : alone <=> \A o \in Slots : run[o] = Idle
  OBVIOUS
<1>1. /\ reply[r].kind = "none" /\ Listed(r.u, r.dir) /\ \A fid \in Named(r) : \E p \in getFileList(r.u, r.dir) : p.f_id = fid
      /\ reply' = [reply EXCEPT ![r].kind = "asked"] /\ Disturb(kinds) /\ UNCHANGED <<db, disk>>
  BY DEF Send
<1>2. PICK s \in Slots :
        /\ run[s] = Idle
        /\ run' = [t \in Slots |->
             IF t = s THEN [r |-> r, stack |-> q, alone |-> \A o \in Slots : run[o] = Idle]
             ELSE IF run[t] = Idle THEN Idle ELSE [run[t] EXCEPT !.alone = FALSE]]
  BY DEF Send
<1>3. kinds \in SUBSET Sorts
  BY DEF Sorts
<1>4. FaultsOK' /\ faults'.seen = faults.seen \cup kinds
  BY <1>1, <1>3, BaseIs, DisturbIs
<1>5. DbOK' /\ Grows
  BY <1>1, BaseIs, SameDb
<1>6. x \in FrameRecord /\ Begins(r, x) /\ FrameOK(r, x)
  BY FirstIs
<1>7. x.fn \in Entries
  BY <1>6, RequestIs DEF Begins
<1>8. q \in Seq(FrameRecord) /\ q # <<>> /\ Head(q) = x /\ Callers(q) = {} /\ All(q) = {x} /\ StackOK(q)
  BY <1>6, <1>7, FirstStackIs
<1>. PICK h : h = [r |-> r, stack |-> q, alone |-> alone]
  OBVIOUS
<1>9. h \in Handling /\ h.r = r /\ h.stack = q /\ h.alone = alone
  BY <1>8 DEF Handling
<1>10. reply \in [Requests -> [kind : Kinds, fid : Nat]] /\ run \in [Slots -> Handling \cup {Idle}]
  BY DEF BaseInv, StateOK
<1>11. run'[s] = h /\ h # Idle
  BY <1>2, <1>9, HandlingIsNotIdle
<1>12. ASSUME NEW t \in Slots, t # s
       PROVE  /\ run'[t] \in Handling \cup {Idle} /\ (run'[t] # Idle <=> run[t] # Idle)
              /\ run[t] # Idle => run'[t].stack = run[t].stack /\ run'[t].r = run[t].r /\ run'[t].alone = FALSE
  <2>1. CASE run[t] = Idle
    BY <1>2, <1>12, <2>1
  <2>2. CASE run[t] # Idle
    <3>. PICK g, k : g = run[t] /\ k = [g EXCEPT !.alone = FALSE]
      OBVIOUS
    <3>1. g \in Handling
      BY <1>10, <2>2
    <3>2. k \in Handling /\ k.stack = g.stack /\ k.r = g.r /\ k.alone = FALSE
      BY <3>1 DEF Handling
    <3>3. run'[t] = k
      BY <1>2, <1>12, <2>2
    <3>. QED  BY <2>2, <3>2, <3>3, HandlingIsNotIdle
  <2>. QED  BY <2>1, <2>2
<1>13. run' \in [Slots -> Handling \cup {Idle}]
  <2>1. \A t \in Slots : run'[t] \in Handling \cup {Idle}
    BY <1>9, <1>11, <1>12
  <2>2. run' = [t \in Slots |-> run'[t]]
    BY <1>2
  <2>. QED  BY <2>1, <2>2
<1>. PICK p : p = [reply[r] EXCEPT !.kind = "asked"]
  OBVIOUS
<1>14. p \in [kind : Kinds, fid : Nat] /\ p.kind = "asked"
  BY <1>10 DEF Kinds
<1>15. reply' = [reply EXCEPT ![r] = p]
  BY <1>1
<1>16. reply' \in [Requests -> [kind : Kinds, fid : Nat]] /\ reply'[r].kind = "asked" /\ \A o \in Requests \ {r} : reply'[o] = reply[o]
  BY <1>10, <1>14, <1>15
<1>17. Rq(s)' = r /\ Top(s)' = x /\ Beneath(s)' = {} /\ OnStack(s)' = {x} /\ run'[s] # Idle /\ run'[s].alone = alone
  BY <1>8, <1>9, <1>11 DEF Rq, Top, Beneath, OnStack
<1>18. Starts(r, s, x)
  BY <1>1, <1>2, <1>12, <1>16, <1>17 DEF Starts
<1>19. StateOK'
  BY <1>4, <1>5, <1>13, <1>16 DEF StateOK, DbOK, FaultsOK
<1>20. ASSUME NEW o \in Requests PROVE ReplyOK(o)'
  <2>1. CASE o = r
    <3>1. \A k \in Named(r) : k \in Fids /\ Marked(k)
      <4>. TAKE k \in Named(r)
      <4>1. PICK z \in getFileList(r.u, r.dir) : z.f_id = k
        BY <1>1
      <4>2. z \in t_user_file /\ t_file[z.f_id].state = 1
        BY DEF getFileList, In, user_file_info
      <4>. QED  BY <4>1, <4>2, RelationIs DEF Marked
    <3>2. \A k \in Named(r) : k \in Fids' /\ Marked(k)'
      BY <1>5, <3>1 DEF Grows, Kept, Marked
    <3>. QED  BY <1>16, <2>1, <3>2 DEF ReplyOK, Named
  <2>2. CASE o # r
    BY <1>5, <1>16, <2>2, ReplyStays DEF BaseInv
  <2>. QED  BY <2>1, <2>2
<1>21. ASSUME NEW t \in Slots, t # s, run'[t] # Idle
       PROVE  SlotOK(t)' /\ run[t] # Idle /\ Rq(t)' = Rq(t) /\ Rq(t) # r
  <2>. PICK o : o = Rq(t)
    OBVIOUS
  <2>1. run[t] # Idle /\ run'[t].stack = run[t].stack /\ run'[t].r = run[t].r
    BY <1>12, <1>21
  <2>2. o \in Requests /\ reply[o].kind = "asked" /\ SlotOK(t)
    BY <2>1, Running DEF BaseInv
  <2>3. reply'[o].kind = "asked" /\ o # r
    BY <1>1, <1>16, <2>2
  <2>4. \A g \in OnStack(t) : FrameOK(o, g)'
    BY <1>5, <2>2, FrameStays DEF SlotOK
  <2>5. Rq(t)' = o /\ OnStack(t)' = OnStack(t)
    BY <2>1 DEF Rq, OnStack
  <2>6. (\A g \in OnStack(t) : FrameOK(Rq(t), g))'
    BY <2>4, <2>5
  <2>7. reply'[Rq(t)'].kind = "asked" /\ StackOK(run'[t].stack)
    BY <2>1, <2>2, <2>3, <2>5 DEF SlotOK
  <2>. QED  BY <2>1, <2>3, <2>5, <2>6, <2>7 DEF SlotOK
<1>22. SlotOK(s)'
  <2>1. FrameOK(r, x)'
    BY <1>5, <1>6, FrameStays
  <2>2. (\A g \in OnStack(s) : FrameOK(Rq(s), g))'
    BY <1>17, <2>1
  <2>3. reply'[Rq(s)'].kind = "asked" /\ StackOK(run'[s].stack)
    BY <1>8, <1>9, <1>11, <1>16, <1>17
  <2>. QED  BY <2>2, <2>3 DEF SlotOK
<1>23. \A a, b \in Slots : run'[a] # Idle /\ run'[b] # Idle /\ Rq(a)' = Rq(b)' => a = b
  BY <1>17, <1>21 DEF BaseInv
<1>24. BaseInv'
  BY <1>5, <1>19, <1>20, <1>21, <1>22, <1>23 DEF BaseInv, DbOK
<1>. QED  BY <1>1, <1>4, <1>6, <1>18, <1>24 DEF db

LEMMA BaseStep ==
  ASSUME BaseInv, Next
  PROVE  BaseInv'
<1>1. ASSUME NEW s \in Slots, Handler(s) PROVE BaseInv'
  <2>1. CASE deleteFile(s)
    BY <2>1, DeleteFileNext, DeleteFileReply DEF deleteFile
  <2>2. CASE deleteFileById(s)
    BY <2>2, ByIdDelete, ByIdCount, ByIdRemove DEF deleteFileById
  <2>3. CASE deleteFolderById(s)
    BY <2>3, FolderDelete, FolderSelect, FolderFile, FolderFolder, FolderEnd DEF deleteFolderById
  <2>4. CASE shareFile(s)
    BY <2>4, SharePick, ShareUpdate, ShareReply DEF shareFile
  <2>5. CASE getShareByLink_select(s) \/ getShareByLink_reply(s)
    BY <2>5, LinkSelect, LinkReply
  <2>6. CASE getShareByLink_next(s)
    BY <2>6, CopyIs, CopyRefusedIs DEF getShareByLink_next, Copiers
  <2>7. CASE addFolderByShareDir_select(s) \/ addFolderByShareDir_end(s)
    BY <2>7, ContentsSelect, ContentsEnd
  <2>8. CASE addFolderByShareDir_next(s)
    BY <2>8, CopyIs, CopyRefusedIs DEF addFolderByShareDir_next, Copiers
  <2>9. CASE addFolder(s)
    BY <2>9, AddFolderInsert, AddFolderSelect, AddFolderRelate, AddFolderMkdir DEF addFolder
  <2>10. CASE uploadFile_quickInsert(s)
    BY <2>10, UploadRelate DEF uploadFile_quickInsert
  <2>11. CASE uploadFile_insertRel(s)
    BY <2>11, UploadRelate DEF uploadFile_insertRel
  <2>12. CASE uploadFile_quick(s) \/ uploadFile_open(s) \/ uploadFile_insertFile(s) \/ uploadFile_selectId(s) \/ uploadFile_reply(s)
    BY <2>12, UploadQuick, UploadOpen, UploadInsert, UploadSelect, UploadReply
  <2>. QED  BY <1>1, <2>1, <2>2, <2>3, <2>4, <2>5, <2>6, <2>7, <2>8, <2>9, <2>10, <2>11, <2>12
            DEF Handler, getShareByLink, addFolderByShareDir, uploadFile
<1>2. ASSUME NEW s \in Slots, CallFails(s) PROVE BaseInv'
  BY <1>2, CallFailsIs
<1>3. ASSUME NEW r \in Requests, Send(r) PROVE BaseInv'
  BY <1>3, SendIs
<1>4. ASSUME NEW r \in Requests, fileContentRq_update(r) PROVE BaseInv'
  BY <1>4, LastBlockIs
<1>5. CASE crash
  BY <1>5, CrashIs
<1>. QED  BY <1>1, <1>2, <1>3, <1>4, <1>5 DEF Next

LEMMA BaseStays ==
  ASSUME BaseInv, UNCHANGED vars
  PROVE  BaseInv'
<1>1. UNCHANGED <<db, disk, run, reply, faults>>
  BY DEF vars
<1>2. DbOK' /\ Grows /\ FaultsOK'
  BY <1>1, BaseIs, SameDb, SameFaults
<1>3. StateOK'
  BY <1>1, <1>2 DEF BaseInv, StateOK, DbOK, FaultsOK
<1>4. \A r \in Requests : ReplyOK(r)'
  BY <1>1, <1>2, ReplyStays DEF BaseInv
<1>5. ASSUME NEW s \in Slots, run'[s] # Idle PROVE SlotOK(s)'
  <2>. PICK o : o = Rq(s)
    OBVIOUS
  <2>1. SlotOK(s) /\ Rq(s)' = o /\ OnStack(s)' = OnStack(s)
    BY <1>1, <1>5 DEF BaseInv, Rq, OnStack
  <2>2. \A g \in OnStack(s) : FrameOK(o, g)'
    BY <1>2, <2>1, FrameStays DEF SlotOK
  <2>3. (\A g \in OnStack(s) : FrameOK(Rq(s), g))'
    BY <2>1, <2>2
  <2>. QED  BY <1>1, <2>1, <2>3 DEF SlotOK
<1>6. \A a, b \in Slots : run'[a] # Idle /\ run'[b] # Idle /\ Rq(a)' = Rq(b)' => a = b
  BY <1>1 DEF BaseInv, Rq
<1>. QED  BY <1>2, <1>3, <1>4, <1>5, <1>6 DEF BaseInv, DbOK

LEMMA SeqOfMore ==
  ASSUME NEW A, NEW B, A \subseteq B, NEW q \in Seq(A)
  PROVE  q \in Seq(B) /\ \A i \in 1..Len(q) : q[i] \in A
<1>1. Len(q) \in Nat /\ q \in [1..Len(q) -> A]
  BY LenProperties
<1>2. q \in [1..Len(q) -> B]
  BY <1>1
<1>3. q \in Seq(B)
  BY <1>1, <1>2, SeqDef
<1>. QED  BY <1>1, <1>3

LEMMA BaseInit ==
  ASSUME Init
  PROVE  BaseInv /\ \A f \in Fids : t_file[f].there
<1>1. t_file = t_file_0 /\ t_user_file = t_user_file_0 /\ run = [s \in Slots |-> Idle]
      /\ reply = [r \in Requests |-> [kind |-> "none", fid |-> 0]] /\ faults = [left |-> MaxFaults, seen |-> {}]
  BY DEF Init
<1>. DEFINE Rows == [path : Seq(STRING) \ {<<>>}, md5 : STRING \cup {"?"}, type : {"file", "folder"}, state : {0, 1}, there : {TRUE}]
<1>2. t_file \in Seq(FileRecord) /\ \A f \in Fids : t_file[f] \in Rows
  <2>1. [path : Seq(STRING) \ {<<>>}, md5 : STRING \cup {"?"}, type : {"file", "folder"}, state : {0, 1}, there : {TRUE}]
        \subseteq FileRecord
    BY DEF FileRecord
  <2>2. t_file_0 \in Seq(Rows)
    BY FilesAssumption
  <2>3. Rows \subseteq FileRecord
    BY <2>1
  <2>. HIDE DEF Rows
  <2>4. t_file_0 \in Seq(FileRecord) /\ \A f \in 1..Len(t_file_0) : t_file_0[f] \in Rows
    BY <2>2, <2>3, SeqOfMore
  <2>. QED  BY <1>1, <2>4 DEF Fids
<1>3. Len(t_file) \in Nat /\ \A f \in Fids : t_file[f] \in FileRecord
  BY <1>2, FidsAre
<1>4. t_user_file \subseteq Relation
  <2>1. t_user_file_0 \subseteq [u_id : Users, f_id : 1..Len(t_file_0), f_dir : Seq(STRING), f_name : STRING, s_link : Links \cup {0}]
    BY FilesAssumption
  <2>2. 1..Len(t_file_0) \subseteq Nat
    BY <1>1, <1>3
  <2>. QED  BY <1>1, <2>1, <2>2 DEF Relation
<1>5. StateOK
  <2>1. "none" \in Kinds
    BY DEF Kinds
  <2>2. MaxFaults \in Nat
    BY TablesAssumption
  <2>. QED  BY <1>1, <1>2, <1>4, <2>1, <2>2 DEF StateOK
<1>6. \A f \in Fids : t_file[f].path # <<>> /\ t_file[f].there = TRUE
  BY <1>2
<1>7. \A f \in Fids : FileOK(f)
  <2>1. \A f \in 1..Len(t_file_0) : IF t_file_0[f].type = "file" THEN t_file_0[f].md5 = t_file_0[f].path[Len(t_file_0[f].path)] /\ t_file_0[f].md5 # "?"
                                  ELSE t_file_0[f].md5 = "?" /\ t_file_0[f].state = 1
    BY FilesAssumption
  <2>. QED  BY <1>1, <1>6, <2>1 DEF FileOK, IsFile, Name, Fids
<1>8. ASSUME NEW q \in t_user_file PROVE q.f_id \in Fids /\ RelationOK(q)
  <2>1. q.f_id \in Fids
    BY <1>1, TablesAssumption DEF Fids
  <2>2. t_file_0[q.f_id].type = "folder" => q.f_name = t_file_0[q.f_id].path[Len(t_file_0[q.f_id].path)]
    BY <1>1, FilesAssumption
  <2>. QED  BY <1>1, <2>1, <2>2 DEF RelationOK, IsFolder, Name
<1>9. KeysOK
  <2>1. \A q, r \in t_user_file : Is(q, r.u_id, r.f_id, r.f_dir) => q = r
    BY <1>1, FilesAssumption
  <2>. QED  BY <1>6, <1>8, <2>1 DEF KeysOK
<1>. QED  BY <1>1, <1>5, <1>6, <1>7, <1>8, <1>9 DEF BaseInv, TablesOK, ReplyOK

(* Rows refer to rows, the frames of a handler to what its request named:   *)
(* every handler of clogic.cpp leaves the tables such that the next one     *)
(* finds what it takes for granted.                                         *)
THEOREM BaseHolds == Spec => []BaseInv
<1>1. BaseInv /\ [Next]_vars => BaseInv'
  BY BaseStep, BaseStays
<1>2. Init => BaseInv
  BY BaseInit
<1>. QED  BY <1>1, <1>2, PTL DEF Spec

-----------------------------------------------------------------------------
(* What a step of a handler leaves to the other slots.                      *)
Acts(s) == Stays(s) /\ (run'[s] # Idle => Rq(s)' = Rq(s) /\ run'[s].alone = run[s].alone)

LEMMA MovedIs ==
  ASSUME NEW s \in Slots, NEW x, NEW under, MovesTo(s, x, under)
  PROVE  /\ run'[s] # Idle /\ Rq(s)' = Rq(s) /\ Top(s)' = x /\ Beneath(s)' = under /\ OnStack(s)' = {x} \cup under
         /\ run'[s].alone = run[s].alone /\ Acts(s)
BY DEF MovesTo, Acts, Rq, Top, Beneath, OnStack

LEMMA EndedIs ==
  ASSUME NEW s \in Slots, NEW kind, NEW fid, EndsWith(s, kind, fid)
  PROVE  run'[s] = Idle /\ Acts(s)
BY DEF EndsWith, Acts

LEMMA GoesIs ==
  ASSUME NEW s \in Slots, NEW x, Goes(s, x)
  PROVE  /\ run'[s] # Idle /\ Rq(s)' = Rq(s) /\ Top(s)' = x /\ Beneath(s)' = Beneath(s) /\ OnStack(s)' = {x} \cup Beneath(s)
         /\ run'[s].alone = run[s].alone /\ Acts(s) /\ reply' = reply
BY MovedIs DEF Goes

LEMMA CallsIs ==
  ASSUME NEW s \in Slots, NEW x, NEW y, Calls(s, x, y)
  PROVE  /\ run'[s] # Idle /\ Rq(s)' = Rq(s) /\ Top(s)' = x /\ Beneath(s)' = {y} \cup Beneath(s)
         /\ OnStack(s)' = {x, y} \cup Beneath(s) /\ run'[s].alone = run[s].alone /\ Acts(s) /\ reply' = reply
<1>1. /\ run'[s] # Idle /\ Rq(s)' = Rq(s) /\ Top(s)' = x /\ Beneath(s)' = {y} \cup Beneath(s)
      /\ OnStack(s)' = {x} \cup ({y} \cup Beneath(s)) /\ run'[s].alone = run[s].alone /\ Acts(s) /\ reply' = reply
  BY MovedIs DEF Calls
<1>. QED  BY <1>1

LEMMA ReturnsIs ==
  ASSUME NEW s \in Slots, Returns(s)
  PROVE  /\ Acts(s)
         /\ \/ run'[s] = Idle /\ Top(s).fn \in Entries /\ EndsWith(s, "dropped", 0)
            \/ /\ Top(s).fn \notin Entries /\ reply' = reply /\ run'[s] # Idle /\ Rq(s)' = Rq(s)
               /\ Top(s)' \in Beneath(s) /\ OnStack(s)' = Beneath(s) /\ Beneath(s)' \subseteq Beneath(s)
               /\ run'[s].alone = run[s].alone
<1>1. CASE Top(s).fn \in Entries /\ EndsWith(s, "dropped", 0)
  BY <1>1, EndedIs
<1>2. ASSUME reply' = reply, Top(s).fn \notin Entries, NEW f \in Beneath(s), NEW under \in SUBSET Beneath(s),
             MovesTo(s, f, under), {f} \cup under = Beneath(s)
      PROVE  /\ Acts(s) /\ run'[s] # Idle /\ Rq(s)' = Rq(s) /\ Top(s)' \in Beneath(s) /\ OnStack(s)' = Beneath(s)
             /\ Beneath(s)' \subseteq Beneath(s) /\ run'[s].alone = run[s].alone
  BY <1>2, MovedIs
<1>. QED  BY <1>1, <1>2 DEF Returns

LEMMA OtherIs ==
  ASSUME NEW s \in Slots, Stays(s), NEW t \in Slots, t # s
  PROVE  run'[t] = run[t] /\ Rq(t)' = Rq(t) /\ Top(t)' = Top(t) /\ Beneath(t)' = Beneath(t) /\ OnStack(t)' = OnStack(t)
BY DEF Stays, Rq, Top, Beneath, OnStack

LEMMA RestartedIs ==
  ASSUME Restart
  PROVE  \A t \in Slots : run'[t] = Idle
BY DEF Restart

(* A step of a handler in slot s: what all of them have in common.          *)
Falls(s) ==
  (\A t \in Slots : run'[t] = Idle) /\ ("crash" \in faults'.seen \/ (Selects(s) /\ Found(Rq(s)) = {}))
HandlerStep(s) ==
  /\ BaseInv' /\ run[s] # Idle /\ faults.seen \subseteq faults'.seen
  /\ Acts(s) \/ Falls(s)
  /\ shareFile(s) \/ (Top(s).fn # "shareFile" /\ \A q \in t_user_file' : q.s_link = 0 \/ q \in t_user_file)

LEMMA InsertedIs ==
  ASSUME NEW row, InsertRelation(row), faults \in [left : Nat, seen : SUBSET Sorts]
  PROVE  t_user_file' = t_user_file \cup {row} /\ faults.seen \subseteq faults'.seen
         /\ faults'.seen = faults.seen \cup (IF Listed(row.u_id, row.f_dir) THEN {} ELSE {"late"})
BY DEF InsertRelation, Disturb

LEMMA DeletesRows ==
  ASSUME NEW u, NEW fid, NEW dir, DeleteDone(u, fid, dir)
  PROVE  t_user_file' \subseteq t_user_file /\ t_user_file' = {q \in t_user_file : ~Is(q, u, fid, dir)}
BY DEF DeleteDone

LEMMA MakerStep ==
  ASSUME NEW s \in Slots, NEW step, NEW fid, MakerGoes(s, step, fid)
  PROVE  /\ Acts(s) /\ run'[s] # Idle /\ Rq(s)' = Rq(s) /\ Top(s)'.fn = Top(s).fn /\ Top(s)'.step = step /\ Top(s)'.fid = fid
         /\ Beneath(s)' = Beneath(s) /\ reply' = reply /\ OnStack(s)' = {Top(s)'} \cup Beneath(s)
BY GoesIs DEF MakerGoes

LEMMA HandlerIs ==
  ASSUME BaseInv, NEW s \in Slots, Handler(s)
  PROVE  HandlerStep(s)
<1>. DEFINE Same == UNCHANGED <<t_user_file, faults>>
            Does(fn) == run[s] # Idle /\ Top(s).fn = fn
<1>1. faults \in [left : Nat, seen : SUBSET Sorts]
  BY DEF BaseInv, StateOK
<1>2. Still => Same
  BY DEF Still
<1>3. \A fn, step : Doing(s, fn, step) => Does(fn)
  BY DEF Doing
<1>4. CASE deleteFile(s)
  <2>1. CASE deleteFile_next(s)
    BY <1>2, <1>3, <2>1, DeleteFileNext, CallsIs, ReturnsIs DEF HandlerStep
  <2>2. CASE deleteFile_reply(s)
    BY <1>2, <1>3, <2>2, DeleteFileReply, EndedIs DEF HandlerStep
  <2>. QED  BY <1>4, <2>1, <2>2 DEF deleteFile
<1>5. CASE deleteFileById(s)
  <2>1. CASE deleteFileById_delete(s)
    <3>1. DeleteDone(Rq(s).u, Top(s).fid, Rq(s).dir) /\ BaseInv' /\ UNCHANGED faults /\ Does("deleteFileById")
      BY <1>3, <2>1, ByIdDelete
    <3>2. Acts(s)
      BY <2>1, ByIdDelete, GoesIs
    <3>3. t_user_file' \subseteq t_user_file
      BY <3>1, DeletesRows
    <3>. QED  BY <3>1, <3>2, <3>3 DEF HandlerStep
  <2>2. CASE deleteFileById_count(s)
    BY <1>2, <1>3, <2>2, ByIdCount, GoesIs, ReturnsIs DEF HandlerStep
  <2>3. CASE deleteFileById_remove(s)
    BY <1>3, <2>3, ByIdRemove, ReturnsIs DEF HandlerStep
  <2>. QED  BY <1>5, <2>1, <2>2, <2>3 DEF deleteFileById
<1>6. CASE deleteFolderById(s)
  <2>1. CASE deleteFolderById_delete(s)
    <3>1. DeleteDone(Rq(s).u, Top(s).fid, Top(s).dir) /\ BaseInv' /\ UNCHANGED faults /\ Does("deleteFolderById")
      BY <1>3, <2>1, FolderDelete
    <3>2. Acts(s)
      BY <2>1, FolderDelete, GoesIs
    <3>3. t_user_file' \subseteq t_user_file
      BY <3>1, DeletesRows
    <3>. QED  BY <3>1, <3>2, <3>3 DEF HandlerStep
  <2>2. CASE deleteFolderById_select(s)
    BY <1>2, <1>3, <2>2, FolderSelect, GoesIs DEF HandlerStep
  <2>3. CASE deleteFolderById_file(s)
    <3>1. BaseInv' /\ Does("deleteFolderById") /\ faults.seen \subseteq faults'.seen
      BY <1>3, <2>3, FolderFile
    <3>2. Acts(s) /\ t_user_file' \subseteq t_user_file
      BY <2>3, FolderFile, GoesIs, DeletesRows
    <3>. QED  BY <3>1, <3>2 DEF HandlerStep
  <2>4. CASE deleteFolderById_folder(s)
    BY <1>2, <1>3, <2>4, FolderFolder, CallsIs DEF HandlerStep
  <2>5. CASE deleteFolderById_end(s)
    BY <1>2, <1>3, <2>5, FolderEnd, ReturnsIs DEF HandlerStep
  <2>. QED  BY <1>6, <2>1, <2>2, <2>3, <2>4, <2>5 DEF deleteFolderById
<1>7. CASE shareFile(s)
  <2>1. CASE shareFile_pick(s)
    BY <1>2, <1>3, <1>7, <2>1, SharePick, GoesIs DEF HandlerStep
  <2>2. CASE shareFile_update(s)
    BY <1>3, <1>7, <2>2, ShareUpdate, GoesIs DEF HandlerStep
  <2>3. CASE shareFile_reply(s)
    BY <1>2, <1>3, <1>7, <2>3, ShareReply, EndedIs DEF HandlerStep
  <2>. QED  BY <1>7, <2>1, <2>2, <2>3 DEF shareFile
<1>8. ASSUME NEW fn \in Copiers, NEW folderDest \in BOOLEAN, Doing(s, fn, "next"), CopyRow(s, folderDest) \/ CopyRefused(s)
      PROVE  HandlerStep(s)
  <2>1. Does(fn) /\ fn # "shareFile"
    BY <1>3, <1>8 DEF Copiers
  <2>2. CASE CopyRow(s, folderDest)
    <3>1. BaseInv' /\ \E r \in Top(s).rest, row \in Relation, x, y \in FrameRecord :
            InsertRelation(row) /\ row.s_link = 0 /\ Copied(s, fn, r, x, y)
      BY <1>8, <2>2, CopyIs
    <3>2. PICK r \in Top(s).rest, row \in Relation, x \in FrameRecord, y \in FrameRecord :
            InsertRelation(row) /\ row.s_link = 0 /\ Copied(s, fn, r, x, y)
      BY <3>1
    <3>3. Acts(s)
      BY <3>2, GoesIs, CallsIs DEF Copied
    <3>4. t_user_file' = t_user_file \cup {row} /\ faults.seen \subseteq faults'.seen
      BY <1>1, <3>2, InsertedIs
    <3>. QED  BY <2>1, <3>1, <3>2, <3>3, <3>4 DEF HandlerStep
  <2>3. CASE CopyRefused(s)
    BY <1>8, <2>1, <2>3, CopyRefusedIs, ReturnsIs DEF HandlerStep
  <2>. QED  BY <1>8, <2>2, <2>3
<1>9. CASE getShareByLink(s)
  <2>1. CASE getShareByLink_select(s)
    BY <1>2, <1>3, <2>1, LinkSelect, GoesIs, EndedIs DEF HandlerStep
  <2>2. CASE getShareByLink_next(s)
    BY <1>8, <2>2 DEF getShareByLink_next, Copiers
  <2>3. CASE getShareByLink_reply(s)
    BY <1>2, <1>3, <2>3, LinkReply, EndedIs DEF HandlerStep
  <2>. QED  BY <1>9, <2>1, <2>2, <2>3 DEF getShareByLink
<1>10. CASE addFolderByShareDir(s)
  <2>1. CASE addFolderByShareDir_select(s)
    BY <1>2, <1>3, <2>1, ContentsSelect, GoesIs DEF HandlerStep
  <2>2. CASE addFolderByShareDir_next(s)
    BY <1>8, <2>2 DEF addFolderByShareDir_next, Copiers
  <2>3. CASE addFolderByShareDir_end(s)
    BY <1>2, <1>3, <2>3, ContentsEnd, ReturnsIs DEF HandlerStep
  <2>. QED  BY <1>10, <2>1, <2>2, <2>3 DEF addFolderByShareDir
<1>11. ASSUME NEW step, Related(s, step)
       PROVE  /\ Acts(s) /\ faults.seen \subseteq faults'.seen
              /\ \A q \in t_user_file' : q.s_link = 0 \/ q \in t_user_file
  <2>1. CASE \E row \in Relation : InsertRelation(row) /\ row.s_link = 0 /\ MakerGoes(s, step, Top(s).fid)
    <3>1. PICK row \in Relation : InsertRelation(row) /\ row.s_link = 0 /\ MakerGoes(s, step, Top(s).fid)
      BY <2>1
    <3>2. t_user_file' = t_user_file \cup {row} /\ faults.seen \subseteq faults'.seen
      BY <1>1, <3>1, InsertedIs
    <3>. QED  BY <3>1, <3>2, MakerStep
  <2>2. CASE t_user_file' = t_user_file /\ Returns(s) /\ faults'.seen = faults.seen \cup {"refused"}
    BY <2>2, ReturnsIs
  <2>. QED  BY <1>11, <2>1, <2>2 DEF Related
<1>12. CASE addFolder(s)
  <2>1. CASE addFolder_insertFile(s)
    BY <1>3, <2>1, AddFolderInsert, MakerStep DEF HandlerStep
  <2>2. CASE addFolder_selectId(s)
    BY <1>3, <2>2, AddFolderSelect, MakerStep, RestartedIs DEF HandlerStep, Falls, Selects, Doing
  <2>3. CASE addFolder_insertRel(s)
    BY <1>3, <1>11, <2>3, AddFolderRelate DEF HandlerStep
  <2>4. CASE addFolder_mkdir(s)
    BY <1>3, <2>4, AddFolderMkdir, EndedIs, ReturnsIs DEF HandlerStep
  <2>. QED  BY <1>12, <2>1, <2>2, <2>3, <2>4 DEF addFolder
<1>13. CASE uploadFile(s)
  <2>1. CASE uploadFile_quick(s)
    BY <1>2, <1>3, <2>1, UploadQuick, MakerStep DEF HandlerStep
  <2>2. CASE uploadFile_quickInsert(s)
    BY <1>3, <1>11, <2>2, UploadRelate DEF HandlerStep, uploadFile_quickInsert
  <2>3. CASE uploadFile_open(s)
    BY <1>3, <2>3, UploadOpen, MakerStep, ReturnsIs DEF HandlerStep
  <2>4. CASE uploadFile_insertFile(s)
    BY <1>3, <2>4, UploadInsert, MakerStep DEF HandlerStep
  <2>5. CASE uploadFile_selectId(s)
    BY <1>2, <1>3, <2>5, UploadSelect, MakerStep, RestartedIs DEF HandlerStep, Falls, Selects, Doing
  <2>6. CASE uploadFile_insertRel(s)
    BY <1>3, <1>11, <2>6, UploadRelate DEF HandlerStep, uploadFile_insertRel
  <2>7. CASE uploadFile_reply(s)
    BY <1>2, <1>3, <2>7, UploadReply, EndedIs DEF HandlerStep
  <2>. QED  BY <1>13, <2>1, <2>2, <2>3, <2>4, <2>5, <2>6, <2>7 DEF uploadFile
<1>. QED  BY <1>4, <1>5, <1>6, <1>7, <1>9, <1>10, <1>12, <1>13 DEF Handler

-----------------------------------------------------------------------------
(* LinkIsOneShare.                                                          *)
LEMMA SharingIs ==
  ASSUME BaseInv, NEW s \in Slots, run[s] # Idle
  PROVE  /\ Sharing(s) <=> Top(s).fn = "shareFile"
         /\ Sharing(s) /\ Top(s).step = "next" => Top(s).link \in Links /\ Top(s).link # 0
         /\ Sharing(s) => Top(s).fn \in Entries
<1>1. FrameOK(Rq(s), Top(s)) /\ Top(s).fn \in RowFns \cup IdFns
  BY Running, FrameIs
<1>2. Sharing(s) <=> Top(s).fn = "shareFile"
  BY <1>1 DEF FrameOK, DeleteFileOK, ByIdOK, FolderOK, ShareFileOK, CopierOK, AddFolderOK, UploadFileOK, Sharing, RowFns, IdFns, Copiers
<1>3. Sharing(s) /\ Top(s).step = "next" => Top(s).link \in Links
  BY <1>1, <1>2 DEF FrameOK, ShareFileOK
<1>. QED  BY <1>2, <1>3, ShareAssumption DEF Entries

(* No share is made in this step: s does something else, or it ends.        *)
LEMMA ShareCalm ==
  ASSUME BaseInv, ShareInv, NEW s \in Slots, run[s] # Idle, Acts(s), ~Sharing(s) \/ run'[s] = Idle,
         \A q \in t_user_file' : q.s_link = 0 \/ q \in t_user_file, faults.seen \subseteq faults'.seen
  PROVE  ShareInv'
<1>. SUFFICES ASSUME ~Seen({"twoShares"})'
              PROVE  /\ LinkIsOneShare'
                     /\ \A t, v \in Slots : Sharing(t)' /\ Sharing(v)' => t = v
                     /\ \A t \in Slots : Sharing(t)' /\ Top(t)'.step = "next" =>
                          \A q \in t_user_file' : q.s_link = Top(t)'.link => q.u_id = Rq(t)'.u /\ q.f_dir = Rq(t)'.dir
  BY DEF ShareInv
<1>1. ~Seen({"twoShares"})
  BY DEF Seen
<1>2. \A t \in Slots : Sharing(t)' => t # s /\ Sharing(t) /\ Rq(t)' = Rq(t) /\ Top(t)' = Top(t) /\ run[t] # Idle
  <2>1. ~Sharing(s)'
    BY DEF Acts, Sharing
  <2>2. \A t \in Slots : t # s => run'[t] = run[t] /\ Rq(t)' = Rq(t) /\ Top(t)' = Top(t)
    BY OtherIs DEF Acts
  <2>. QED  BY <2>1, <2>2 DEF Sharing
<1>3. LinkIsOneShare'
  BY <1>1 DEF ShareInv, LinkIsOneShare
<1>4. ASSUME NEW t \in Slots, Sharing(t)', Top(t)'.step = "next", NEW q \in t_user_file', q.s_link = Top(t)'.link
      PROVE  q.u_id = Rq(t)'.u /\ q.f_dir = Rq(t)'.dir
  <2>1. Sharing(t) /\ Rq(t)' = Rq(t) /\ Top(t)' = Top(t) /\ run[t] # Idle
    BY <1>2, <1>4
  <2>2. Top(t).link # 0
    BY <1>4, <2>1, SharingIs
  <2>3. q \in t_user_file
    BY <1>4, <2>1, <2>2
  <2>. QED  BY <1>1, <1>4, <2>1, <2>3 DEF ShareInv
<1>. QED  BY <1>1, <1>2, <1>3, <1>4 DEF ShareInv

LEMMA ShareStill ==
  ASSUME ShareInv, \A t \in Slots : Sharing(t)' => Sharing(t) /\ Rq(t)' = Rq(t) /\ Top(t)' = Top(t),
         t_user_file' = t_user_file, faults.seen \subseteq faults'.seen
  PROVE  ShareInv'
<1>1. Seen({"twoShares"}) => Seen({"twoShares"})'
  BY DEF Seen
<1>. QED  BY <1>1 DEF ShareInv, LinkIsOneShare

LEMMA ShareKeepsPick ==
  ASSUME SchemaKeys, BaseInv, ShareInv, NEW s \in Slots, shareFile_pick(s)
  PROVE  ShareInv'
<1>1. Still /\ run[s] # Idle /\ Top(s).fn = "shareFile" /\ Top(s).step = "pick"
  BY SharePick DEF Doing
<1>2. PICK x \in FrameRecord : Goes(s, x) /\ (x.step = "pick" \/ (x.step = "next" /\ x.link \in Links /\ ~LinkTaken(x.link)))
  BY SharePick
<1>3. t_user_file' = t_user_file /\ faults' = faults /\ Rq(s)' = Rq(s) /\ Top(s)' = x /\ Acts(s)
  BY <1>1, <1>2, GoesIs DEF Still
<1>4. \A t \in Slots : t # s => Rq(t)' = Rq(t) /\ Top(t)' = Top(t) /\ (Sharing(t)' => Sharing(t))
  BY <1>3, OtherIs DEF Acts, Sharing
<1>5. Sharing(s)
  BY <1>1, SharingIs
<1>6. x.step = "next" => \A q \in t_user_file : q.s_link # x.link
  <2>1. user_file_info = t_user_file
    BY BaseIs DEF user_file_info, DbOK, TablesOK, KeysOK
  <2>2. "pick" # "next"
    OBVIOUS
  <2>. QED  BY <1>2, <2>1, <2>2 DEF LinkTaken
<1>7. Seen({"twoShares"})' <=> Seen({"twoShares"})
  BY <1>3 DEF Seen
<1>8. LinkIsOneShare' <=> LinkIsOneShare
  BY <1>3, <1>7 DEF LinkIsOneShare
<1>9. ASSUME ~Seen({"twoShares"}), NEW t \in Slots, Sharing(t)', Top(t)'.step = "next", NEW q \in t_user_file', q.s_link = Top(t)'.link
      PROVE  q.u_id = Rq(t)'.u /\ q.f_dir = Rq(t)'.dir
  <2>1. t # s
    BY <1>3, <1>6, <1>9
  <2>. QED  BY <1>3, <1>4, <1>9, <2>1 DEF ShareInv
<1>. QED  BY <1>4, <1>5, <1>7, <1>8, <1>9 DEF ShareInv

LEMMA ShareKeepsUpdate ==
  ASSUME BaseInv, ShareInv, NEW s \in Slots, shareFile_update(s)
  PROVE  ShareInv'
<1>. PICK o, k : o = Rq(s) /\ k = Top(s).link
  OBVIOUS
<1>1. faults' = faults /\ run[s] # Idle /\ Top(s).fn = "shareFile" /\ Top(s).step = "next"
  BY ShareUpdate DEF Doing
<1>2. PICK x \in FrameRecord : Goes(s, x) /\ x.step = "next" /\ x.link = k
  BY ShareUpdate
<1>3. Rq(s)' = o /\ Top(s)' = x /\ Acts(s)
  BY <1>2, GoesIs
<1>4. PICK fid : t_user_file' = {Numbered(q, o.u, fid, o.dir, k) : q \in t_user_file} /\ k \in Links
  BY ShareUpdate DEF Renumber
<1>5. \A p \in t_user_file' : \E q \in t_user_file :
        p.u_id = q.u_id /\ p.f_dir = q.f_dir /\ p.s_link = IF Is(q, o.u, fid, o.dir) THEN k ELSE q.s_link
  BY <1>4, BaseIs, NumberedIs DEF DbOK
<1>6. Sharing(s)
  BY <1>1, SharingIs
<1>. SUFFICES ASSUME ~Seen({"twoShares"})
              PROVE  /\ LinkIsOneShare'
                     /\ \A t, v \in Slots : Sharing(t)' /\ Sharing(v)' => t = v
                     /\ \A t \in Slots : Sharing(t)' /\ Top(t)'.step = "next" =>
                          \A q \in t_user_file' : q.s_link = Top(t)'.link => q.u_id = Rq(t)'.u /\ q.f_dir = Rq(t)'.dir
  BY <1>1 DEF ShareInv, Seen
<1>7. \A q \in t_user_file : q.s_link = k => q.u_id = o.u /\ q.f_dir = o.dir
  BY <1>1, <1>6 DEF ShareInv
<1>8. \A p \in t_user_file' : p.s_link = k => p.u_id = o.u /\ p.f_dir = o.dir
  BY <1>5, <1>7 DEF Is
<1>9. LinkIsOneShare'
  <2>. SUFFICES ASSUME NEW p \in t_user_file', NEW r \in t_user_file', p.s_link = r.s_link, p.s_link # 0
                PROVE  p.u_id = r.u_id /\ p.f_dir = r.f_dir
    BY DEF LinkIsOneShare
  <2>1. CASE p.s_link = k
    BY <1>8, <2>1
  <2>2. CASE p.s_link # k
    BY <1>5, <2>2 DEF ShareInv, LinkIsOneShare
  <2>. QED  BY <2>1, <2>2
<1>10. \A t \in Slots : Sharing(t)' => t = s
  BY <1>3, <1>6, OtherIs DEF Acts, Sharing, ShareInv
<1>. QED  BY <1>2, <1>3, <1>8, <1>9, <1>10

LEMMA ShareKeepsSend ==
  ASSUME BaseInv, ShareInv, NEW r \in Requests, Send(r)
  PROVE  ShareInv'
<1>1. t_user_file' = t_user_file
      /\ faults'.seen = faults.seen \cup (IF r.fn = "shareFile" /\ \E s \in Slots : Sharing(s) THEN {"twoShares"} ELSE {})
  BY SendIs
<1>2. PICK s \in Slots, x \in FrameRecord : Starts(r, s, x) /\ Begins(r, x)
  BY SendIs
<1>3. Rq(s)' = r /\ Top(s)' = x /\ run[s] = Idle
  BY <1>2 DEF Starts
<1>4. ASSUME NEW t \in Slots, t # s PROVE Rq(t)' = Rq(t) /\ (run[t] # Idle => Top(t)' = Top(t)) /\ (Sharing(t)' <=> Sharing(t))
  <2>1. /\ run'[t] # Idle <=> run[t] # Idle
        /\ run[t] # Idle => run'[t].stack = run[t].stack /\ run'[t].r = run[t].r
    BY <1>2, <1>4 DEF Starts
  <2>2. run[t] = Idle => run'[t] = run[t]
    BY <2>1
  <2>. QED  BY <2>1, <2>2 DEF Rq, Top, Sharing
<1>5. CASE r.fn = "shareFile" /\ \E t \in Slots : Sharing(t)
  <2>1. Seen({"twoShares"})'
    BY <1>1, <1>5 DEF Seen
  <2>. QED  BY <2>1 DEF ShareInv
<1>6. CASE r.fn # "shareFile"
  <2>1. ~Sharing(s)'
    BY <1>3, <1>6 DEF Sharing
  <2>2. \A t \in Slots : Sharing(t)' => Sharing(t) /\ Rq(t)' = Rq(t) /\ Top(t)' = Top(t)
    BY <1>4, <2>1 DEF Sharing
  <2>. QED  BY <1>1, <2>2, ShareStill
<1>7. CASE r.fn = "shareFile" /\ ~ \E t \in Slots : Sharing(t)
  <2>1. \A t \in Slots : Sharing(t)' => t = s
    BY <1>4, <1>7
  <2>2. Top(s)'.step # "next"
    BY <1>2, <1>3, <1>7 DEF Begins
  <2>4. Seen({"twoShares"})' <=> Seen({"twoShares"})
    BY <1>1, <1>7 DEF Seen
  <2>3. LinkIsOneShare' <=> LinkIsOneShare
    BY <1>1, <2>4 DEF LinkIsOneShare
  <2>. QED  BY <2>1, <2>2, <2>3, <2>4 DEF ShareInv
<1>. QED  BY <1>5, <1>6, <1>7

LEMMA ShareStep ==
  ASSUME SchemaKeys, BaseInv, ShareInv, [Next]_vars
  PROVE  ShareInv'
<1>1. ASSUME NEW s \in Slots, Handler(s) PROVE ShareInv'
  <2>1. HandlerStep(s)
    BY <1>1, HandlerIs
  <2>2. CASE \A t \in Slots : run'[t] = Idle
    <3>1. CASE ~shareFile(s)
      <4>1. \A q \in t_user_file' : q.s_link = 0 \/ q \in t_user_file
        BY <2>1, <3>1 DEF HandlerStep
      <4>2. faults.seen \subseteq faults'.seen
        BY <2>1 DEF HandlerStep
      <4>. QED  BY <2>2, <4>1, <4>2 DEF ShareInv, Sharing, Seen, LinkIsOneShare
    <3>2. CASE shareFile(s)
      BY <3>2, ShareKeepsPick, ShareKeepsUpdate, <2>2, ShareReply, ShareStill, SameFaults DEF shareFile, Sharing, Still
    <3>. QED  BY <3>1, <3>2
  <2>3. CASE Acts(s) /\ ~shareFile(s)
    <3>1. ~Sharing(s)
      BY <2>1, <2>3, SharingIs DEF HandlerStep
    <3>. QED  BY <2>1, <2>3, <3>1, ShareCalm DEF HandlerStep
  <2>4. CASE shareFile_pick(s)
    BY <2>4, ShareKeepsPick
  <2>5. CASE shareFile_update(s)
    BY <2>5, ShareKeepsUpdate
  <2>6. CASE shareFile_reply(s)
    <3>1. Still /\ run'[s] = Idle /\ Acts(s) /\ run[s] # Idle
      BY <2>6, ShareReply, EndedIs DEF Doing
    <3>. QED  BY <3>1, ShareCalm DEF Still
  <2>. QED  BY <2>1, <2>2, <2>3, <2>4, <2>5, <2>6 DEF HandlerStep, Falls, shareFile
<1>2. ASSUME NEW s \in Slots, CallFails(s) PROVE ShareInv'
  <2>1. t_user_file' = t_user_file /\ run[s] # Idle /\ Returns(s) /\ faults.seen \subseteq faults'.seen
    BY <1>2, CallFailsIs
  <2>2. Acts(s) /\ (run'[s] = Idle \/ Top(s).fn \notin Entries)
    BY <2>1, ReturnsIs
  <2>3. ~Sharing(s) \/ run'[s] = Idle
    BY <2>1, <2>2, SharingIs
  <2>. QED  BY <2>1, <2>2, <2>3, ShareCalm
<1>3. ASSUME NEW r \in Requests, Send(r) PROVE ShareInv'
  BY <1>3, ShareKeepsSend
<1>4. ASSUME NEW r \in Requests, fileContentRq_update(r) PROVE ShareInv'
  <2>1. t_user_file' = t_user_file /\ run' = run /\ faults' = faults
    BY <1>4, LastBlockIs DEF LastBlock
  <2>. QED  BY <2>1, ShareStill DEF Sharing, Rq, Top
<1>5. CASE crash
  <2>1. t_user_file' = t_user_file /\ faults.seen \subseteq faults'.seen /\ \A t \in Slots : run'[t] = Idle
    BY <1>5, CrashIs, RestartedIs
  <2>. QED  BY <2>1, ShareStill DEF Sharing
<1>6. CASE UNCHANGED vars
  <2>1. t_user_file' = t_user_file /\ run' = run /\ faults' = faults
    BY <1>6 DEF vars, db
  <2>. QED  BY <2>1, ShareStill DEF Sharing, Rq, Top
<1>. QED  BY <1>1, <1>2, <1>3, <1>4, <1>5, <1>6 DEF Next

LEMMA ShareInit ==
  ASSUME Init
  PROVE  ShareInv
<1>1. t_user_file = t_user_file_0 /\ run = [s \in Slots |-> Idle]
  BY DEF Init
<1>2. LinkIsOneShare
  BY <1>1, FilesAssumption DEF LinkIsOneShare
<1>. QED  BY <1>1, <1>2 DEF ShareInv, Sharing

(* A number that was given to users opens files of one directory of one     *)
(* user: shareFile takes a number only when no row has it, and while it     *)
(* writes the number into its rows nobody else writes numbers.              *)
THEOREM LinkIsOneShareHolds == SchemaKeys => (Spec => []LinkIsOneShare)
<1>. SUFFICES ASSUME SchemaKeys PROVE Spec => []LinkIsOneShare
  OBVIOUS
<1>1. Init => BaseInv /\ ShareInv
  BY BaseInit, ShareInit
<1>2. BaseInv /\ ShareInv /\ [Next]_vars => (BaseInv /\ ShareInv)'
  BY BaseStep, BaseStays, ShareStep
<1>3. BaseInv /\ ShareInv => LinkIsOneShare
  BY DEF ShareInv, LinkIsOneShare
<1>. QED  BY <1>1, <1>2, <1>3, PTL DEF Spec

-----------------------------------------------------------------------------
(* What a step of a handler does to the tables.                             *)
TablesStep(s) ==
  \/ UNCHANGED <<t_file, t_user_file>>
  \/ /\ t_file' = t_file
     /\ \E row \in Relation : InsertRelation(row) /\ row.u_id = Rq(s).u
  \/ \E fid \in Fids, dir \in Seq(STRING) : Rq(s).fn = "deleteFile" /\ DeleteDone(Rq(s).u, fid, dir)
  \/ Rq(s).fn \in Makers /\ Alloc(NewFile(Rq(s))) /\ t_user_file' = t_user_file
  \/ t_file' = t_file /\ \E fid \in Fids, link \in Links : Renumber(Rq(s).u, fid, Rq(s).dir, link)

LEMMA DeleterIs ==
  ASSUME BaseInv, NEW s \in Slots, run[s] # Idle, Top(s).fn \in {"deleteFile", "deleteFileById", "deleteFolderById"}
  PROVE  /\ Rq(s).fn = "deleteFile" /\ Rq(s) \in Requests /\ Rq(s).dir \in Seq(STRING)
         /\ Top(s).fn = "deleteFileById" => ByIdOK(Rq(s), Top(s))
         /\ Top(s).fn = "deleteFolderById" => FolderOK(Rq(s), Top(s)) /\ Top(s).dir \in Seq(STRING)
<1>1. FrameOK(Rq(s), Top(s)) /\ Rq(s) \in Requests /\ Top(s) \in FrameRecord
  BY Running
<1>. QED  BY <1>1, RequestIs, FrameIs DEF FrameOK, DeleteFileOK, ByIdOK, FolderOK

LEMMA HandlerTables ==
  ASSUME BaseInv, NEW s \in Slots, Handler(s)
  PROVE  TablesStep(s) /\ (disk \subseteq disk' \/ deleteFileById_remove(s))
<1>1. Still => TablesStep(s) /\ disk \subseteq disk'
  BY DEF Still, TablesStep
<1>2. CASE deleteFile(s)
  BY <1>1, <1>2, DeleteFileNext, DeleteFileReply DEF deleteFile
<1>3. CASE deleteFileById(s)
  <2>1. CASE deleteFileById_delete(s)
    <3>1. disk' = disk /\ DeleteDone(Rq(s).u, Top(s).fid, Rq(s).dir) /\ run[s] # Idle /\ Top(s).fn = "deleteFileById"
      BY <2>1, ByIdDelete DEF Doing
    <3>2. Top(s).fid \in Fids /\ Rq(s).fn = "deleteFile" /\ Rq(s).dir \in Seq(STRING)
      BY <3>1, DeleterIs DEF ByIdOK
    <3>. QED  BY <3>1, <3>2 DEF TablesStep
  <2>2. CASE deleteFileById_count(s)
    BY <1>1, <2>2, ByIdCount
  <2>3. CASE deleteFileById_remove(s)
    BY <2>3, ByIdRemove DEF TablesStep
  <2>. QED  BY <1>3, <2>1, <2>2, <2>3 DEF deleteFileById
<1>4. CASE deleteFolderById(s)
  <2>1. CASE deleteFolderById_delete(s)
    <3>1. disk' = disk /\ DeleteDone(Rq(s).u, Top(s).fid, Top(s).dir) /\ run[s] # Idle /\ Top(s).fn = "deleteFolderById" /\ Top(s).fid \in Fids
      BY <2>1, FolderDelete DEF Doing
    <3>2. Rq(s).fn = "deleteFile" /\ Top(s).dir \in Seq(STRING)
      BY <3>1, DeleterIs
    <3>. QED  BY <3>1, <3>2 DEF TablesStep
  <2>2. CASE deleteFolderById_select(s)
    BY <1>1, <2>2, FolderSelect
  <2>3. CASE deleteFolderById_file(s)
    <3>1. disk' = disk /\ run[s] # Idle /\ Top(s).fn = "deleteFolderById"
      BY <2>3, FolderFile DEF Doing
    <3>2. PICK r \in Top(s).rest : r.f_id \in Fids /\ r.f_dir = Top(s).dest /\ DeleteDone(Rq(s).u, r.f_id, Top(s).dest)
      BY <2>3, FolderFile
    <3>3. Rq(s).fn = "deleteFile" /\ r \in Relation
      BY <3>1, <3>2, DeleterIs DEF FolderOK, RowsOK
    <3>4. Top(s).dest \in Seq(STRING)
      BY <3>2, <3>3 DEF Relation
    <3>. QED  BY <3>1, <3>2, <3>3, <3>4 DEF TablesStep
  <2>4. CASE deleteFolderById_folder(s) \/ deleteFolderById_end(s)
    BY <1>1, <2>4, FolderFolder, FolderEnd
  <2>. QED  BY <1>4, <2>1, <2>2, <2>3, <2>4 DEF deleteFolderById
<1>5. CASE shareFile(s)
  BY <1>1, <1>5, SharePick, ShareUpdate, ShareReply DEF shareFile, TablesStep
<1>6. ASSUME NEW fn \in Copiers, NEW folderDest \in BOOLEAN, Doing(s, fn, "next"), CopyRow(s, folderDest) \/ CopyRefused(s)
      PROVE  TablesStep(s) /\ disk \subseteq disk'
  <2>1. CASE CopyRow(s, folderDest)
    BY <1>6, <2>1, CopyIs DEF TablesStep
  <2>2. CASE CopyRefused(s)
    BY <1>6, <2>2, CopyRefusedIs DEF TablesStep
  <2>. QED  BY <1>6, <2>1, <2>2
<1>7. CASE getShareByLink(s)
  BY <1>1, <1>6, <1>7, LinkSelect, LinkReply DEF getShareByLink, getShareByLink_next, Copiers
<1>8. CASE addFolderByShareDir(s)
  BY <1>1, <1>6, <1>8, ContentsSelect, ContentsEnd DEF addFolderByShareDir, addFolderByShareDir_next, Copiers
<1>9. \A step : Related(s, step) /\ t_file' = t_file => TablesStep(s)
  BY DEF Related, TablesStep
<1>10. ASSUME NEW fn \in Makers, NEW step, Doing(s, fn, step) PROVE Rq(s).fn \in Makers
  BY <1>10, MakerIs DEF Doing
<1>11. CASE addFolder(s)
  <2>1. CASE addFolder_insertFile(s)
    BY <1>10, <2>1, AddFolderInsert DEF TablesStep, Makers
  <2>2. CASE addFolder_insertRel(s)
    BY <1>9, <2>2, AddFolderRelate
  <2>3. CASE addFolder_selectId(s) \/ addFolder_mkdir(s)
    BY <2>3, AddFolderSelect, AddFolderMkdir DEF TablesStep
  <2>. QED  BY <1>11, <2>1, <2>2, <2>3 DEF addFolder
<1>12. CASE uploadFile(s)
  <2>1. CASE uploadFile_quickInsert(s)
    BY <1>9, <2>1, UploadRelate DEF uploadFile_quickInsert
  <2>2. CASE uploadFile_insertRel(s)
    BY <1>9, <2>2, UploadRelate DEF uploadFile_insertRel
  <2>3. CASE uploadFile_insertFile(s)
    BY <1>10, <2>3, UploadInsert DEF TablesStep, Makers
  <2>4. CASE uploadFile_open(s)
    BY <2>4, UploadOpen DEF TablesStep
  <2>5. CASE uploadFile_quick(s) \/ uploadFile_selectId(s) \/ uploadFile_reply(s)
    BY <1>1, <2>5, UploadQuick, UploadSelect, UploadReply
  <2>. QED  BY <1>12, <2>1, <2>2, <2>3, <2>4, <2>5 DEF uploadFile
<1>. QED  BY <1>2, <1>3, <1>4, <1>5, <1>7, <1>8, <1>11, <1>12 DEF Handler

(* No handler's step makes a file complete: that is for the last block.     *)
LEMMA NoArrival ==
  ASSUME BaseInv, NEW s \in Slots, run[s] # Idle, TablesStep(s)
  PROVE  Grows /\ \A f \in Fids' : Arrived(f)' => f \in Fids /\ Arrived(f)
<1>1. t_file \in Seq(FileRecord) /\ Rq(s) \in Requests
  BY BaseIs, Running DEF DbOK
<1>2. CASE t_file' = t_file
  <2>1. Grows /\ Fids' = Fids
    BY <1>1, <1>2, SameGrows
  <2>. QED  BY <1>2, <2>1 DEF Arrived, IsFile, Marked
<1>3. ASSUME NEW fid, NEW dir, DeleteDone(Rq(s).u, fid, dir)
      PROVE  Grows /\ \A f \in Fids' : Arrived(f)' => f \in Fids /\ Arrived(f)
  BY <1>3 DEF DeleteDone, Grows, Kept, Arrived, IsFile, Marked
<1>4. CASE Rq(s).fn \in Makers /\ Alloc(NewFile(Rq(s)))
  <2>. PICK row : row = NewFile(Rq(s))
    OBVIOUS
  <2>1. row \in FileRecord /\ row.type = (IF Rq(s).fn = "uploadFile" THEN "file" ELSE "folder")
        /\ row.state = (IF Rq(s).fn = "uploadFile" THEN 0 ELSE 1)
    BY <1>1, <1>4, NewFileIs
  <2>2. Alloc(row)
    BY <1>4
  <2>3. Grows
    BY <1>1, <2>1, <2>2, AllocIs
  <2>4. PICK n \in Nat : n \notin Fids /\ Fids' = Fids \cup {n} /\ t_file'[n] = row /\ \A f \in Fids : t_file'[f] = t_file[f]
    BY <1>1, <2>1, <2>2, AllocIs
  <2>5. ~Arrived(n)'
    BY <2>1, <2>4 DEF Arrived, IsFile, Marked
  <2>. QED  BY <2>3, <2>4, <2>5 DEF Arrived, IsFile, Marked
<1>. QED  BY <1>2, <1>3, <1>4 DEF TablesStep

-----------------------------------------------------------------------------
(* Bytes.  What a deletion is about to remove, and the steps at which an    *)
(* upload has its path open.                                                *)
Removing(t, k) == run[t] # Idle /\ Top(t).fn = "deleteFileById" /\ Top(t).fid = k
AnyOpen == OpenedSteps \cup {"open"}
Vacant(p) == \A f \in Fids : t_file[f].path = p => ~Arrived(f)

LEMMA RemovingIs ==
  ASSUME BaseInv, NEW t \in Slots, NEW k, Removing(t, k)
  PROVE  /\ k \in Fids /\ IsFile(k) /\ Marked(k) /\ Top(t).fn \notin Entries
         /\ Top(t).step = "remove" => ~t_file[k].there
<1>1. run[t] # Idle /\ Top(t).fn = "deleteFileById" /\ Top(t).fid = k
  BY DEF Removing
<1>. QED  BY <1>1, DeleterIs DEF ByIdOK, Entries

LEMMA WriterIs ==
  ASSUME BaseInv, NEW r \in Requests, NEW steps, Writes(r, steps)
  PROVE  r.fn = "uploadFile"
<1>1. CASE reply[r].kind = "uploading"
  BY <1>1 DEF BaseInv, ReplyOK
<1>2. CASE \E s \in Slots : run[s] # Idle /\ Rq(s) = r /\ Top(s).fn = "uploadFile"
  BY <1>2, UploadStart
<1>. QED  BY <1>1, <1>2 DEF Writes

(* What keeps the bytes: no file becomes complete, no path is newly opened  *)
(* or on the way to be removed but where that is safe.                      *)
LEMMA BytesCalm ==
  ASSUME BaseInv, CompleteInv, BytesInv, Grows, faults.seen \subseteq faults'.seen,
         \A f \in Fids' : Arrived(f)' => f \in Fids /\ Arrived(f),
         \A t \in Slots : \A k : Removing(t, k)' => Removing(t, k) \/ (k \in Fids' /\ Arrived(k)'),
         \A r \in Requests : Writes(r, AnyOpen)' => Writes(r, AnyOpen) \/ Vacant(PathOf(r)),
         \A r \in Requests : Writes(r, OpenedSteps)' =>
            \/ Writes(r, OpenedSteps) \/ Seen({"reopened"})'
            \/ PathOf(r) \in disk' /\ \A t \in Slots : \A k : Removing(t, k) => t_file[k].path # PathOf(r),
         \A p \in disk \ disk' : \E t \in Slots : \E k : Removing(t, k) /\ t_file[k].path = p /\ ~t_file[k].there
  PROVE  CompleteInv' /\ BytesInv'
<1>1. \A f \in Fids' : Arrived(f)' => f \in Fids /\ Arrived(f) /\ t_file'[f].path = t_file[f].path /\ t_file'[f].there
  BY DEF Grows, Kept, Arrived
<1>2. CompleteInv'
  <2>1. \A f, g \in Fids' : Arrived(f)' /\ Arrived(g)' /\ t_file'[f].path = t_file'[g].path => f = g
    BY <1>1 DEF CompleteInv
  <2>2. ASSUME NEW r \in Requests, Writes(r, AnyOpen)', NEW f \in Fids', t_file'[f].path = PathOf(r) PROVE ~Arrived(f)'
    BY <1>1, <2>2 DEF CompleteInv, Vacant, AnyOpen
  <2>. QED  BY <2>1, <2>2 DEF CompleteInv, AnyOpen
<1>3. SUFFICES ASSUME ~Seen({"reopened"})' PROVE BytesInv'
  BY <1>2 DEF BytesInv
<1>4. ~Seen({"reopened"})
  BY <1>3 DEF Seen
<1>5. \A r \in Requests : Writes(r, OpenedSteps) => PathOf(r) \in disk /\ \A t \in Slots : \A k : Removing(t, k) => t_file[k].path # PathOf(r)
  BY <1>4 DEF BytesInv, Removes, Removing
<1>6. \A f \in Fids : Arrived(f) => /\ t_file[f].path \in disk
                                    /\ \A t \in Slots : \A k : Removing(t, k) /\ t_file[k].path = t_file[f].path => t_file[k].there
  BY <1>4 DEF BytesInv, Removes, Removing
<1>7. \A t \in Slots : \A k : Removing(t, k) => k \in Fids /\ IsFile(k) /\ Marked(k) /\ t_file'[k].path = t_file[k].path
  BY RemovingIs DEF Grows, Kept
<1>8. ASSUME NEW r \in Requests, Writes(r, OpenedSteps)'
      PROVE  PathOf(r) \in disk' /\ \A t \in Slots : \A k : Removing(t, k)' => t_file'[k].path # PathOf(r)
  <2>1. Writes(r, AnyOpen)'
    BY <1>8 DEF Writes, AnyOpen
  <2>2. \A f \in Fids' : Arrived(f)' => t_file'[f].path # PathOf(r)
    BY <1>2, <2>1 DEF CompleteInv, AnyOpen
  <2>3. PathOf(r) \in disk' /\ \A t \in Slots : \A k : Removing(t, k) => t_file[k].path # PathOf(r)
    BY <1>3, <1>5, <1>8
  <2>. QED  BY <1>7, <2>2, <2>3
<1>9. ASSUME NEW f \in Fids', Arrived(f)'
      PROVE  /\ t_file'[f].path \in disk'
             /\ \A t \in Slots : \A k : Removing(t, k)' /\ t_file'[k].path = t_file'[f].path => t_file'[k].there
  <2>1. f \in Fids /\ Arrived(f) /\ t_file'[f].path = t_file[f].path /\ t_file'[f].there
    BY <1>1, <1>9
  <2>2. t_file[f].path \in disk'
    BY <1>6, <2>1
  <2>3. ASSUME NEW t \in Slots, NEW k, Removing(t, k), t_file[k].path = t_file[f].path PROVE t_file'[k].there
    <3>1. k \in Fids /\ Arrived(k)
      BY <1>6, <1>7, <2>1, <2>3 DEF Arrived
    <3>2. k = f
      BY <2>1, <2>3, <3>1 DEF CompleteInv
    <3>. QED  BY <2>1, <3>2
  <2>. QED  BY <1>1, <1>7, <2>1, <2>2, <2>3
<1>. QED  BY <1>8, <1>9 DEF BytesInv, Removes, Removing

(* A step of a handler is seen on its own slot.                             *)
LEMMA SlotsWrite ==
  ASSUME NEW s \in Slots, Acts(s), run[s] # Idle, NEW steps,
         run'[s] # Idle /\ Top(s)'.fn = "uploadFile" /\ Top(s)'.step \in steps => Top(s).fn = "uploadFile" /\ Top(s).step \in steps,
         \A r \in Requests : reply'[r].kind = "uploading" => reply[r].kind = "uploading"
  PROVE  \A r \in Requests : Writes(r, steps)' => Writes(r, steps)
<1>1. \A t \in Slots \ {s} : run'[t] = run[t] /\ Rq(t)' = Rq(t) /\ Top(t)' = Top(t)
  BY OtherIs DEF Acts
<1>2. run'[s] # Idle => Rq(s)' = Rq(s)
  BY DEF Acts
<1>. QED  BY <1>1, <1>2 DEF Writes

LEMMA SlotsRemove ==
  ASSUME NEW s \in Slots, Acts(s), run[s] # Idle,
         run'[s] # Idle /\ Top(s)'.fn = "deleteFileById" => Top(s).fn = "deleteFileById" /\ Top(s)'.fid = Top(s).fid
  PROVE  \A t \in Slots : \A k : Removing(t, k)' => Removing(t, k)
<1>1. \A t \in Slots \ {s} : run'[t] = run[t] /\ Top(t)' = Top(t)
  BY OtherIs DEF Acts
<1>. QED  BY <1>1 DEF Removing

(* No handler but uploadFile opens a path, and a deletion comes only to a   *)
(* file that is complete and there.                                         *)
OtherTop(s) ==
  /\ run'[s] # Idle /\ Top(s)'.fn = "deleteFileById" =>
       \/ Top(s).fn = "deleteFileById" /\ Top(s)'.fid = Top(s).fid
       \/ \E k \in Fids : Top(s)'.fid = k /\ Arrived(k) /\ Still
  /\ run'[s] # Idle => Top(s)'.fn # "uploadFile"
  /\ \A r \in Requests : reply'[r].kind = "uploading" => reply[r].kind = "uploading"

LEMMA ReturnTop ==
  ASSUME BaseInv, NEW s \in Slots, run[s] # Idle, Returns(s)
  PROVE  OtherTop(s)
<1>1. CASE EndsWith(s, "dropped", 0)
  BY <1>1 DEF EndsWith, OtherTop
<1>2. CASE reply' = reply /\ Top(s)' \in Beneath(s)
  <2>1. \A f \in Beneath(s) : f.fn \in Walkers
    BY Running
  <2>2. \A f : f.fn \in Walkers => f.fn # "uploadFile" /\ f.fn # "deleteFileById"
    BY DEF Walkers
  <2>. QED  BY <1>2, <2>1, <2>2 DEF OtherTop
<1>. QED  BY <1>1, <1>2, ReturnsIs

LEMMA EndTop ==
  ASSUME NEW s \in Slots, NEW kind, NEW fid, EndsWith(s, kind, fid), kind # "uploading"
  PROVE  OtherTop(s)
BY DEF EndsWith, OtherTop

LEMMA GoTop ==
  ASSUME NEW s \in Slots, NEW x, Top(s)' = x, reply' = reply, x.fn # "uploadFile",
         x.fn = "deleteFileById" => \/ Top(s).fn = "deleteFileById" /\ x.fid = Top(s).fid
                                    \/ x.fid \in Fids /\ Arrived(x.fid) /\ Still
  PROVE  OtherTop(s)
BY DEF OtherTop

LEMMA OthersTop ==
  ASSUME BaseInv, NEW s \in Slots, Handler(s), ~uploadFile(s)
  PROVE  OtherTop(s)
<1>1. \A fn : \A step : Doing(s, fn, step) => run[s] # Idle /\ Top(s).fn = fn
  BY DEF Doing
<1>2. CASE deleteFile(s)
  <2>1. CASE deleteFile_next(s)
    <3>1. run[s] # Idle /\ Still
      BY <1>1, <2>1, DeleteFileNext
    <3>2. CASE Returns(s)
      BY <3>1, <3>2, ReturnTop
    <3>3. ASSUME NEW fid \in Top(s).rest, NEW x \in FrameRecord, NEW y \in FrameRecord,
                 Calls(s, x, y), x.fn = (IF IsFolder(fid) THEN "deleteFolderById" ELSE "deleteFileById"), x.fid = fid,
                 fid \in Fids, Marked(fid), t_file[fid].there
          PROVE  OtherTop(s)
      <4>1. Top(s)' = x /\ reply' = reply
        BY <3>3, CallsIs
      <4>2. ~IsFolder(fid) => Arrived(fid)
        BY <3>3, NameIs DEF Arrived
      <4>. QED  BY <3>1, <3>3, <4>1, <4>2, GoTop
    <3>. QED  BY <2>1, <3>2, <3>3, DeleteFileNext
  <2>2. CASE deleteFile_reply(s)
    BY <2>2, DeleteFileReply, EndTop
  <2>. QED  BY <1>2, <2>1, <2>2 DEF deleteFile
<1>3. CASE deleteFileById(s)
  <2>1. CASE deleteFileById_delete(s)
    BY <1>1, <2>1, ByIdDelete, GoesIs, GoTop
  <2>2. CASE deleteFileById_count(s)
    BY <1>1, <2>2, ByIdCount, GoesIs, GoTop, ReturnTop
  <2>3. CASE deleteFileById_remove(s)
    BY <1>1, <2>3, ByIdRemove, ReturnTop
  <2>. QED  BY <1>3, <2>1, <2>2, <2>3 DEF deleteFileById
<1>4. CASE deleteFolderById(s)
  <2>1. CASE deleteFolderById_delete(s)
    BY <2>1, FolderDelete, GoesIs, GoTop
  <2>2. CASE deleteFolderById_select(s)
    BY <2>2, FolderSelect, GoesIs, GoTop
  <2>3. CASE deleteFolderById_file(s)
    BY <2>3, FolderFile, GoesIs, GoTop
  <2>4. CASE deleteFolderById_folder(s)
    BY <2>4, FolderFolder, CallsIs, GoTop
  <2>5. CASE deleteFolderById_end(s)
    BY <1>1, <2>5, FolderEnd, ReturnTop
  <2>. QED  BY <1>4, <2>1, <2>2, <2>3, <2>4, <2>5 DEF deleteFolderById
<1>5. CASE shareFile(s)
  <2>1. CASE shareFile_pick(s)
    BY <2>1, SharePick, GoesIs, GoTop
  <2>2. CASE shareFile_update(s)
    BY <2>2, ShareUpdate, GoesIs, GoTop
  <2>3. CASE shareFile_reply(s)
    BY <2>3, ShareReply, EndTop
  <2>. QED  BY <1>5, <2>1, <2>2, <2>3 DEF shareFile
<1>6. ASSUME NEW fn \in Copiers, NEW folderDest \in BOOLEAN, Doing(s, fn, "next"), CopyRow(s, folderDest) \/ CopyRefused(s)
      PROVE  OtherTop(s)
  <2>1. \A x : x.fn \in Copiers => x.fn # "uploadFile" /\ x.fn # "deleteFileById"
    BY DEF Copiers
  <2>2. CASE CopyRow(s, folderDest)
    <3>1. PICK r, x, y : Copied(s, fn, r, x, y)
      BY <1>6, <2>2, CopyIs
    <3>2. Top(s)' \in {x, y} /\ reply' = reply /\ x.fn \in Copiers /\ y.fn \in Copiers
      BY <1>6, <3>1, GoesIs, CallsIs DEF Copied, Copiers
    <3>. QED  BY <2>1, <3>2, GoTop
  <2>3. CASE CopyRefused(s)
    BY <1>1, <1>6, <2>3, CopyRefusedIs, ReturnTop
  <2>. QED  BY <1>6, <2>2, <2>3
<1>7. CASE getShareByLink(s)
  <2>1. CASE getShareByLink_select(s)
    BY <2>1, LinkSelect, GoesIs, GoTop, EndTop
  <2>2. CASE getShareByLink_next(s)
    BY <1>6, <2>2 DEF getShareByLink_next, Copiers
  <2>3. CASE getShareByLink_reply(s)
    BY <2>3, LinkReply, EndTop
  <2>. QED  BY <1>7, <2>1, <2>2, <2>3 DEF getShareByLink
<1>8. CASE addFolderByShareDir(s)
  <2>1. CASE addFolderByShareDir_select(s)
    BY <2>1, ContentsSelect, GoesIs, GoTop
  <2>2. CASE addFolderByShareDir_next(s)
    BY <1>6, <2>2 DEF addFolderByShareDir_next, Copiers
  <2>3. CASE addFolderByShareDir_end(s)
    BY <1>1, <2>3, ContentsEnd, ReturnTop
  <2>. QED  BY <1>8, <2>1, <2>2, <2>3 DEF addFolderByShareDir
<1>9. ASSUME NEW step, NEW fid, MakerGoes(s, step, fid), Top(s).fn = "addFolder" PROVE OtherTop(s)
  BY <1>9, MakerStep, GoTop
<1>10. CASE addFolder(s)
  <2>1. CASE addFolder_insertFile(s)
    BY <1>1, <1>9, <2>1, AddFolderInsert
  <2>2. CASE addFolder_selectId(s)
    <3>1. Restart => OtherTop(s)
      BY RestartIs, RestartedIs, <2>2 DEF Restart, OtherTop
    <3>. QED  BY <1>1, <1>9, <2>2, <3>1, AddFolderSelect
  <2>3. CASE addFolder_insertRel(s)
    BY <1>1, <1>9, <2>3, AddFolderRelate, ReturnTop DEF Related
  <2>4. CASE addFolder_mkdir(s)
    BY <1>1, <2>4, AddFolderMkdir, EndTop, ReturnTop
  <2>. QED  BY <1>10, <2>1, <2>2, <2>3, <2>4 DEF addFolder
<1>. QED  BY <1>2, <1>3, <1>4, <1>5, <1>7, <1>8, <1>10 DEF Handler

LEMMA BytesKeepsOther ==
  ASSUME BaseInv, CompleteInv, BytesInv, NEW s \in Slots, Handler(s), ~uploadFile(s)
  PROVE  CompleteInv' /\ BytesInv'
<1>1. HandlerStep(s) /\ OtherTop(s) /\ TablesStep(s) /\ (disk \subseteq disk' \/ deleteFileById_remove(s))
  BY HandlerIs, OthersTop, HandlerTables
<1>2. run[s] # Idle /\ faults.seen \subseteq faults'.seen /\ (Acts(s) \/ (\A t \in Slots : run'[t] = Idle))
  BY <1>1 DEF HandlerStep, Falls
<1>3. Grows /\ \A f \in Fids' : Arrived(f)' => f \in Fids /\ Arrived(f)
  BY <1>1, <1>2, NoArrival
<1>4. \A t \in Slots : \A k : Removing(t, k)' => Removing(t, k) \/ (k \in Fids' /\ Arrived(k)')
  <2>1. \A k : Removing(s, k)' => Removing(s, k) \/ (k \in Fids' /\ Arrived(k)')
    <3>1. \A k \in Fids : Arrived(k) /\ Still => k \in Fids' /\ Arrived(k)'
      BY DEF Still, Arrived, IsFile, Marked, Fids
    <3>. QED  BY <1>1, <1>2, <3>1 DEF OtherTop, Removing
  <2>2. CASE Acts(s)
    BY <2>1, <2>2, OtherIs DEF Acts, Removing
  <2>3. CASE \A t \in Slots : run'[t] = Idle
    BY <2>3 DEF Removing
  <2>. QED  BY <1>2, <2>2, <2>3
<1>5. ASSUME NEW steps PROVE \A r \in Requests : Writes(r, steps)' => Writes(r, steps)
  <2>1. CASE Acts(s)
    BY <1>1, <1>2, <2>1, SlotsWrite DEF OtherTop
  <2>2. CASE \A t \in Slots : run'[t] = Idle
    BY <1>1, <2>2 DEF OtherTop, Writes
  <2>. QED  BY <1>2, <2>1, <2>2
<1>6. \A p \in disk \ disk' : \E t \in Slots : \E k : Removing(t, k) /\ t_file[k].path = p /\ ~t_file[k].there
  <2>1. CASE deleteFileById_remove(s)
    <3>1. run[s] # Idle /\ Top(s).fn = "deleteFileById" /\ Top(s).step = "remove" /\ disk' = disk \ {t_file[Top(s).fid].path}
      BY <2>1, ByIdRemove DEF Doing
    <3>2. Removing(s, Top(s).fid)
      BY <3>1 DEF Removing
    <3>3. ~t_file[Top(s).fid].there
      BY <3>1, <3>2, RemovingIs
    <3>. QED  BY <3>1, <3>2, <3>3
  <2>. QED  BY <1>1, <2>1
<1>. QED  BY <1>2, <1>3, <1>4, <1>5, <1>6, BytesCalm

LEMMA BytesKeepsUpload ==
  ASSUME BaseInv, CompleteInv, BytesInv, NEW s \in Slots, uploadFile(s), run[s] # Idle, Top(s).fn = "uploadFile",
         run'[s] # Idle => Top(s)'.fn = "uploadFile",
         run'[s] # Idle /\ Top(s)'.step \in AnyOpen => Top(s).step \in AnyOpen \/ Vacant(PathOf(Rq(s))),
         run'[s] # Idle /\ Top(s)'.step \in OpenedSteps =>
            \/ Top(s).step \in OpenedSteps \/ Seen({"reopened"})'
            \/ PathOf(Rq(s)) \in disk' /\ \A t \in Slots : \A k : Removing(t, k) => t_file[k].path # PathOf(Rq(s)),
         \A r \in Requests : reply'[r].kind = "uploading" => reply[r].kind = "uploading" \/ (r = Rq(s) /\ Top(s).step = "reply")
  PROVE  CompleteInv' /\ BytesInv'
<1>1. HandlerStep(s) /\ TablesStep(s) /\ (disk \subseteq disk' \/ deleteFileById_remove(s))
  BY HandlerIs, HandlerTables DEF Handler
<1>2. faults.seen \subseteq faults'.seen /\ (Acts(s) \/ (\A t \in Slots : run'[t] = Idle))
  BY <1>1 DEF HandlerStep, Falls
<1>3. Grows /\ \A f \in Fids' : Arrived(f)' => f \in Fids /\ Arrived(f)
  BY <1>1, NoArrival
<1>4. disk \subseteq disk'
  BY <1>1 DEF deleteFileById_remove, Doing
<1>5. \A t \in Slots : \A k : Removing(t, k)' => Removing(t, k)
  <2>1. CASE Acts(s)
    BY <2>1, SlotsRemove
  <2>2. CASE \A t \in Slots : run'[t] = Idle
    BY <2>2 DEF Removing
  <2>. QED  BY <1>2, <2>1, <2>2
<1>6. ASSUME NEW r \in Requests, NEW steps, "reply" \in steps, Writes(r, steps)'
      PROVE  Writes(r, steps) \/ (r = Rq(s) /\ run'[s] # Idle /\ Top(s)'.step \in steps)
  <2>1. CASE reply'[r].kind = "uploading"
    BY <1>6, <2>1 DEF Writes
  <2>2. CASE \E t \in Slots : run'[t] # Idle /\ Rq(t)' = r /\ Top(t)'.fn = "uploadFile" /\ Top(t)'.step \in steps
    <3>1. PICK t \in Slots : run'[t] # Idle /\ Rq(t)' = r /\ Top(t)'.fn = "uploadFile" /\ Top(t)'.step \in steps
      BY <2>2
    <3>2. Acts(s)
      BY <1>2, <3>1
    <3>3. CASE t = s
      BY <3>1, <3>2, <3>3 DEF Acts
    <3>4. CASE t # s
      BY <3>1, <3>2, <3>4, OtherIs DEF Acts, Writes
    <3>. QED  BY <3>3, <3>4
  <2>. QED  BY <1>6, <2>1, <2>2 DEF Writes
<1>7. "reply" \in AnyOpen /\ "reply" \in OpenedSteps
  BY DEF AnyOpen, OpenedSteps
<1>8. \A steps : Top(s).step \in steps => Writes(Rq(s), steps)
  BY DEF Writes
<1>9. \A r \in Requests : Writes(r, AnyOpen)' => Writes(r, AnyOpen) \/ Vacant(PathOf(r))
  BY <1>6, <1>7, <1>8
<1>10. \A r \in Requests : Writes(r, OpenedSteps)' =>
         \/ Writes(r, OpenedSteps) \/ Seen({"reopened"})'
         \/ PathOf(r) \in disk' /\ \A t \in Slots : \A k : Removing(t, k) => t_file[k].path # PathOf(r)
  BY <1>6, <1>7, <1>8
<1>. QED  BY <1>2, <1>3, <1>4, <1>5, <1>9, <1>10, BytesCalm

LEMMA BytesStepUpload ==
  ASSUME BaseInv, CompleteInv, BytesInv, NEW s \in Slots, uploadFile(s)
  PROVE  CompleteInv' /\ BytesInv'
<1>. DEFINE Goes2(from, to) == Top(s).step = from /\ Top(s)'.step = to /\ run'[s] # Idle /\ Top(s)'.fn = "uploadFile" /\ reply' = reply
            Ended == run'[s] = Idle /\ \A r \in Requests : reply'[r].kind = "uploading" =>
                                         reply[r].kind = "uploading" \/ (r = Rq(s) /\ Top(s).step = "reply")
<1>1. run[s] # Idle /\ Top(s).fn = "uploadFile"
  BY UploadQuick, UploadOpen, UploadInsert, UploadSelect, UploadReply DEF uploadFile, uploadFile_quickInsert, uploadFile_insertRel, Doing
<1>2. Ended => CompleteInv' /\ BytesInv'
  BY <1>1, BytesKeepsUpload
<1>3. \A from : \A to : /\ Goes2(from, to) /\ to \notin OpenedSteps /\ to # "open" => CompleteInv' /\ BytesInv'
                        /\ Goes2(from, to) /\ from \in OpenedSteps => CompleteInv' /\ BytesInv'
  BY <1>1, BytesKeepsUpload DEF AnyOpen
<1>4. \A step : \A fid : Doing(s, "uploadFile", Top(s).step) /\ MakerGoes(s, step, fid) => Goes2(Top(s).step, step)
  BY <1>1, MakerStep
<1>5. Returns(s) => Ended
  BY <1>1, ReturnsIs DEF Entries, EndsWith
<1>6. \A kind : \A fid : EndsWith(s, kind, fid) /\ (kind = "uploading" => Top(s).step = "reply") => Ended
  BY DEF EndsWith
<1>7. Restart => Ended
  <2>1. HandlerStep(s)
    BY HandlerIs DEF Handler
  <2>2. FaultsOK'
    BY <2>1 DEF HandlerStep, BaseInv, StateOK, FaultsOK
  <2>. QED  BY <2>2, RestartIs
<1>8. \A fn : \A step : Doing(s, fn, step) => Top(s).step = step /\ Doing(s, "uploadFile", Top(s).step)
  BY <1>1 DEF Doing
<1>9. CASE uploadFile_quick(s)
  <2>1. CASE \E f \in Complete(Rq(s).md5) : MakerGoes(s, "quickInsert", f)
    BY <1>3, <1>4, <1>8, <1>9, <2>1, UploadQuick DEF OpenedSteps
  <2>2. CASE Complete(Rq(s).md5) = {} /\ MakerGoes(s, "open", Top(s).fid)
    <3>1. Goes2("quick", "open")
      BY <1>4, <1>8, <1>9, <2>2, UploadQuick
    <3>2. Rq(s) \in Requests /\ Rq(s).fn = "uploadFile"
      BY <1>1, UploadStart
    <3>3. PathOf(Rq(s))[Len(PathOf(Rq(s)))] = Rq(s).md5
      BY <3>2, RequestPath
    <3>4. Vacant(PathOf(Rq(s)))
      <4>1. SUFFICES ASSUME NEW f \in Fids, t_file[f].path = PathOf(Rq(s)), Arrived(f) PROVE FALSE
        BY DEF Vacant
      <4>2. t_file[f].md5 = Rq(s).md5
        BY <3>3, <4>1, NameIs DEF FileOK, Arrived, Name
      <4>. QED  BY <2>2, <4>1, <4>2 DEF Complete, Arrived, Marked
    <3>5. "open" \notin OpenedSteps
      BY DEF OpenedSteps
    <3>. QED  BY <1>1, <3>1, <3>4, <3>5, BytesKeepsUpload
  <2>. QED  BY <1>9, <2>1, <2>2, UploadQuick
<1>10. CASE uploadFile_quickInsert(s)
  <2>1. Doing(s, "uploadFile", "quickInsert") /\ Related(s, "quickReply")
    BY <1>10, UploadRelate DEF uploadFile_quickInsert
  <2>. QED  BY <1>2, <1>3, <1>4, <1>5, <1>8, <2>1 DEF Related, OpenedSteps
<1>11. CASE uploadFile_open(s)
  <2>1. CASE Returns(s)
    BY <1>2, <1>5, <2>1
  <2>2. CASE disk' = disk \cup {PathOf(Rq(s))} /\ MakerGoes(s, "insertFile", Top(s).fid)
             /\ faults'.seen = faults.seen \cup (IF \E t \in Slots : Removes(t, PathOf(Rq(s))) THEN {"reopened"} ELSE {})
    <3>1. Goes2("open", "insertFile")
      BY <1>4, <1>8, <1>11, <2>2, UploadOpen
    <3>2. "open" \in AnyOpen
      BY DEF AnyOpen
    <3>3. Seen({"reopened"})' \/ \A t \in Slots : \A k : Removing(t, k) => t_file[k].path # PathOf(Rq(s))
      BY <2>2 DEF Seen, Removes, Removing
    <3>. QED  BY <1>1, <2>2, <3>1, <3>2, <3>3, BytesKeepsUpload
  <2>. QED  BY <1>11, <2>1, <2>2, UploadOpen
<1>12. CASE uploadFile_insertFile(s)
  BY <1>3, <1>4, <1>8, <1>12, UploadInsert DEF OpenedSteps
<1>13. CASE uploadFile_selectId(s)
  BY <1>2, <1>3, <1>4, <1>7, <1>8, <1>13, UploadSelect DEF OpenedSteps
<1>14. CASE uploadFile_insertRel(s)
  <2>1. Doing(s, "uploadFile", "insertRel") /\ Related(s, "reply")
    BY <1>14, UploadRelate DEF uploadFile_insertRel
  <2>. QED  BY <1>2, <1>3, <1>4, <1>5, <1>8, <2>1 DEF Related, OpenedSteps
<1>15. CASE uploadFile_reply(s)
  BY <1>2, <1>6, <1>8, <1>15, UploadReply
<1>. QED  BY <1>9, <1>10, <1>11, <1>12, <1>13, <1>14, <1>15 DEF uploadFile

(* The last block of an upload makes its file complete: it has the path to  *)
(* itself, and nothing is about to remove it.                               *)
LEMMA BytesKeepsBlock ==
  ASSUME BaseInv, CompleteInv, BytesInv, NEW r \in Requests, LastBlock(r)
  PROVE  CompleteInv' /\ BytesInv'
<1>. PICK k : k = reply[r].fid
  OBVIOUS
<1>1. r.fn = "uploadFile" /\ FromPath(k, r) /\ Writes(r, OpenedSteps) /\ Writes(r, AnyOpen) /\ r.md5 # "?"
  BY RequestIs DEF LastBlock, Writes
<1>2. k \in Fids /\ t_file[k].path = PathOf(r) /\ t_file \in Seq(FileRecord) /\ t_file' = [t_file EXCEPT ![k].state = 1]
  BY <1>1, BaseIs DEF FromPath, DbOK, LastBlock
<1>3. /\ Grows /\ Fids' = Fids /\ \A g \in Fids : t_file'[g].there = t_file[g].there /\ (g # k => t_file'[g] = t_file[g])
      /\ \A g \in Fids : t_file'[g].path = t_file[g].path
  BY <1>2, MarkIs DEF Grows, Kept
<1>4. UNCHANGED <<disk, run, faults>> /\ \A q \in Requests : reply'[q].kind = "uploading" => q # r /\ reply[q].kind = "uploading"
  BY DEF LastBlock
<1>5. \A f \in Fids : Arrived(f)' => Arrived(f) \/ f = k
  BY <1>3 DEF Arrived, IsFile, Marked
<1>6. \A t \in Slots : run[t] # Idle => Rq(t) # r
  BY DEF BaseInv, SlotOK, LastBlock
<1>7. ASSUME NEW q \in Requests, NEW steps, Writes(q, steps)' PROVE Writes(q, steps) /\ PathOf(q) # PathOf(r)
  <2>1. Writes(q, steps) /\ q # r
    BY <1>4, <1>6, <1>7 DEF Writes, Rq, Top
  <2>. QED  BY <1>1, <2>1, WriterIs, PathInjective
<1>8. \A f \in Fids : t_file[f].path = PathOf(r) => ~Arrived(f)
  BY <1>1 DEF CompleteInv, AnyOpen
<1>9. CompleteInv'
  <2>1. \A f, g \in Fids' : Arrived(f)' /\ Arrived(g)' /\ t_file'[f].path = t_file'[g].path => f = g
    BY <1>2, <1>3, <1>5, <1>8 DEF CompleteInv
  <2>2. ASSUME NEW q \in Requests, Writes(q, AnyOpen)', NEW f \in Fids', t_file'[f].path = PathOf(q) PROVE ~Arrived(f)'
    BY <1>2, <1>3, <1>5, <1>7, <2>2 DEF CompleteInv, AnyOpen
  <2>. QED  BY <2>1, <2>2 DEF CompleteInv, AnyOpen
<1>10. BytesInv'
  <2>1. SUFFICES ASSUME ~Seen({"reopened"}) PROVE BytesInv'
    BY <1>4 DEF BytesInv, Seen
  <2>2. \A t \in Slots : \A j : Removing(t, j)' => Removing(t, j) /\ j \in Fids
    BY <1>4, RemovingIs DEF Removing, Top
  <2>3. PathOf(r) \in disk /\ \A t \in Slots : \A j : Removing(t, j) => t_file[j].path # PathOf(r)
    BY <1>1, <2>1 DEF BytesInv, Removes, Removing
  <2>4. ASSUME NEW q \in Requests, Writes(q, OpenedSteps)'
        PROVE  PathOf(q) \in disk' /\ \A t \in Slots : \A j : Removing(t, j)' => t_file'[j].path # PathOf(q)
    <3>1. PathOf(q) \in disk /\ \A t \in Slots : \A j : Removing(t, j) => t_file[j].path # PathOf(q)
      BY <1>7, <2>1, <2>4 DEF BytesInv, Removes, Removing
    <3>. QED  BY <1>3, <1>4, <2>2, <3>1
  <2>5. ASSUME NEW f \in Fids', Arrived(f)'
        PROVE  /\ t_file'[f].path \in disk'
               /\ \A t \in Slots : \A j : Removing(t, j)' /\ t_file'[j].path = t_file'[f].path => t_file'[j].there
    <3>1. CASE f = k
      BY <1>2, <1>3, <1>4, <2>2, <2>3, <2>5, <3>1
    <3>2. CASE Arrived(f)
      <4>1. t_file[f].path \in disk /\ \A t \in Slots : \A j : Removing(t, j) /\ t_file[j].path = t_file[f].path => t_file[j].there
        BY <1>3, <2>1, <2>5, <3>2 DEF BytesInv, Removes, Removing
      <4>. QED  BY <1>3, <1>4, <2>2, <2>5, <4>1
    <3>. QED  BY <1>3, <1>5, <2>5, <3>1, <3>2
  <2>. QED  BY <2>4, <2>5 DEF BytesInv, Removes, Removing
<1>. QED  BY <1>9, <1>10

LEMMA BytesStep ==
  ASSUME BaseInv, CompleteInv, BytesInv, [Next]_vars
  PROVE  CompleteInv' /\ BytesInv'
<1>1. CASE \E s \in Slots : Handler(s)
  BY <1>1, BytesKeepsOther, BytesStepUpload
<1>2. CASE \E r \in Requests : fileContentRq_update(r)
  BY <1>2, LastBlockIs, BytesKeepsBlock
<1>3. ASSUME t_file' = t_file, disk' = disk, faults.seen \subseteq faults'.seen,
             \A t \in Slots : \A k : Removing(t, k)' => Removing(t, k),
             \A r \in Requests : \A steps : Writes(r, steps)' => Writes(r, steps) \/ steps \cap {"quick"} # {}
      PROVE  CompleteInv' /\ BytesInv'
  <2>1. Grows /\ Fids' = Fids
    BY <1>3, BaseIs, SameGrows DEF DbOK
  <2>2. \A f \in Fids' : Arrived(f)' => f \in Fids /\ Arrived(f)
    BY <1>3, <2>1 DEF Arrived, IsFile, Marked
  <2>3. AnyOpen \cap {"quick"} = {} /\ OpenedSteps \cap {"quick"} = {}
    BY DEF AnyOpen, OpenedSteps
  <2>. QED  BY <1>3, <2>1, <2>2, <2>3, BytesCalm
<1>4. CASE \E s \in Slots : CallFails(s)
  <2>1. PICK s \in Slots : CallFails(s)
    BY <1>4
  <2>2. UNCHANGED <<t_file, disk>> /\ run[s] # Idle /\ Returns(s) /\ faults.seen \subseteq faults'.seen
    BY <2>1, CallFailsIs
  <2>3. OtherTop(s) /\ Acts(s)
    BY <2>2, ReturnTop, ReturnsIs
  <2>4. run'[s] # Idle => Top(s)'.fn \in Walkers
    BY <2>2, ReturnsIs, Running
  <2>5. \A r \in Requests : \A steps : Writes(r, steps)' => Writes(r, steps)
    BY <2>2, <2>3, SlotsWrite DEF OtherTop
  <2>6. \A t \in Slots : \A k : Removing(t, k)' => Removing(t, k)
    BY <2>2, <2>3, <2>4, SlotsRemove DEF Walkers
  <2>. QED  BY <1>3, <2>2, <2>5, <2>6
<1>5. CASE \E r \in Requests : Send(r)
  <2>1. PICK r \in Requests : Send(r)
    BY <1>5
  <2>2. PICK s \in Slots, x \in FrameRecord : Starts(r, s, x) /\ Begins(r, x)
    BY <2>1, SendIs
  <2>3. \A t \in Slots \ {s} : run'[t] # Idle => run[t] # Idle /\ Top(t)' = Top(t) /\ Rq(t)' = Rq(t)
    BY <2>2 DEF Starts, Top, Rq
  <2>4. x.fn # "deleteFileById" /\ (x.fn = "uploadFile" => x.step = "quick")
    BY <2>2, RequestIs DEF Begins, Entries
  <2>5. \A t \in Slots : \A k : Removing(t, k)' => Removing(t, k)
    BY <2>2, <2>3, <2>4 DEF Removing, Starts
  <2>6. \A q \in Requests : \A steps : Writes(q, steps)' => Writes(q, steps) \/ steps \cap {"quick"} # {}
    BY <2>2, <2>3, <2>4 DEF Writes, Starts
  <2>. QED  BY <1>3, <2>1, <2>5, <2>6, SendIs
<1>6. CASE crash
  <2>1. UNCHANGED <<t_file, disk>> /\ faults.seen \subseteq faults'.seen /\ \A t \in Slots : run'[t] = Idle
    BY <1>6, CrashIs, RestartedIs
  <2>2. \A r \in Requests : reply'[r].kind # "uploading"
    BY <1>6, CrashIs, RestartIs DEF BaseInv, StateOK, FaultsOK
  <2>. QED  BY <1>3, <2>1, <2>2 DEF Removing, Writes
<1>7. CASE UNCHANGED vars
  BY <1>3, <1>7 DEF vars, db, Removing, Writes, Top, Rq
<1>. QED  BY <1>1, <1>2, <1>4, <1>5, <1>6, <1>7 DEF Next

LEMMA BytesInit ==
  ASSUME Init
  PROVE  CompleteInv /\ BytesInv
<1>1. t_file = t_file_0 /\ Fids = 1..Len(t_file_0) /\ \A f \in Fids : t_file[f].path \in disk
  BY DEF Init, Fids
<1>2. \A s \in Slots : run[s] = Idle
  BY DEF Init
<1>3. \A r \in Requests : reply[r].kind # "uploading"
  BY DEF Init
<1>4. \A f, g \in Fids : Arrived(f) /\ Arrived(g) /\ t_file[f].path = t_file[g].path => f = g
  BY <1>1, FilesAssumption DEF Arrived, IsFile
<1>. QED  BY <1>1, <1>2, <1>3, <1>4 DEF CompleteInv, BytesInv, Writes, Removes

(* A complete file that is in anybody's list has its bytes on the disk.     *)
(* FilesAssumption is all it takes: any users, requests, schema and faults. *)
THEOREM ListedFileHasBytesHolds == Spec => []ListedFileHasBytes
<1>1. BaseInv /\ CompleteInv /\ BytesInv /\ [Next]_vars => (BaseInv /\ CompleteInv /\ BytesInv)'
  BY BaseStep, BaseStays, BytesStep
<1>2. BaseInv /\ BytesInv => ListedFileHasBytes
  <2>1. SUFFICES ASSUME BaseInv, BytesInv, NEW r \in user_file_info, IsFile(r.f_id), t_file[r.f_id].state = 1, ~Seen({"reopened"})
                 PROVE  t_file[r.f_id].path \in disk
    BY DEF ListedFileHasBytes
  <2>2. r.f_id \in Fids /\ t_file[r.f_id].there
    BY <2>1, RelationIs DEF user_file_info
  <2>. QED  BY <2>1, <2>2 DEF BytesInv, Arrived, Marked
<1>. QED  BY <1>1, <1>2, BaseInit, BytesInit, PTL DEF Spec

-----------------------------------------------------------------------------
(* What handlers remember.  A list of rows that is new was selected from    *)
(* the table, a row that is new is about a file of the list or the file of  *)
(* the request itself, and only insertFile leads to selectId.               *)
Recalled(s, g) ==
  g.fn \in RowFns => \A q \in g.rest : (Top(s).fn \in RowFns /\ q \in Top(s).rest) \/ q \in t_user_file
Remembers(s) ==
  run'[s] # Idle =>
    /\ \A f : Mentions(s, f)' => Mentions(s, f) \/ \E q \in t_user_file : q.f_id = f
    /\ Top(s)'.step = "selectId" => Top(s).fn \in Makers /\ Alloc(NewFile(Rq(s))) /\ t_user_file' = t_user_file
Relates(s, f) == Top(s).fn \in Makers /\ Top(s).step \in {"insertRel", "quickInsert"} /\ Top(s).fid = f
RowsCome(s) ==
  \A q \in t_user_file' :
    (\E p \in t_user_file : p.f_id = q.f_id) \/ Mentions(s, q.f_id) \/ Relates(s, q.f_id)

LEMMA MovesRemember ==
  ASSUME BaseInv, NEW s \in Slots, run[s] # Idle, \A g \in OnStack(s)' : g \in Beneath(s) \/ Recalled(s, g),
         Top(s)'.step = "selectId" => Top(s).fn \in Makers /\ Alloc(NewFile(Rq(s))) /\ t_user_file' = t_user_file
  PROVE  Remembers(s)
<1>1. OnStack(s) = {Top(s)} \cup Beneath(s)
  BY Running
<1>2. ASSUME NEW f, Mentions(s, f)' PROVE Mentions(s, f) \/ \E q \in t_user_file : q.f_id = f
  <2>1. PICK g \in OnStack(s)' : g.fn \in RowFns /\ \E q \in g.rest : q.f_id = f
    BY <1>2 DEF Mentions
  <2>2. PICK q \in g.rest : q.f_id = f
    BY <2>1
  <2>3. CASE g \in Beneath(s)
    BY <1>1, <2>1, <2>3 DEF Mentions
  <2>4. CASE Recalled(s, g)
    BY <1>1, <2>1, <2>2, <2>4 DEF Recalled, Mentions
  <2>. QED  BY <2>1, <2>3, <2>4
<1>. QED  BY <1>2 DEF Remembers

LEMMA ReturnRemembers ==
  ASSUME BaseInv, NEW s \in Slots, run[s] # Idle, Returns(s)
  PROVE  Remembers(s)
<1>1. CASE run'[s] = Idle
  BY <1>1 DEF Remembers
<1>2. CASE Top(s)' \in Beneath(s) /\ OnStack(s)' = Beneath(s)
  <2>1. Top(s)'.step = "next"
    BY <1>2, Running
  <2>. QED  BY <1>2, <2>1, MovesRemember
<1>. QED  BY <1>1, <1>2, ReturnsIs

LEMMA GoRemembers ==
  ASSUME BaseInv, NEW s \in Slots, run[s] # Idle, NEW x, Goes(s, x), Recalled(s, x), x.step # "selectId"
  PROVE  Remembers(s)
<1>1. Top(s)' = x /\ OnStack(s)' = {x} \cup Beneath(s)
  BY GoesIs
<1>. QED  BY <1>1, MovesRemember

LEMMA CallRemembers ==
  ASSUME BaseInv, NEW s \in Slots, run[s] # Idle, NEW x, NEW y, Calls(s, x, y), Recalled(s, x), Recalled(s, y), x.step # "selectId"
  PROVE  Remembers(s)
<1>1. Top(s)' = x /\ OnStack(s)' = {x, y} \cup Beneath(s)
  BY CallsIs
<1>. QED  BY <1>1, MovesRemember

LEMMA MakerRemembers ==
  ASSUME BaseInv, NEW s \in Slots, run[s] # Idle, Top(s).fn \in Makers, NEW step, NEW fid, MakerGoes(s, step, fid),
         step = "selectId" => Alloc(NewFile(Rq(s))) /\ t_user_file' = t_user_file
  PROVE  Remembers(s)
<1>1. PICK x \in FrameRecord : Goes(s, x) /\ x.fn = Top(s).fn /\ x.step = step
  BY DEF MakerGoes
<1>2. Top(s)' = x /\ OnStack(s)' = {x} \cup Beneath(s)
  BY <1>1, GoesIs
<1>3. Recalled(s, x)
  BY <1>1 DEF Recalled, Makers, RowFns, Copiers
<1>. QED  BY <1>1, <1>2, <1>3, MovesRemember

LEMMA RelatedComes ==
  ASSUME BaseInv, NEW s \in Slots, run[s] # Idle, Top(s).fn \in Makers, Top(s).step \in {"insertRel", "quickInsert"},
         NEW step, step # "selectId", Related(s, step)
  PROVE  Remembers(s) /\ RowsCome(s)
<1>1. CASE \E row \in Relation : InsertRelation(row) /\ row.f_id = Top(s).fid /\ MakerGoes(s, step, Top(s).fid)
  <2>1. PICK row \in Relation : InsertRelation(row) /\ row.f_id = Top(s).fid /\ MakerGoes(s, step, Top(s).fid)
    BY <1>1
  <2>2. t_user_file' = t_user_file \cup {row}
    BY <2>1 DEF InsertRelation
  <2>3. Remembers(s)
    BY <2>1, MakerRemembers
  <2>. QED  BY <2>1, <2>2, <2>3 DEF RowsCome, Relates
<1>2. CASE t_user_file' = t_user_file /\ Returns(s)
  BY <1>2, ReturnRemembers DEF RowsCome
<1>. QED  BY <1>1, <1>2 DEF Related

LEMMA NoRowComes ==
  ASSUME NEW s, t_user_file' \subseteq t_user_file
  PROVE  RowsCome(s)
BY DEF RowsCome

LEMMA HandlerRemembers ==
  ASSUME BaseInv, NEW s \in Slots, Handler(s)
  PROVE  Remembers(s) /\ RowsCome(s)
<1>1. run[s] # Idle
  BY HandlerIs DEF HandlerStep
<1>2. Still => RowsCome(s)
  BY NoRowComes DEF Still
<1>3. run'[s] = Idle => Remembers(s)
  BY DEF Remembers
<1>4. \A x : x.rest = {} => Recalled(s, x)
  BY DEF Recalled
<1>5. Top(s).fn \in RowFns => \A x : x.rest \subseteq Top(s).rest => Recalled(s, x)
  BY DEF Recalled
<1>6. \A x : x.fn \notin RowFns => Recalled(s, x)
  BY DEF Recalled
<1>7. \A x : x.rest \subseteq t_user_file => Recalled(s, x)
  BY DEF Recalled
<1>8. \A fn : \A step : Doing(s, fn, step) => Top(s).fn = fn /\ Top(s).step = step
  BY DEF Doing
<1>9. "deleteFile" \notin RowFns /\ "deleteFileById" \notin RowFns /\ "shareFile" \notin RowFns /\ "deleteFolderById" \in RowFns
      /\ Copiers \subseteq RowFns
  BY DEF RowFns, Copiers
<1>10. CASE deleteFile(s)
  <2>1. CASE deleteFile_next(s)
    <3>1. Still
      BY <2>1, DeleteFileNext
    <3>2. CASE Returns(s)
      BY <1>1, <1>2, <3>1, <3>2, ReturnRemembers
    <3>3. ASSUME NEW x \in FrameRecord, NEW y \in FrameRecord, Calls(s, x, y), y.fn = "deleteFile", x.rest = {}, x.step = "delete"
          PROVE  Remembers(s)
      BY <1>1, <1>4, <1>6, <1>9, <3>3, CallRemembers
    <3>. QED  BY <1>2, <2>1, <3>1, <3>2, <3>3, DeleteFileNext
  <2>2. CASE deleteFile_reply(s)
    BY <1>2, <1>3, <2>2, DeleteFileReply DEF EndsWith
  <2>. QED  BY <1>10, <2>1, <2>2 DEF deleteFile
<1>11. CASE deleteFileById(s)
  <2>1. CASE deleteFileById_delete(s)
    <3>1. DeleteDone(Rq(s).u, Top(s).fid, Rq(s).dir)
      BY <2>1, ByIdDelete
    <3>2. RowsCome(s)
      BY <3>1, DeletesRows, NoRowComes
    <3>3. Remembers(s)
      BY <1>1, <1>6, <1>9, <2>1, ByIdDelete, GoRemembers
    <3>. QED  BY <3>2, <3>3
  <2>2. CASE deleteFileById_count(s)
    BY <1>1, <1>2, <1>6, <1>9, <2>2, ByIdCount, GoRemembers, ReturnRemembers
  <2>3. CASE deleteFileById_remove(s)
    BY <1>1, <2>3, ByIdRemove, ReturnRemembers, NoRowComes
  <2>. QED  BY <1>11, <2>1, <2>2, <2>3 DEF deleteFileById
<1>12. CASE deleteFolderById(s)
  <2>1. CASE deleteFolderById_delete(s)
    <3>1. DeleteDone(Rq(s).u, Top(s).fid, Top(s).dir)
      BY <2>1, FolderDelete
    <3>2. RowsCome(s)
      BY <3>1, DeletesRows, NoRowComes
    <3>3. Remembers(s)
      BY <1>1, <1>5, <1>8, <1>9, <2>1, FolderDelete, GoRemembers
    <3>. QED  BY <3>2, <3>3
  <2>2. CASE deleteFolderById_select(s)
    <3>1. In(Rq(s).u, Top(s).dest) \subseteq t_user_file
      BY DEF In, user_file_info
    <3>. QED  BY <1>1, <1>2, <1>7, <2>2, <3>1, FolderSelect, GoRemembers
  <2>3. CASE deleteFolderById_file(s)
    <3>1. PICK r \in Top(s).rest, x \in FrameRecord : DeleteDone(Rq(s).u, r.f_id, Top(s).dest)
            /\ Goes(s, x) /\ x.step = "next" /\ x.rest = Top(s).rest \ {r}
      BY <2>3, FolderFile
    <3>2. RowsCome(s)
      BY <3>1, DeletesRows, NoRowComes
    <3>3. Recalled(s, x)
      BY <1>5, <1>8, <1>9, <2>3, <3>1, FolderFile
    <3>. QED  BY <1>1, <3>1, <3>2, <3>3, GoRemembers
  <2>4. CASE deleteFolderById_folder(s)
    <3>1. PICK r \in Top(s).rest, x \in FrameRecord, y \in FrameRecord : Calls(s, x, y)
            /\ y.rest = Top(s).rest \ {r} /\ x.rest = {} /\ x.step = "delete"
      BY <2>4, FolderFolder
    <3>2. Recalled(s, x) /\ Recalled(s, y)
      BY <1>4, <1>5, <1>8, <1>9, <2>4, <3>1, FolderFolder
    <3>. QED  BY <1>1, <1>2, <2>4, <3>1, <3>2, FolderFolder, CallRemembers
  <2>5. CASE deleteFolderById_end(s)
    BY <1>1, <1>2, <2>5, FolderEnd, ReturnRemembers
  <2>. QED  BY <1>12, <2>1, <2>2, <2>3, <2>4, <2>5 DEF deleteFolderById
<1>13. CASE shareFile(s)
  <2>1. CASE shareFile_pick(s)
    BY <1>1, <1>2, <1>6, <1>9, <2>1, SharePick, GoRemembers
  <2>2. CASE shareFile_update(s)
    <3>1. PICK fid \in Fids : Renumber(Rq(s).u, fid, Rq(s).dir, Top(s).link) /\ Top(s).link \in Links
      BY <2>2, ShareUpdate
    <3>2. \A q \in t_user_file : Numbered(q, Rq(s).u, fid, Rq(s).dir, Top(s).link).f_id = q.f_id
      BY <3>1, NumberedIs, RelationIs
    <3>3. RowsCome(s)
      BY <3>1, <3>2 DEF RowsCome, Renumber
    <3>. QED  BY <1>1, <1>6, <1>9, <2>2, <3>3, ShareUpdate, GoRemembers
  <2>3. CASE shareFile_reply(s)
    BY <1>2, <1>3, <2>3, ShareReply DEF EndsWith
  <2>. QED  BY <1>13, <2>1, <2>2, <2>3 DEF shareFile
<1>14. ASSUME NEW fn \in Copiers, NEW folderDest \in BOOLEAN, Doing(s, fn, "next"), CopyRow(s, folderDest) \/ CopyRefused(s)
      PROVE  Remembers(s) /\ RowsCome(s)
  <2>1. CASE CopyRow(s, folderDest)
    <3>1. PICK r \in Top(s).rest, row \in Relation, x \in FrameRecord, y \in FrameRecord :
            InsertRelation(row) /\ row.f_id = r.f_id /\ Copied(s, fn, r, x, y)
      BY <1>14, <2>1, CopyIs
    <3>2. Top(s).fn = fn /\ Top(s).fn \in RowFns /\ Top(s) \in OnStack(s)
      BY <1>1, <1>8, <1>9, <1>14, Running
    <3>3. RowsCome(s)
      <4>1. t_user_file' = t_user_file \cup {row}
        BY <3>1 DEF InsertRelation
      <4>2. Mentions(s, row.f_id)
        BY <3>1, <3>2 DEF Mentions
      <4>. QED  BY <4>1, <4>2 DEF RowsCome
    <3>4. Recalled(s, y)
      BY <1>5, <3>1, <3>2 DEF Copied
    <3>5. CASE Goes(s, y) /\ y.step = "next"
      BY <1>1, <3>3, <3>4, <3>5, GoRemembers
    <3>6. CASE Calls(s, x, y) /\ x.step = "select" /\ x.rest = {}
      BY <1>1, <1>4, <3>3, <3>4, <3>6, CallRemembers
    <3>. QED  BY <3>1, <3>5, <3>6 DEF Copied
  <2>2. CASE CopyRefused(s)
    BY <1>1, <1>14, <2>2, CopyRefusedIs, ReturnRemembers, NoRowComes
  <2>. QED  BY <1>14, <2>1, <2>2
<1>15. user_file_info \subseteq t_user_file
  BY DEF user_file_info
<1>16. CASE getShareByLink(s)
  <2>1. CASE getShareByLink_select(s)
    <3>1. CASE EndsWith(s, "false", 0)
      BY <1>2, <1>3, <2>1, <3>1, LinkSelect DEF EndsWith
    <3>2. CASE \E x \in FrameRecord : Goes(s, x) /\ x.step = "next" /\ x.rest \subseteq user_file_info
      BY <1>1, <1>2, <1>7, <1>15, <2>1, <3>2, LinkSelect, GoRemembers
    <3>. QED  BY <2>1, <3>1, <3>2, LinkSelect
  <2>2. CASE getShareByLink_next(s)
    BY <1>14, <2>2 DEF getShareByLink_next, Copiers
  <2>3. CASE getShareByLink_reply(s)
    BY <1>2, <1>3, <2>3, LinkReply DEF EndsWith
  <2>. QED  BY <1>16, <2>1, <2>2, <2>3 DEF getShareByLink
<1>17. CASE addFolderByShareDir(s)
  <2>1. CASE addFolderByShareDir_select(s)
    BY <1>1, <1>2, <1>7, <1>15, <2>1, ContentsSelect, GoRemembers
  <2>2. CASE addFolderByShareDir_next(s)
    BY <1>14, <2>2 DEF addFolderByShareDir_next, Copiers
  <2>3. CASE addFolderByShareDir_end(s)
    BY <1>1, <1>2, <2>3, ContentsEnd, ReturnRemembers
  <2>. QED  BY <1>17, <2>1, <2>2, <2>3 DEF addFolderByShareDir
<1>18. ASSUME NEW step, NEW fid, MakerGoes(s, step, fid), Top(s).fn \in Makers, step # "selectId" PROVE Remembers(s)
  BY <1>1, <1>18, MakerRemembers
<1>19. "addFolder" \in Makers /\ "uploadFile" \in Makers
  BY DEF Makers
<1>20. Restart => Remembers(s)
  BY <1>3, RestartedIs
<1>21. CASE addFolder(s)
  <2>1. CASE addFolder_insertFile(s)
    BY <1>1, <1>8, <1>19, <2>1, AddFolderInsert, MakerRemembers, NoRowComes
  <2>2. CASE addFolder_selectId(s)
    BY <1>8, <1>18, <1>19, <1>20, <2>2, AddFolderSelect, NoRowComes
  <2>3. CASE addFolder_insertRel(s)
    BY <1>1, <1>8, <1>19, <2>3, AddFolderRelate, RelatedComes
  <2>4. CASE addFolder_mkdir(s)
    BY <1>1, <1>3, <2>4, AddFolderMkdir, ReturnRemembers, NoRowComes DEF EndsWith
  <2>. QED  BY <1>21, <2>1, <2>2, <2>3, <2>4 DEF addFolder
<1>22. CASE uploadFile(s)
  <2>1. CASE uploadFile_quick(s)
    BY <1>2, <1>8, <1>18, <1>19, <2>1, UploadQuick
  <2>2. CASE uploadFile_quickInsert(s)
    <3>1. Doing(s, "uploadFile", "quickInsert") /\ Related(s, "quickReply")
      BY <2>2, UploadRelate DEF uploadFile_quickInsert
    <3>. QED  BY <1>1, <1>8, <1>19, <3>1, RelatedComes
  <2>3. CASE uploadFile_open(s)
    BY <1>1, <1>8, <1>18, <1>19, <2>3, UploadOpen, ReturnRemembers, NoRowComes
  <2>4. CASE uploadFile_insertFile(s)
    BY <1>1, <1>8, <1>19, <2>4, UploadInsert, MakerRemembers, NoRowComes
  <2>5. CASE uploadFile_selectId(s)
    BY <1>2, <1>8, <1>18, <1>19, <1>20, <2>5, UploadSelect
  <2>6. CASE uploadFile_insertRel(s)
    <3>1. Doing(s, "uploadFile", "insertRel") /\ Related(s, "reply")
      BY <2>6, UploadRelate DEF uploadFile_insertRel
    <3>. QED  BY <1>1, <1>8, <1>19, <3>1, RelatedComes
  <2>7. CASE uploadFile_reply(s)
    BY <1>2, <1>3, <2>7, UploadReply DEF EndsWith
  <2>. QED  BY <1>22, <2>1, <2>2, <2>3, <2>4, <2>5, <2>6, <2>7 DEF uploadFile
<1>. QED  BY <1>10, <1>11, <1>12, <1>13, <1>16, <1>17, <1>21, <1>22 DEF Handler

-----------------------------------------------------------------------------
(* The row a request has inserted stays its own until it has the id.        *)
LEMMA SelectorIs ==
  ASSUME BaseInv, NEW s \in Slots, Selects(s)
  PROVE  /\ run[s] # Idle /\ Top(s).fn \in Makers /\ Rq(s).fn \in Makers /\ Rq(s) \in Requests
         /\ reply[Rq(s)].kind = "asked" /\ Rq(s).fn = Top(s).fn
<1>1. run[s] # Idle /\ Top(s).step = "selectId"
  BY DEF Selects
<1>. PICK f, o : f = Top(s) /\ o = Rq(s)
  OBVIOUS
<1>2. f \in FrameRecord /\ FrameOK(o, f) /\ f.step = "selectId"
  BY <1>1, Running
<1>3. f.fn \in RowFns \cup IdFns
  BY <1>2, FrameIs
<1>4. f.fn \in Makers
  BY <1>2, <1>3 DEF FrameOK, DeleteFileOK, ByIdOK, FolderOK, ShareFileOK, CopierOK, RowFns, IdFns, Makers
<1>. QED  BY <1>1, <1>4, MakerIs

LEMMA OneMaker ==
  ASSUME NEW r \in Requests, NEW q \in Requests, r.fn \in Makers, q.fn \in Makers, NEW f, FromPath(f, r), FromPath(f, q)
  PROVE  r = q
<1>1. PathOf(r) = PathOf(q) /\ KeyOf(r) = KeyOf(q)
  BY DEF FromPath
<1>2. r.fn = q.fn
  BY <1>1, RequestPath DEF Makers
<1>. QED  BY <1>1, <1>2, PathInjective DEF Makers

LEMMA NewRowStays ==
  ASSUME Grows, NEW r, NEW f, NewRow(r, f), t_file'[f].there, r.fn = "uploadFile" => ~Marked(f)',
         \A q \in t_user_file' : q.f_id # f, \A t \in Slots : run'[t] # Idle => ~Mentions(t, f)'
  PROVE  f \in Fids' /\ NewRow(r, f)'
BY DEF NewRow, FromPath, Grows, Kept, Unused

(* No handler's step takes from a row that is not referred to.              *)
LEMMA UnusedStays ==
  ASSUME BaseInv, NEW s \in Slots, run[s] # Idle, TablesStep(s), NEW f \in Fids, \A q \in t_user_file : q.f_id # f
  PROVE  t_file'[f] = t_file[f]
<1>1. t_file \in Seq(FileRecord) /\ Rq(s) \in Requests
  BY BaseIs, Running DEF DbOK
<1>2. ASSUME NEW fid, NEW dir, DeleteDone(Rq(s).u, fid, dir) PROVE t_file'[f] = t_file[f]
  BY <1>2 DEF DeleteDone
<1>3. CASE Rq(s).fn \in Makers /\ Alloc(NewFile(Rq(s)))
  BY <1>1, <1>3, NewFileIs, AllocIs
<1>. QED  BY <1>2, <1>3 DEF TablesStep

LEMMA PrivateKeeps ==
  ASSUME BaseInv, PrivateInv, NEW h \in Slots, Handler(h)
  PROVE  PrivateInv'
<1>1. HandlerStep(h) /\ Remembers(h) /\ RowsCome(h) /\ TablesStep(h)
  BY HandlerIs, HandlerRemembers, HandlerTables
<1>2. run[h] # Idle /\ Rq(h) \in Requests /\ Grows
  BY <1>1, Running, NoArrival DEF HandlerStep
<1>3. SUFFICES ASSUME NEW s \in Slots, Selects(s)' PROVE \E o : o = Rq(s)' /\ \E f \in Fids' : NewRow(o, f)'
  BY DEF PrivateInv
<1>4. Acts(h) /\ run'[s] # Idle /\ Top(s)'.step = "selectId"
  BY <1>1, <1>3 DEF Selects, HandlerStep, Falls
<1>5. \A t \in Slots \ {h} : run'[t] = run[t] /\ Rq(t)' = Rq(t) /\ Top(t)' = Top(t) /\ OnStack(t)' = OnStack(t)
  BY <1>4, OtherIs DEF Acts
<1>6. ASSUME NEW f, \A q \in t_user_file : q.f_id # f, \A t \in Slots : run[t] # Idle => ~Mentions(t, f), NEW t \in Slots, run'[t] # Idle
      PROVE  ~Mentions(t, f)'
  <2>1. CASE t = h
    BY <1>1, <1>2, <1>6, <2>1 DEF Remembers
  <2>2. CASE t # h
    BY <1>5, <1>6, <2>2 DEF Mentions
  <2>. QED  BY <2>1, <2>2
<1>7. CASE s = h
  <2>1. Top(h).fn \in Makers /\ Alloc(NewFile(Rq(h))) /\ t_user_file' = t_user_file
    BY <1>1, <1>4, <1>7 DEF Remembers
  <2>. PICK o : o = Rq(h)
    OBVIOUS
  <2>2. o.fn \in Makers /\ o \in Requests /\ Rq(s)' = o
    BY <1>2, <1>4, <1>7, <2>1, MakerIs DEF Acts
  <2>. PICK row : row = NewFile(o)
    OBVIOUS
  <2>3. row \in FileRecord /\ row.path = PathOf(o) /\ row.md5 = KeyOf(o) /\ row.there /\ (o.fn = "uploadFile" => row.state = 0)
    BY <2>2, NewFileIs
  <2>4. t_file \in Seq(FileRecord) /\ Alloc(row)
    BY <2>1, BaseIs DEF DbOK
  <2>5. PICK n \in Nat : n \notin Fids /\ Fids' = Fids \cup {n} /\ t_file'[n] = row
    BY <2>3, <2>4, AllocIs
  <2>6. FromPath(n, o)' /\ t_file'[n].there /\ (o.fn = "uploadFile" => ~Marked(n)')
    BY <2>3, <2>5 DEF FromPath, Marked
  <2>7. \A q \in t_user_file : q.f_id # n
    BY <2>5, RelationIs
  <2>8. ASSUME NEW t \in Slots, run[t] # Idle, NEW g \in OnStack(t), g.fn \in RowFns, NEW q \in g.rest PROVE q.f_id # n
    <3>1. FrameOK(Rq(t), g)
      BY <2>8, Running
    <3>2. RelationOK(q)
      BY <2>8, <3>1 DEF FrameOK, FolderOK, CopierOK, RowsOK, RowFns
    <3>. QED  BY <2>5, <3>2 DEF RelationOK
  <2>9. \A t \in Slots : run[t] # Idle => ~Mentions(t, n)
    BY <2>8 DEF Mentions
  <2>10. Unused(n)'
    BY <1>6, <2>1, <2>7, <2>9 DEF Unused
  <2>. QED  BY <2>2, <2>5, <2>6, <2>10 DEF NewRow
<1>8. CASE s # h
  <2>1. Selects(s) /\ Rq(s)' = Rq(s)
    BY <1>4, <1>5, <1>8 DEF Selects
  <2>. PICK o : o = Rq(s)
    OBVIOUS
  <2>2. o \in Requests /\ o.fn \in Makers /\ Rq(h) # o
    BY <1>2, <1>8, <2>1, SelectorIs DEF BaseInv
  <2>3. PICK f \in Fids : NewRow(o, f)
    BY <2>1 DEF PrivateInv
  <2>4. (\A q \in t_user_file : q.f_id # f) /\ (\A t \in Slots : run[t] # Idle => ~Mentions(t, f)) /\ FromPath(f, o)
        /\ t_file[f].there /\ (o.fn = "uploadFile" => ~Marked(f))
    BY <2>3 DEF NewRow, Unused
  <2>5. t_file'[f] = t_file[f]
    BY <1>1, <1>2, <2>4, UnusedStays
  <2>6. ~Relates(h, f)
    <3>1. SUFFICES ASSUME Relates(h, f) PROVE FALSE
      OBVIOUS
    <3>2. Rq(h).fn \in Makers /\ Top(h).fn = Rq(h).fn /\ Top(h).fid = f
      BY <1>2, <3>1, MakerIs DEF Relates
    <3>3. CASE Top(h).step = "insertRel"
      <4>1. FromPath(f, Rq(h))
        BY <1>2, <3>2, <3>3, MakerIs DEF AddFolderOK, UploadFileOK, Makers
      <4>. QED  BY <1>2, <2>2, <2>4, <3>2, <4>1, OneMaker
    <3>4. CASE Top(h).step = "quickInsert"
      <4>1. Top(h).fn = "uploadFile"
        BY <1>2, <3>2, <3>4, MakerIs DEF AddFolderOK, Makers
      <4>2. Marked(f) /\ t_file[f].md5 = Rq(h).md5 /\ Rq(h).md5 # "?"
        BY <1>2, <3>2, <3>4, <4>1, UploadStart DEF UploadFileOK
      <4>3. o.fn = "addFolder" /\ t_file[f].md5 = "?"
        BY <2>2, <2>4, <4>2, RequestPath DEF FromPath, Makers
      <4>. QED  BY <4>2, <4>3
    <3>. QED  BY <3>1, <3>3, <3>4 DEF Relates
  <2>7. \A q \in t_user_file' : q.f_id # f
    BY <1>1, <1>2, <2>4, <2>6 DEF RowsCome
  <2>8. \A t \in Slots : run'[t] # Idle => ~Mentions(t, f)'
    BY <1>6, <2>4
  <2>9. o.fn = "uploadFile" => ~Marked(f)'
    BY <2>4, <2>5 DEF Marked
  <2>10. f \in Fids' /\ NewRow(o, f)'
    BY <1>2, <2>3, <2>4, <2>5, <2>7, <2>8, <2>9, NewRowStays
  <2>. QED  BY <2>1, <2>10
<1>. QED  BY <1>7, <1>8

LEMMA PrivateStep ==
  ASSUME BaseInv, PrivateInv, [Next]_vars
  PROVE  PrivateInv'
<1>1. CASE \E h \in Slots : Handler(h)
  BY <1>1, PrivateKeeps
<1>2. ASSUME \A s \in Slots : Selects(s)' => Selects(s) /\ Rq(s)' = Rq(s), t_user_file' = t_user_file,
             \A t \in Slots : \A f : run'[t] # Idle /\ Mentions(t, f)' => run[t] # Idle /\ Mentions(t, f),
             Grows, \A f \in Fids : t_file'[f].there = t_file[f].there,
             \A s \in Slots : \A f \in Fids : Selects(s) /\ FromPath(f, Rq(s)) => t_file'[f].state = t_file[f].state
      PROVE  PrivateInv'
  <2>1. SUFFICES ASSUME NEW s \in Slots, Selects(s)' PROVE \E o : o = Rq(s)' /\ \E f \in Fids' : NewRow(o, f)'
    BY DEF PrivateInv
  <2>2. Selects(s) /\ Rq(s)' = Rq(s)
    BY <1>2, <2>1
  <2>. PICK o : o = Rq(s)
    OBVIOUS
  <2>3. PICK f \in Fids : NewRow(o, f)
    BY <2>2 DEF PrivateInv
  <2>4. (\A q \in t_user_file : q.f_id # f) /\ (\A t \in Slots : run[t] # Idle => ~Mentions(t, f)) /\ FromPath(f, o)
        /\ t_file[f].there /\ (o.fn = "uploadFile" => ~Marked(f))
    BY <2>3 DEF NewRow, Unused
  <2>5. t_file'[f].there /\ (o.fn = "uploadFile" => ~Marked(f)')
    BY <1>2, <2>2, <2>4 DEF Marked
  <2>6. f \in Fids' /\ NewRow(o, f)'
    BY <1>2, <2>3, <2>4, <2>5, NewRowStays
  <2>. QED  BY <2>2, <2>6
<1>3. ASSUME t_file' = t_file, t_user_file' = t_user_file, \A s \in Slots : Selects(s)' => Selects(s) /\ Rq(s)' = Rq(s),
             \A t \in Slots : \A f : run'[t] # Idle /\ Mentions(t, f)' => run[t] # Idle /\ Mentions(t, f)
      PROVE  PrivateInv'
  <2>1. Grows
    BY <1>3, BaseIs, SameGrows DEF DbOK
  <2>. QED  BY <1>2, <1>3, <2>1
<1>4. CASE \E r \in Requests : fileContentRq_update(r)
  <2>1. PICK r \in Requests : LastBlock(r)
    BY <1>4, LastBlockIs
  <2>. PICK k : k = reply[r].fid
    OBVIOUS
  <2>2. k \in Fids /\ FromPath(k, r) /\ t_file \in Seq(FileRecord) /\ t_file' = [t_file EXCEPT ![k].state = 1]
    BY <2>1, BaseIs DEF LastBlock, FromPath, DbOK
  <2>3. Grows /\ \A g \in Fids : t_file'[g].there = t_file[g].there /\ (g # k => t_file'[g] = t_file[g])
    BY <2>2, MarkIs
  <2>4. run' = run /\ t_user_file' = t_user_file
    BY <2>1 DEF LastBlock
  <2>5. \A s \in Slots : ~(Selects(s) /\ FromPath(k, Rq(s)))
    BY <2>1, <2>2, SelectorIs, OneMaker DEF LastBlock, Makers
  <2>6. \A s \in Slots : Selects(s)' => Selects(s) /\ Rq(s)' = Rq(s)
    BY <2>4 DEF Selects, Top, Rq
  <2>7. \A t \in Slots : \A f : run'[t] # Idle /\ Mentions(t, f)' => run[t] # Idle /\ Mentions(t, f)
    BY <2>4 DEF Mentions, OnStack
  <2>. QED  BY <1>2, <2>3, <2>4, <2>5, <2>6, <2>7
<1>5. CASE \E s \in Slots : CallFails(s)
  <2>1. PICK s \in Slots : CallFails(s)
    BY <1>5
  <2>2. UNCHANGED <<t_file, t_user_file>> /\ run[s] # Idle /\ Returns(s)
    BY <2>1, CallFailsIs
  <2>3. Acts(s)
    BY <2>2, ReturnsIs
  <2>4. run'[s] # Idle => OnStack(s)' \subseteq OnStack(s) /\ Top(s)'.step = "next"
    BY <2>2, ReturnsIs, Running
  <2>5. \A t \in Slots \ {s} : run'[t] = run[t] /\ Rq(t)' = Rq(t) /\ Top(t)' = Top(t) /\ OnStack(t)' = OnStack(t)
    BY <2>3, OtherIs DEF Acts
  <2>6. \A t \in Slots : Selects(t)' => Selects(t) /\ Rq(t)' = Rq(t)
    BY <2>4, <2>5 DEF Selects
  <2>7. \A t \in Slots : \A f : run'[t] # Idle /\ Mentions(t, f)' => run[t] # Idle /\ Mentions(t, f)
    BY <2>2, <2>4, <2>5 DEF Mentions
  <2>. QED  BY <1>3, <2>2, <2>6, <2>7
<1>6. CASE \E r \in Requests : Send(r)
  <2>1. PICK r \in Requests : Send(r)
    BY <1>6
  <2>2. PICK s \in Slots, x \in FrameRecord : Starts(r, s, x) /\ Begins(r, x)
    BY <2>1, SendIs
  <2>3. \A t \in Slots \ {s} : run'[t] # Idle => run[t] # Idle /\ Rq(t)' = Rq(t) /\ Top(t)' = Top(t) /\ OnStack(t)' = OnStack(t)
    BY <2>2 DEF Starts, Top, Rq, OnStack
  <2>4. x.step # "selectId" /\ (x.fn \in RowFns => x.rest = {})
    BY <2>2, RequestIs DEF Begins, Entries
  <2>5. \A t \in Slots : Selects(t)' => Selects(t) /\ Rq(t)' = Rq(t)
    BY <2>2, <2>3, <2>4 DEF Selects, Starts
  <2>6. \A t \in Slots : \A f : run'[t] # Idle /\ Mentions(t, f)' => run[t] # Idle /\ Mentions(t, f)
    BY <2>2, <2>3, <2>4 DEF Mentions, Starts
  <2>. QED  BY <1>3, <2>1, <2>5, <2>6, SendIs
<1>7. CASE crash
  BY <1>7, CrashIs, RestartedIs DEF PrivateInv, Selects
<1>8. CASE UNCHANGED vars
  BY <1>3, <1>8 DEF vars, db, Selects, Top, Rq, Mentions, OnStack
<1>. QED  BY <1>1, <1>4, <1>5, <1>6, <1>7, <1>8 DEF Next

LEMMA PrivateInit ==
  ASSUME Init
  PROVE  PrivateInv
BY DEF Init, PrivateInv, Selects

(* So the select always finds the row, and the process does not end there.  *)
LEMMA IdIsFound ==
  ASSUME BaseInv, PrivateInv, NEW s \in Slots, Selects(s)
  PROVE  Found(Rq(s)) # {}
BY DEF PrivateInv, NewRow, Found

-----------------------------------------------------------------------------
(* Rows whose folder is gone.                                               *)
Broken == {"call", "crash", "late"}

LEMMA HandlerActs ==
  ASSUME BaseInv, PrivateInv, NEW h \in Slots, Handler(h), ~Seen(Broken)'
  PROVE  Acts(h)
<1>1. HandlerStep(h) /\ "crash" \notin faults'.seen
  BY HandlerIs DEF Seen, Broken
<1>2. ~(Selects(h) /\ Found(Rq(h)) = {})
  BY IdIsFound
<1>. QED  BY <1>1, <1>2 DEF HandlerStep, Falls

LEMMA OthersDelete ==
  ASSUME BaseInv, NEW s \in Slots, run[s] # Idle, Rq(s).fn # "deleteFile"
  PROVE  \A q : ~CoveredBy(s, q)
<1>1. \A f \in OnStack(s) : f.fn # "deleteFolderById"
  BY Running DEF FrameOK, FolderOK
<1>. QED  BY <1>1 DEF CoveredBy, Covers

LEMMA DeletingIs ==
  ASSUME BaseInv, NEW s \in Slots, Handler(s), Rq(s).fn = "deleteFile"
  PROVE  deleteFile(s) \/ deleteFileById(s) \/ deleteFolderById(s)
<1>1. run[s] # Idle
  BY HandlerIs DEF HandlerStep
<1>2. FrameOK(Rq(s), Top(s))
  BY <1>1, Running
<1>3. Top(s).fn \notin {"shareFile", "getShareByLink", "addFolderByShareDir", "addFolder", "uploadFile"}
  BY <1>2 DEF FrameOK, ShareFileOK, CopierOK, AddFolderOK, UploadFileOK, Copiers
<1>4. \A fn : \A step : Doing(s, fn, step) => fn = Top(s).fn
  BY DEF Doing
<1>5. ~shareFile(s)
  BY <1>3, <1>4, SharePick, ShareUpdate, ShareReply DEF shareFile
<1>6. ~getShareByLink(s) /\ ~addFolderByShareDir(s)
  BY <1>3, <1>4, LinkSelect, LinkReply, ContentsSelect, ContentsEnd
     DEF getShareByLink, addFolderByShareDir, getShareByLink_next, addFolderByShareDir_next
<1>7. ~addFolder(s)
  BY <1>3, <1>4, AddFolderInsert, AddFolderSelect, AddFolderRelate, AddFolderMkdir DEF addFolder
<1>8. ~uploadFile(s)
  BY <1>3, <1>4, UploadQuick, UploadOpen, UploadInsert, UploadSelect, UploadReply
     DEF uploadFile, uploadFile_quickInsert, uploadFile_insertRel
<1>. QED  BY <1>5, <1>6, <1>7, <1>8 DEF Handler

(* A directory stays listed while its row does.                             *)
SameFolder(p, q) == p.u_id = q.u_id /\ p.f_id = q.f_id /\ p.f_dir = q.f_dir /\ p.f_name = q.f_name
LEMMA ListedStays ==
  ASSUME BaseInv, Grows, NEW u, NEW d, Listed(u, d),
         \A p \in t_user_file : p.u_id = u /\ Append(p.f_dir, p.f_name) = d /\ IsFolder(p.f_id) =>
            \E q \in t_user_file' : SameFolder(p, q)
  PROVE  Listed(u, d)'
<1>1. \A p \in t_user_file : IsFolder(p.f_id) => t_file'[p.f_id].type = "folder"
  BY RelationIs DEF Grows, Kept, IsFolder
<1>. QED  BY <1>1 DEF Listed, SameFolder, IsFolder

(* A row is as it was or new in a listed folder; then it has to keep its    *)
(* folder or the frame that will come to it.                                *)
Accounted(h, q) ==
  \E p : /\ SameFolder(p, q)
         /\ p \in t_user_file \/ Listed(p.u_id, p.f_dir)
         /\ Listed(p.u_id, p.f_dir) => Listed(q.u_id, q.f_dir)' \/ CoveredBy(h, q)'
         /\ CoveredBy(h, p) => CoveredBy(h, q)'

LEMMA OrphanKeeps ==
  ASSUME OrphanInv, NEW h \in Slots, Acts(h), faults.seen \subseteq faults'.seen,
         ~Seen(Broken)' => \A q \in t_user_file' : Accounted(h, q)
  PROVE  OrphanInv'
<1>1. SUFFICES ASSUME ~Seen(Broken)', NEW q \in t_user_file'
               PROVE  Listed(q.u_id, q.f_dir)' \/ \E s \in Slots : CoveredBy(s, q)'
  BY DEF OrphanInv, Broken
<1>2. ~Seen(Broken)
  BY <1>1 DEF Seen
<1>3. PICK p : /\ SameFolder(p, q)
               /\ p \in t_user_file \/ Listed(p.u_id, p.f_dir)
               /\ Listed(p.u_id, p.f_dir) => Listed(q.u_id, q.f_dir)' \/ CoveredBy(h, q)'
               /\ CoveredBy(h, p) => CoveredBy(h, q)'
  BY <1>1 DEF Accounted
<1>4. Listed(p.u_id, p.f_dir) \/ \E s \in Slots : CoveredBy(s, p)
  BY <1>2, <1>3 DEF OrphanInv, Broken
<1>5. ASSUME NEW s \in Slots, s # h, CoveredBy(s, p) PROVE CoveredBy(s, q)'
  <2>1. run'[s] = run[s] /\ Rq(s)' = Rq(s) /\ OnStack(s)' = OnStack(s)
    BY <1>5, OtherIs DEF Acts
  <2>2. \A f : Covers(f, p) => Covers(f, q)
    BY <1>3 DEF Covers, SameFolder
  <2>. QED  BY <1>3, <1>5, <2>1, <2>2 DEF CoveredBy, SameFolder
<1>. QED  BY <1>3, <1>4, <1>5

(* Handlers that delete nothing.                                            *)
LEMMA OrphanKeepsOther ==
  ASSUME BaseInv, PrivateInv, OrphanInv, NEW h \in Slots, Handler(h), Rq(h).fn # "deleteFile"
  PROVE  OrphanInv'
<1>1. HandlerStep(h) /\ TablesStep(h)
  BY HandlerIs, HandlerTables
<1>2. run[h] # Idle /\ Grows /\ faults.seen \subseteq faults'.seen
  BY <1>1, NoArrival DEF HandlerStep
<1>3. SUFFICES ASSUME ~Seen(Broken)' PROVE \A q \in t_user_file' : Accounted(h, q)
  <2>1. CASE Seen(Broken)'
    BY <2>1 DEF OrphanInv, Broken
  <2>2. CASE ~Seen(Broken)'
    BY <1>2, <1>3, <2>2, HandlerActs, OrphanKeeps
  <2>. QED  BY <2>1, <2>2
<1>4. \A p : ~CoveredBy(h, p)
  BY <1>2, OthersDelete
<1>5. CASE t_user_file \subseteq t_user_file' /\ \A q \in t_user_file' : q \in t_user_file \/ Listed(q.u_id, q.f_dir)
  <2>1. \A u, d : Listed(u, d) => Listed(u, d)'
    BY <1>2, <1>5, ListedStays DEF SameFolder
  <2>. QED  BY <1>4, <1>5, <2>1 DEF Accounted, SameFolder
<1>6. CASE \E row \in Relation : InsertRelation(row)
  <2>1. PICK row \in Relation : InsertRelation(row)
    BY <1>6
  <2>2. t_user_file' = t_user_file \cup {row} /\ (Listed(row.u_id, row.f_dir) \/ "late" \in faults'.seen)
    BY <2>1, InsertedIs DEF BaseInv, StateOK
  <2>. QED  BY <1>3, <1>5, <2>2 DEF Seen, Broken
<1>7. CASE \E fid \in Fids, link \in Links : Renumber(Rq(h).u, fid, Rq(h).dir, link)
  <2>1. PICK fid \in Fids, link \in Links : Renumber(Rq(h).u, fid, Rq(h).dir, link)
    BY <1>7
  <2>2. \A p \in t_user_file : SameFolder(p, Numbered(p, Rq(h).u, fid, Rq(h).dir, link))
    BY RelationIs, NumberedIs DEF SameFolder
  <2>3. \A p \in t_user_file : \E q \in t_user_file' : SameFolder(p, q)
    BY <2>1, <2>2 DEF Renumber
  <2>4. \A q \in t_user_file' : \E p \in t_user_file : SameFolder(p, q)
    BY <2>1, <2>2 DEF Renumber
  <2>5. \A u, d : Listed(u, d) => Listed(u, d)'
    BY <1>2, <2>3, ListedStays
  <2>. QED  BY <1>4, <2>4, <2>5 DEF Accounted, SameFolder
<1>. QED  BY <1>1, <1>5, <1>6, <1>7 DEF TablesStep

(* A deletion: each row that is left keeps a frame that will come to it.    *)
LEMMA StackCovers ==
  ASSUME BaseInv, NEW h \in Slots, run[h] # Idle, run'[h] # Idle, Rq(h)' = Rq(h), NEW q,
         \A f \in {Top(h)} : Covers(f, q) => \E g \in OnStack(h)' : Covers(g, q), Beneath(h) \subseteq OnStack(h)'
  PROVE  CoveredBy(h, q) => CoveredBy(h, q)'
<1>1. OnStack(h) = {Top(h)} \cup Beneath(h)
  BY Running
<1>. QED  BY <1>1 DEF CoveredBy

LEMMA ReturnCovers ==
  ASSUME BaseInv, NEW h \in Slots, run[h] # Idle, Returns(h), NEW q, ~Covers(Top(h), q)
  PROVE  CoveredBy(h, q) => CoveredBy(h, q)'
<1>1. CASE Top(h).fn \in Entries
  <2>1. OnStack(h) = {Top(h)}
    BY <1>1, Running
  <2>. QED  BY <2>1 DEF CoveredBy
<1>2. CASE run'[h] # Idle /\ Rq(h)' = Rq(h) /\ OnStack(h)' = Beneath(h)
  BY <1>2, StackCovers
<1>. QED  BY <1>1, <1>2, ReturnsIs

(* The frame that is to read a folder covers what is directly in it.        *)
LEMMA EntersIs ==
  ASSUME NEW h \in Slots, NEW x, Goes(h, x), x.fn = "deleteFolderById", x.step = "select", NEW q, q.u_id = Rq(h).u, q.f_dir = x.dest
  PROVE  CoveredBy(h, q)'
<1>1. run'[h] # Idle /\ Rq(h)' = Rq(h) /\ x \in OnStack(h)'
  BY GoesIs
<1>2. Covers(x, q)
  BY DEF Covers
<1>. QED  BY <1>1, <1>2 DEF CoveredBy

(* A step of a deletion leaves each row that stays its frame: the rows in a *)
(* folder are read when its frame gets to "next", and go one by one.        *)
LEMMA CoversFile ==
  ASSUME BaseInv, NEW h \in Slots, deleteFile(h) \/ deleteFileById(h)
  PROVE  run[h] # Idle /\ Acts(h) /\ \A q : CoveredBy(h, q) => CoveredBy(h, q)'
<1>1. \A fn : \A step : Doing(h, fn, step) => run[h] # Idle /\ Top(h).fn = fn
  BY DEF Doing
<1>2. run[h] # Idle /\ Top(h).fn # "deleteFolderById"
  BY <1>1, DeleteFileNext, DeleteFileReply, ByIdDelete, ByIdCount, ByIdRemove DEF deleteFile, deleteFileById
<1>3. \A q : ~Covers(Top(h), q)
  BY <1>2 DEF Covers
<1>4. ASSUME Returns(h) PROVE Acts(h) /\ \A q : CoveredBy(h, q) => CoveredBy(h, q)'
  BY <1>2, <1>3, <1>4, ReturnCovers, ReturnsIs
<1>5. ASSUME NEW x, Goes(h, x) PROVE Acts(h) /\ \A q : CoveredBy(h, q) => CoveredBy(h, q)'
  BY <1>2, <1>3, <1>5, StackCovers, GoesIs
<1>6. ASSUME NEW x, NEW y, Calls(h, x, y) PROVE Acts(h) /\ \A q : CoveredBy(h, q) => CoveredBy(h, q)'
  <2>1. Acts(h) /\ run'[h] # Idle /\ Rq(h)' = Rq(h) /\ Beneath(h) \subseteq OnStack(h)'
    BY <1>6, CallsIs
  <2>. QED  BY <1>2, <1>3, <2>1, StackCovers
<1>7. CASE deleteFile_reply(h)
  <2>1. Acts(h) /\ OnStack(h) = {Top(h)}
    <3>1. Top(h).fn \in Entries
      BY <1>1, <1>7, DeleteFileReply DEF Entries
    <3>. QED  BY <1>2, <1>7, <3>1, DeleteFileReply, EndedIs, Running
  <2>2. \A q : ~CoveredBy(h, q)
    BY <1>3, <2>1 DEF CoveredBy
  <2>. QED  BY <1>2, <2>1, <2>2
<1>8. CASE deleteFile_next(h) \/ deleteFileById(h)
  BY <1>2, <1>4, <1>5, <1>6, <1>8, DeleteFileNext, ByIdDelete, ByIdCount, ByIdRemove DEF deleteFileById
<1>. QED  BY <1>7, <1>8 DEF deleteFile

LEMMA CoversFolder ==
  ASSUME SchemaKeys, BaseInv, NEW h \in Slots, deleteFolderById(h)
  PROVE  run[h] # Idle /\ Acts(h) /\ \A q \in t_user_file' : CoveredBy(h, q) => CoveredBy(h, q)'
<1>1. \A fn : \A step : Doing(h, fn, step) => run[h] # Idle /\ Top(h).fn = fn /\ Top(h).step = step
  BY DEF Doing
<1>2. run[h] # Idle /\ Top(h).fn = "deleteFolderById"
  BY <1>1, FolderDelete, FolderSelect, FolderFile, FolderFolder, FolderEnd DEF deleteFolderById
<1>3. \A q : CoveredBy(h, q) => q.u_id = Rq(h).u
  BY DEF CoveredBy
<1>4. \A q, f : Covers(f, q) <=> /\ f.fn = "deleteFolderById"
                                 /\ \/ f.step = "delete" /\ f.fid = q.f_id /\ f.dir = q.f_dir
                                    \/ f.step = "select" /\ f.dest = q.f_dir
                                    \/ f.step = "next" /\ f.dest = q.f_dir /\ \E p \in f.rest : p.f_id = q.f_id
  BY DEF Covers
<1>5. ASSUME NEW x, Goes(h, x) PROVE Acts(h) /\ run'[h] # Idle /\ Rq(h)' = Rq(h) /\ x \in OnStack(h)' /\ Beneath(h) \subseteq OnStack(h)'
  BY <1>5, GoesIs
<1>6. CASE deleteFolderById_delete(h)
  <2>1. /\ DeleteDone(Rq(h).u, Top(h).fid, Top(h).dir) /\ faults' = faults /\ Top(h).fid \in Fids
        /\ Top(h).dest = Append(Top(h).dir, Name(Top(h).fid)) /\ Top(h).step = "delete"
    BY <1>1, <1>6, FolderDelete DEF FolderOK
  <2>2. PICK x \in FrameRecord : Goes(h, x) /\ x.fn = "deleteFolderById" /\ x.step = "select" /\ x.dest = Top(h).dest
    BY <1>6, FolderDelete
  <2>3. Acts(h) /\ run'[h] # Idle /\ Rq(h)' = Rq(h) /\ x \in OnStack(h)' /\ Beneath(h) \subseteq OnStack(h)'
    BY <1>5, <2>2
  <2>4. ASSUME NEW q \in t_user_file', CoveredBy(h, q) PROVE CoveredBy(h, q)'
    <3>1. ~Is(q, Rq(h).u, Top(h).fid, Top(h).dir) /\ q.u_id = Rq(h).u
      BY <1>3, <2>1, <2>4 DEF DeleteDone
    <3>2. ~Covers(Top(h), q)
      BY <1>4, <2>1, <3>1 DEF Is
    <3>. QED  BY <1>2, <2>3, <2>4, <3>2, StackCovers
  <2>. QED  BY <1>2, <2>3, <2>4
<1>7. CASE deleteFolderById_select(h)
  <2>1. PICK x \in FrameRecord : Goes(h, x) /\ x.fn = "deleteFolderById" /\ x.step = "next" /\ x.dest = Top(h).dest
                                 /\ x.rest = In(Rq(h).u, Top(h).dest)
    BY <1>7, FolderSelect
  <2>2. Acts(h) /\ run'[h] # Idle /\ Rq(h)' = Rq(h) /\ x \in OnStack(h)' /\ Beneath(h) \subseteq OnStack(h)'
    BY <1>5, <2>1
  <2>3. ASSUME NEW q \in t_user_file, CoveredBy(h, q) PROVE CoveredBy(h, q)'
    <3>1. t_file[q.f_id].there /\ q.u_id = Rq(h).u
      BY <1>3, <2>3 DEF BaseInv, TablesOK, KeysOK
    <3>2. Covers(Top(h), q) => q \in x.rest /\ q.f_dir = x.dest
      BY <1>1, <1>4, <1>7, <2>1, <3>1, FolderSelect DEF In, user_file_info
    <3>3. Covers(Top(h), q) => Covers(x, q)
      BY <1>4, <2>1, <3>2
    <3>. QED  BY <1>2, <2>2, <2>3, <3>3, StackCovers
  <2>. QED  BY <1>2, <1>7, <2>2, <2>3, FolderSelect DEF Still
<1>8. CASE deleteFolderById_file(h)
  <2>1. PICK r \in Top(h).rest, x \in FrameRecord :
          /\ r.f_id \in Fids /\ ~IsFolder(r.f_id) /\ r.f_dir = Top(h).dest /\ DeleteDone(Rq(h).u, r.f_id, Top(h).dest)
          /\ Goes(h, x) /\ x.fn = "deleteFolderById" /\ x.step = "next" /\ x.dest = Top(h).dest /\ x.rest = Top(h).rest \ {r}
    BY <1>8, FolderFile
  <2>2. Acts(h) /\ run'[h] # Idle /\ Rq(h)' = Rq(h) /\ x \in OnStack(h)' /\ Beneath(h) \subseteq OnStack(h)'
    BY <1>5, <2>1
  <2>3. faults.seen \subseteq faults'.seen /\ Top(h).step = "next"
    BY <1>1, <1>8, FolderFile
  <2>4. ASSUME NEW q \in t_user_file', CoveredBy(h, q) PROVE CoveredBy(h, q)'
    <3>1. ~Is(q, Rq(h).u, r.f_id, Top(h).dest) /\ q.u_id = Rq(h).u
      BY <1>3, <2>1, <2>4 DEF DeleteDone
    <3>2. Covers(Top(h), q) => Covers(x, q)
      BY <1>4, <2>1, <2>3, <3>1 DEF Is
    <3>. QED  BY <1>2, <2>2, <2>4, <3>2, StackCovers
  <2>. QED  BY <1>2, <2>2, <2>4
<1>9. CASE deleteFolderById_folder(h)
  <2>1. PICK r \in Top(h).rest, x \in FrameRecord, y \in FrameRecord :
          /\ Calls(h, x, y) /\ y.fn = "deleteFolderById" /\ y.step = "next" /\ y.dest = Top(h).dest /\ y.rest = Top(h).rest \ {r}
          /\ x.fn = "deleteFolderById" /\ x.step = "delete" /\ x.fid = r.f_id /\ x.dir = Top(h).dest
    BY <1>9, FolderFolder
  <2>2. Acts(h) /\ run'[h] # Idle /\ Rq(h)' = Rq(h) /\ x \in OnStack(h)' /\ y \in OnStack(h)' /\ Beneath(h) \subseteq OnStack(h)'
    BY <2>1, CallsIs
  <2>3. Top(h).step = "next" /\ Still
    BY <1>1, <1>9, FolderFolder
  <2>4. ASSUME NEW q \in t_user_file, CoveredBy(h, q) PROVE CoveredBy(h, q)'
    <3>1. Covers(Top(h), q) => Covers(x, q) \/ Covers(y, q)
      BY <1>4, <2>1, <2>3
    <3>. QED  BY <1>2, <2>2, <2>4, <3>1, StackCovers
  <2>. QED  BY <1>2, <2>2, <2>3, <2>4 DEF Still
<1>10. CASE deleteFolderById_end(h)
  <2>1. Still /\ Top(h).rest = {} /\ Returns(h) /\ Top(h).step = "next"
    BY <1>1, <1>10, FolderEnd
  <2>2. \A q : ~Covers(Top(h), q)
    BY <1>4, <2>1
  <2>3. Acts(h) /\ \A q : CoveredBy(h, q) => CoveredBy(h, q)'
    BY <1>2, <2>1, <2>2, ReturnCovers, ReturnsIs
  <2>. QED  BY <1>2, <2>3
<1>. QED  BY <1>6, <1>7, <1>8, <1>9, <1>10 DEF deleteFolderById

LEMMA OrphanStill ==
  ASSUME BaseInv, OrphanInv, NEW h \in Slots, Acts(h), Still, \A q \in t_user_file : CoveredBy(h, q) => CoveredBy(h, q)'
  PROVE  OrphanInv'
<1>1. Grows /\ t_user_file' = t_user_file /\ faults' = faults
  BY StillIs DEF Still
<1>2. \A u, d : Listed(u, d) => Listed(u, d)'
  BY <1>1, ListedStays DEF SameFolder
<1>3. \A q \in t_user_file' : Accounted(h, q)
  BY <1>1, <1>2 DEF Accounted, SameFolder
<1>. QED  BY <1>1, <1>3, OrphanKeeps

(* Of the folders only the one whose relation is deleted is not listed any  *)
(* longer.                                                                  *)
LEMMA OrphanDeletes ==
  ASSUME BaseInv, OrphanInv, NEW h \in Slots, run[h] # Idle, Acts(h), faults.seen \subseteq faults'.seen,
         NEW fid \in Fids, NEW dir, DeleteDone(Rq(h).u, fid, dir),
         \A q \in t_user_file' : IsFolder(fid) /\ q.u_id = Rq(h).u /\ q.f_dir = Append(dir, Name(fid)) => CoveredBy(h, q)',
         \A q \in t_user_file' : CoveredBy(h, q) => CoveredBy(h, q)'
  PROVE  OrphanInv'
<1>1. t_user_file' = {q \in t_user_file : ~Is(q, Rq(h).u, fid, dir)} /\ Grows
  BY DEF DeleteDone
<1>2. ASSUME NEW q \in t_user_file', Listed(q.u_id, q.f_dir) PROVE Listed(q.u_id, q.f_dir)' \/ CoveredBy(h, q)'
  <2>1. CASE \E p \in t_user_file : Is(p, Rq(h).u, fid, dir) /\ p.u_id = q.u_id /\ Append(p.f_dir, p.f_name) = q.f_dir /\ IsFolder(p.f_id)
    <3>1. PICK p \in t_user_file : Is(p, Rq(h).u, fid, dir) /\ p.u_id = q.u_id /\ Append(p.f_dir, p.f_name) = q.f_dir /\ IsFolder(p.f_id)
      BY <2>1
    <3>2. p.f_name = Name(fid) /\ p.f_dir = dir /\ IsFolder(fid) /\ p.u_id = Rq(h).u
      BY <3>1, RelationIs DEF Is, RelationOK
    <3>. QED  BY <1>2, <3>1, <3>2
  <2>2. CASE \A p \in t_user_file : p.u_id = q.u_id /\ Append(p.f_dir, p.f_name) = q.f_dir /\ IsFolder(p.f_id) => ~Is(p, Rq(h).u, fid, dir)
    <3>1. \A p \in t_user_file : p.u_id = q.u_id /\ Append(p.f_dir, p.f_name) = q.f_dir /\ IsFolder(p.f_id) =>
            \E r \in t_user_file' : SameFolder(p, r)
      BY <1>1, <2>2 DEF SameFolder
    <3>. QED  BY <1>1, <1>2, <3>1, ListedStays
  <2>. QED  BY <2>1, <2>2
<1>3. \A q \in t_user_file' : Accounted(h, q)
  BY <1>1, <1>2 DEF Accounted, SameFolder
<1>. QED  BY <1>3, OrphanKeeps

LEMMA OrphanKeepsFile ==
  ASSUME BaseInv, OrphanInv, NEW h \in Slots, deleteFile(h) \/ deleteFileById(h)
  PROVE  OrphanInv'
<1>1. run[h] # Idle /\ Acts(h) /\ \A q : CoveredBy(h, q) => CoveredBy(h, q)'
  BY CoversFile
<1>2. CASE deleteFile(h) \/ deleteFileById_count(h)
  BY <1>1, <1>2, DeleteFileNext, DeleteFileReply, ByIdCount, OrphanStill DEF deleteFile
<1>3. CASE deleteFileById_delete(h)
  <2>1. DeleteDone(Rq(h).u, Top(h).fid, Rq(h).dir) /\ faults' = faults /\ Top(h).fn = "deleteFileById"
    BY <1>3, ByIdDelete DEF Doing
  <2>2. Top(h).fid \in Fids /\ ~IsFolder(Top(h).fid)
    BY <1>1, <2>1, RemovingIs, NameIs DEF Removing
  <2>. QED  BY <1>1, <2>1, <2>2, OrphanDeletes
<1>4. CASE deleteFileById_remove(h)
  <2>1. UNCHANGED <<t_file, t_user_file, faults>>
    BY <1>4, ByIdRemove
  <2>2. Grows
    BY <2>1, BaseIs, SameGrows DEF DbOK
  <2>3. \A u, d : Listed(u, d) => Listed(u, d)'
    BY <2>1, <2>2, ListedStays DEF SameFolder
  <2>4. \A q \in t_user_file' : Accounted(h, q)
    BY <1>1, <2>1, <2>3 DEF Accounted, SameFolder
  <2>. QED  BY <1>1, <2>1, <2>4, OrphanKeeps
<1>. QED  BY <1>2, <1>3, <1>4 DEF deleteFileById

LEMMA OrphanKeepsFolder ==
  ASSUME SchemaKeys, BaseInv, OrphanInv, NEW h \in Slots, deleteFolderById(h)
  PROVE  OrphanInv'
<1>1. run[h] # Idle /\ Acts(h) /\ \A q \in t_user_file' : CoveredBy(h, q) => CoveredBy(h, q)'
  BY CoversFolder
<1>2. CASE deleteFolderById_delete(h)
  <2>1. /\ DeleteDone(Rq(h).u, Top(h).fid, Top(h).dir) /\ faults' = faults /\ Top(h).fid \in Fids
        /\ Top(h).dest = Append(Top(h).dir, Name(Top(h).fid))
    BY <1>2, FolderDelete DEF FolderOK
  <2>2. PICK x \in FrameRecord : Goes(h, x) /\ x.fn = "deleteFolderById" /\ x.step = "select" /\ x.dest = Top(h).dest
    BY <1>2, FolderDelete
  <2>3. ASSUME NEW q, q.u_id = Rq(h).u, q.f_dir = Append(Top(h).dir, Name(Top(h).fid)) PROVE CoveredBy(h, q)'
    BY <2>1, <2>2, <2>3, EntersIs
  <2>. QED  BY <1>1, <2>1, <2>3, OrphanDeletes
<1>3. CASE deleteFolderById_file(h)
  <2>1. PICK r \in Top(h).rest : r.f_id \in Fids /\ ~IsFolder(r.f_id) /\ DeleteDone(Rq(h).u, r.f_id, Top(h).dest)
    BY <1>3, FolderFile
  <2>2. faults.seen \subseteq faults'.seen
    BY <1>3, FolderFile
  <2>. QED  BY <1>1, <2>1, <2>2, OrphanDeletes
<1>4. CASE deleteFolderById_select(h) \/ deleteFolderById_folder(h) \/ deleteFolderById_end(h)
  <2>1. Still
    BY <1>4, FolderSelect, FolderFolder, FolderEnd
  <2>. QED  BY <1>1, <2>1, OrphanStill DEF Still
<1>. QED  BY <1>2, <1>3, <1>4 DEF deleteFolderById

LEMMA OrphanStep ==
  ASSUME SchemaKeys, BaseInv, PrivateInv, OrphanInv, [Next]_vars
  PROVE  OrphanInv'
<1>1. ASSUME NEW h \in Slots, Handler(h) PROVE OrphanInv'
  BY <1>1, DeletingIs, OrphanKeepsFile, OrphanKeepsFolder, OrphanKeepsOther
<1>2. ASSUME t_user_file' = t_user_file, Grows, faults.seen \subseteq faults'.seen,
             \A s \in Slots : \A q : CoveredBy(s, q) => CoveredBy(s, q)'
      PROVE  OrphanInv'
  <2>1. \A u, d : Listed(u, d) => Listed(u, d)'
    BY <1>2, ListedStays DEF SameFolder
  <2>2. ~Seen(Broken)' => ~Seen(Broken)
    BY <1>2 DEF Seen
  <2>3. SUFFICES ASSUME ~Seen(Broken)', NEW q \in t_user_file' PROVE Listed(q.u_id, q.f_dir)' \/ \E s \in Slots : CoveredBy(s, q)'
    BY DEF OrphanInv, Broken
  <2>. QED  BY <1>2, <2>1, <2>2, <2>3 DEF OrphanInv, Broken
<1>3. t_file' = t_file => Grows
  BY BaseIs, SameGrows DEF DbOK
<1>4. CASE \E r \in Requests : fileContentRq_update(r)
  <2>1. PICK r \in Requests : LastBlock(r)
    BY <1>4, LastBlockIs
  <2>2. Grows
    BY <2>1, BaseIs, MarkIs DEF LastBlock, FromPath, DbOK
  <2>3. run' = run /\ t_user_file' = t_user_file /\ faults' = faults
    BY <2>1 DEF LastBlock
  <2>4. \A s \in Slots : \A q : CoveredBy(s, q) => CoveredBy(s, q)'
    BY <2>3 DEF CoveredBy, Rq, OnStack
  <2>. QED  BY <1>2, <2>2, <2>3, <2>4
<1>5. CASE \E s \in Slots : CallFails(s)
  <2>1. "call" \in faults'.seen
    BY <1>5, CallFailsIs
  <2>. QED  BY <2>1 DEF OrphanInv, Seen
<1>6. CASE \E r \in Requests : Send(r)
  <2>1. PICK r \in Requests : Send(r)
    BY <1>6
  <2>2. PICK s \in Slots, x \in FrameRecord : Starts(r, s, x)
    BY <2>1, SendIs
  <2>3. \A t \in Slots : run[t] # Idle => run'[t] # Idle /\ Rq(t)' = Rq(t) /\ OnStack(t)' = OnStack(t)
    BY <2>2 DEF Starts, Rq, OnStack
  <2>4. \A t \in Slots : \A q : CoveredBy(t, q) => CoveredBy(t, q)'
    BY <2>3 DEF CoveredBy
  <2>. QED  BY <1>2, <1>3, <2>1, <2>4, SendIs
<1>7. CASE crash
  <2>1. "crash" \in faults'.seen
    BY <1>7, CrashIs
  <2>. QED  BY <2>1 DEF OrphanInv, Seen
<1>8. CASE UNCHANGED vars
  BY <1>2, <1>3, <1>8 DEF vars, db, CoveredBy, Rq, OnStack
<1>. QED  BY <1>1, <1>4, <1>5, <1>6, <1>7, <1>8 DEF Next

LEMMA OrphanInit ==
  ASSUME Init
  PROVE  OrphanInv
<1>1. t_file = t_file_0 /\ t_user_file = t_user_file_0
  BY DEF Init
<1>2. ASSUME NEW r \in t_user_file_0 PROVE Listed(r.u_id, r.f_dir)
  <2>1. \/ r.f_dir = <<>>
        \/ \E q \in t_user_file_0 : q.u_id = r.u_id /\ Append(q.f_dir, q.f_name) = r.f_dir /\ t_file_0[q.f_id].type = "folder"
    BY FilesAssumption
  <2>. QED  BY <1>1, <2>1 DEF Listed, IsFolder
<1>. QED  BY <1>1, <1>2 DEF OrphanInv

(* Rows refer to rows that are there, and with the keys of the schema every *)
(* row can be reached from the root of its user, but for what a deletion    *)
(* that is in progress, was broken off or came too early is to blame for.   *)
THEOREM TablesIntactHolds == SchemaKeys => (Spec => []TablesIntact)
<1>. SUFFICES ASSUME SchemaKeys PROVE Spec => []TablesIntact
  OBVIOUS
<1>1. BaseInv /\ PrivateInv /\ OrphanInv /\ [Next]_vars => (BaseInv /\ PrivateInv /\ OrphanInv)'
  BY BaseStep, BaseStays, PrivateStep, OrphanStep
<1>2. BaseInv => TypeOK
  <2>. SUFFICES ASSUME BaseInv PROVE TypeOK
    OBVIOUS
  <2>1. \A f \in Fids : t_file[f].state \in {0, 1} /\ t_file[f].there \in BOOLEAN
    BY NameIs
  <2>2. \A r \in t_user_file : r.u_id \in Users /\ r.f_id \in Fids /\ r.s_link \in Links \cup {0}
    BY RelationIs DEF Relation
  <2>3. KeysOK
    BY DEF BaseInv, TablesOK
  <2>4. \A r \in Requests : reply[r].kind \in Kinds
    BY DEF BaseInv, StateOK
  <2>. QED  BY <2>1, <2>2, <2>3, <2>4 DEF TypeOK, KeysOK, Kinds
<1>3. BaseInv /\ OrphanInv => NoOrphans
  <2>1. SUFFICES ASSUME BaseInv, OrphanInv, ~Seen(Broken), NEW r \in t_user_file, NEW s \in Slots, CoveredBy(s, r)
                 PROVE  run[s] # Idle /\ Rq(s).fn = "deleteFile" /\ Rq(s).u = r.u_id
    BY DEF NoOrphans, OrphanInv, Broken
  <2>2. run[s] # Idle /\ Rq(s).u = r.u_id
    BY <2>1 DEF CoveredBy
  <2>. QED  BY <2>1, <2>2, OthersDelete
<1>. QED  BY <1>1, <1>2, <1>3, BaseInit, PrivateInit, OrphanInit, PTL DEF Spec, TablesIntact

-----------------------------------------------------------------------------
(* What is kept on the disk.  A file and a folder never have the same path. *)
LEMMA FileOrFolder ==
  ASSUME BaseInv, NamesInv, NEW f \in Fids, NEW g \in Fids, IsFile(f), t_file[f].path = t_file[g].path
  PROVE  IsFile(g)
<1>1. Name(f) = Name(g) /\ t_file[f].md5 = Name(f)
  BY NameIs DEF Name, FileOK
<1>. QED  BY <1>1 DEF NamesInv

LEMMA NamesKeep ==
  ASSUME NamesInv, Grows,
         \A f \in Fids' \ Fids : IF t_file'[f].type = "file" THEN t_file'[f].md5 \in Hashes
                                 ELSE t_file'[f].path[Len(t_file'[f].path)] \notin Hashes
  PROVE  NamesInv'
BY DEF NamesInv, Grows, Kept, IsFile, Name

LEMMA NamesStep ==
  ASSUME NamesApart, BaseInv, NamesInv, [Next]_vars
  PROVE  NamesInv'
<1>1. CASE \E h \in Slots : Handler(h)
  <2>1. PICK h \in Slots : Handler(h)
    BY <1>1
  <2>2. TablesStep(h) /\ run[h] # Idle
    BY <2>1, HandlerTables, HandlerIs DEF HandlerStep
  <2>3. Grows /\ t_file \in Seq(FileRecord) /\ Rq(h) \in Requests
    BY <2>2, NoArrival, BaseIs, Running DEF DbOK
  <2>4. CASE Fids' = Fids
    BY <2>3, <2>4, NamesKeep
  <2>5. CASE Rq(h).fn \in Makers /\ Alloc(NewFile(Rq(h)))
    <3>. PICK o : o = Rq(h)
      OBVIOUS
    <3>. PICK row : row = NewFile(o)
      OBVIOUS
    <3>1. row \in FileRecord /\ row.path = PathOf(o) /\ row.md5 = KeyOf(o)
          /\ row.type = (IF o.fn = "uploadFile" THEN "file" ELSE "folder")
      BY <2>3, <2>5, NewFileIs
    <3>2. PICK n \in Nat : Fids' = Fids \cup {n} /\ t_file'[n] = row
      BY <2>3, <2>5, <3>1, AllocIs
    <3>3. CASE o.fn = "uploadFile"
      <4>1. row.md5 \in Hashes
        BY <2>3, <3>1, <3>3 DEF KeyOf, Hashes
      <4>. QED  BY <2>3, <3>1, <3>2, <3>3, <4>1, NamesKeep
    <3>4. CASE o.fn = "addFolder"
      <4>1. row.path[Len(row.path)] \notin Hashes
        BY <2>3, <3>1, <3>4, RequestPath DEF NamesApart
      <4>. QED  BY <2>3, <3>1, <3>2, <3>4, <4>1, NamesKeep
    <3>. QED  BY <2>5, <3>3, <3>4 DEF Makers
  <2>. QED  BY <2>2, <2>4, <2>5 DEF TablesStep, DeleteDone, Fids
<1>2. t_file' = t_file => NamesInv'
  BY DEF NamesInv, Fids, IsFile, Name
<1>3. CASE \E r \in Requests : fileContentRq_update(r)
  <2>1. PICK r \in Requests : LastBlock(r)
    BY <1>3, LastBlockIs
  <2>2. Grows /\ Fids' = Fids
    BY <2>1, BaseIs, MarkIs DEF LastBlock, FromPath, DbOK
  <2>. QED  BY <2>2, NamesKeep
<1>4. CASE \E s \in Slots : CallFails(s)
  BY <1>2, <1>4, CallFailsIs
<1>5. CASE (\E r \in Requests : Send(r)) \/ crash
  BY <1>2, <1>5, SendIs, CrashIs
<1>6. CASE UNCHANGED vars
  BY <1>2, <1>6 DEF vars, db
<1>. QED  BY <1>1, <1>3, <1>4, <1>5, <1>6 DEF Next

LEMMA NamesInit ==
  ASSUME NamesApart, Init
  PROVE  NamesInv
<1>1. t_file = t_file_0 /\ BaseInv
  BY BaseInit DEF Init
<1>2. \A f \in Fids : t_file[f].type \in {"file", "folder"}
  BY <1>1, NameIs
<1>. QED  BY <1>1, <1>2 DEF NamesApart, NamesInv, Hashes, Fids, IsFile, Name

Lost == {"call", "crash", "bytesKept", "refused"}
Inserts(s, p) == run[s] # Idle /\ Top(s).fn = "uploadFile" /\ Top(s).step = "insertFile" /\ PathOf(Rq(s)) = p

(* What a step of the handler in slot h has to show.                        *)
KeptStep(h) ==
  /\ \A f \in Fids : \A p : IsFile(f) /\ t_file[f].path = p /\ p \in disk' \ disk => Expected(p)'
  /\ \A f \in Fids : \A p : IsFile(f) /\ t_file[f].path = p /\ t_file[f].there /\ ~t_file'[f].there => Expected(p)'
  /\ \A f \in Fids' \ Fids : t_file'[f].there
  /\ \A p \in disk' : Removes(h, p) \/ Inserts(h, p) => Expected(p)'

LEMMA KeptCalm ==
  ASSUME BaseInv, NamesInv, KeptInv, NEW h \in Slots, Acts(h), Grows, faults.seen \subseteq faults'.seen, ~Seen(Lost)' => KeptStep(h)
  PROVE  KeptInv'
<1>1. SUFFICES ASSUME ~Seen(Lost)', NEW f \in Fids', NEW p, p = t_file'[f].path, IsFile(f)', p \in disk' PROVE Expected(p)'
  BY DEF KeptInv, Lost
<1>2. ~Seen(Lost) /\ KeptStep(h)
  BY <1>1 DEF Seen
<1>3. CASE f \notin Fids
  BY <1>1, <1>2, <1>3 DEF KeptStep, Expected
<1>4. CASE f \in Fids
  <2>1. IsFile(f) /\ t_file[f].path = p
    BY <1>1, <1>4 DEF Grows, Kept, IsFile
  <2>2. CASE p \notin disk
    BY <1>1, <1>2, <1>4, <2>1, <2>2 DEF KeptStep
  <2>3. CASE p \in disk
    <3>1. Expected(p)
      BY <1>2, <1>4, <2>1, <2>3 DEF KeptInv, Lost
    <3>2. CASE \E g \in Fids : t_file[g].there /\ t_file[g].path = p
      <4>1. PICK g \in Fids : t_file[g].there /\ t_file[g].path = p
        BY <3>2
      <4>2. IsFile(g)
        BY <1>4, <2>1, <4>1, FileOrFolder
      <4>3. CASE t_file'[g].there
        BY <4>1, <4>3 DEF Expected, Grows, Kept
      <4>4. CASE ~t_file'[g].there
        BY <1>2, <4>1, <4>2, <4>4 DEF KeptStep
      <4>. QED  BY <4>3, <4>4
    <3>3. CASE \E s \in Slots : Removes(s, p) \/ Inserts(s, p)
      <4>1. PICK s \in Slots : Removes(s, p) \/ Inserts(s, p)
        BY <3>3
      <4>2. CASE s = h
        BY <1>1, <1>2, <4>1, <4>2 DEF KeptStep
      <4>3. CASE s # h
        <5>1. run'[s] = run[s] /\ Rq(s)' = Rq(s) /\ Top(s)' = Top(s)
          BY <4>3, OtherIs DEF Acts
        <5>2. CASE Removes(s, p)
          <6>. PICK k : k = Top(s).fid
            OBVIOUS
          <6>1. k \in Fids
            BY <5>2, RemovingIs DEF Removes, Removing
          <6>. QED  BY <5>1, <5>2, <6>1 DEF Removes, Expected, Grows, Kept
        <5>3. CASE Inserts(s, p)
          BY <5>1, <5>3 DEF Inserts, Expected
        <5>. QED  BY <4>1, <5>2, <5>3
      <4>. QED  BY <4>2, <4>3
    <3>. QED  BY <3>1, <3>2, <3>3 DEF Expected, Inserts
  <2>. QED  BY <2>2, <2>3
<1>. QED  BY <1>3, <1>4

LEMMA KeptQuiet ==
  ASSUME BaseInv, NEW h \in Slots, t_file' = t_file, Top(h).fn # "deleteFileById",
         Top(h).fn = "uploadFile" => Top(h).step # "insertFile",
         \A f \in Fids : IsFile(f) => t_file[f].path \notin disk' \ disk
  PROVE  KeptStep(h)
BY DEF KeptStep, Removes, Inserts, Fids

(* Deletions.  A file whose row is taken has the frame that asks for it;    *)
(* when the frame goes, the bytes have gone, or somebody else has the file. *)
LEMMA KeptKeepsById ==
  ASSUME BaseInv, NEW h \in Slots, deleteFileById(h)
  PROVE  KeptStep(h)
<1>. PICK k : k = Top(h).fid
  OBVIOUS
<1>1. \A p : ~Inserts(h, p)
  BY ByIdDelete, ByIdCount, ByIdRemove DEF deleteFileById, Inserts, Doing
<1>2. \A fn : \A step : Doing(h, fn, step) => run[h] # Idle /\ Top(h).fn = fn
  BY DEF Doing
<1>3. \A p : Removes(h, p) => t_file[k].path = p /\ k \in Fids
  BY RemovingIs DEF Removes, Removing
<1>4. ASSUME NEW x, Goes(h, x), x.fn = "deleteFileById", x.fid = k
      PROVE  \A p : t_file'[k].path = p => Removes(h, p)' /\ Expected(p)'
  <2>1. run'[h] # Idle /\ Top(h)'.fn = "deleteFileById" /\ Top(h)'.fid = k
    BY <1>4, GoesIs
  <2>2. \A p : t_file'[k].path = p => Removes(h, p)'
    BY <2>1 DEF Removes
  <2>. QED  BY <2>2 DEF Expected
<1>5. CASE deleteFileById_delete(h)
  <2>1. disk' = disk /\ DeleteDone(Rq(h).u, k, Rq(h).dir)
    BY <1>5, ByIdDelete
  <2>2. PICK x : Goes(h, x) /\ x.fn = "deleteFileById" /\ x.fid = k
    BY <1>5, ByIdDelete
  <2>3. Fids' = Fids /\ \A f \in Fids : t_file'[f].path = t_file[f].path /\ (f # k => t_file'[f] = t_file[f])
    BY <2>1 DEF DeleteDone, Grows, Kept
  <2>4. \A p : t_file'[k].path = p => Expected(p)'
    BY <1>4, <2>2
  <2>. QED  BY <1>1, <1>3, <2>1, <2>3, <2>4 DEF KeptStep
<1>6. CASE deleteFileById_count(h)
  <2>1. Still /\ run[h] # Idle /\ Top(h).fn = "deleteFileById"
    BY <1>2, <1>6, ByIdCount
  <2>2. \A p : Removes(h, p) => Expected(p)'
    <3>1. CASE t_file[k].there
      BY <1>3, <2>1, <3>1 DEF Still, Expected, Fids
    <3>2. CASE ~t_file[k].there
      <4>1. PICK x : Goes(h, x) /\ x.fn = "deleteFileById" /\ x.fid = k
        BY <1>6, <3>2, ByIdCount
      <4>. QED  BY <1>3, <1>4, <2>1, <4>1 DEF Still
    <3>. QED  BY <3>1, <3>2
  <2>. QED  BY <1>1, <2>1, <2>2 DEF KeptStep, Still, Fids
<1>7. CASE deleteFileById_remove(h)
  <2>1. t_file' = t_file /\ disk' = disk \ {t_file[k].path}
    BY <1>7, ByIdRemove
  <2>. QED  BY <1>1, <1>3, <2>1 DEF KeptStep, Fids
<1>. QED  BY <1>5, <1>6, <1>7 DEF deleteFileById

LEMMA KeptKeepsFolder ==
  ASSUME BaseInv, NEW h \in Slots, deleteFolderById(h), ~Seen(Lost)'
  PROVE  KeptStep(h)
<1>1. \A step : Doing(h, "deleteFolderById", step) => run[h] # Idle /\ Top(h).fn = "deleteFolderById"
  BY DEF Doing
<1>2. Still /\ Top(h).fn = "deleteFolderById" => KeptStep(h)
  BY KeptQuiet DEF Still
<1>3. CASE deleteFolderById_delete(h)
  <2>1. disk' = disk /\ DeleteDone(Rq(h).u, Top(h).fid, Top(h).dir) /\ IsFolder(Top(h).fid) /\ Top(h).fn = "deleteFolderById"
    BY <1>1, <1>3, FolderDelete DEF FolderOK
  <2>2. Fids' = Fids /\ \A f \in Fids : IsFile(f) => t_file'[f] = t_file[f]
    BY <2>1, NameIs DEF DeleteDone
  <2>. QED  BY <2>1, <2>2 DEF KeptStep, Removes, Inserts
<1>4. CASE deleteFolderById_file(h)
  <2>1. "bytesKept" \notin faults'.seen
    BY DEF Seen, Lost
  <2>2. t_file' = t_file /\ disk' = disk /\ Top(h).fn = "deleteFolderById"
    BY <1>1, <1>4, <2>1, FolderFile
  <2>. QED  BY <2>2, KeptQuiet
<1>5. CASE deleteFolderById_select(h) \/ deleteFolderById_folder(h) \/ deleteFolderById_end(h)
  BY <1>1, <1>2, <1>5, FolderSelect, FolderFolder, FolderEnd
<1>. QED  BY <1>3, <1>4, <1>5 DEF deleteFolderById

(* The directory of a new folder is not where a file is kept.               *)
LEMMA KeptKeepsMaker ==
  ASSUME NamesApart, BaseInv, NamesInv, NEW h \in Slots, addFolder(h) \/ uploadFile(h), ~Seen(Lost)'
  PROVE  KeptStep(h)
<1>1. \A fn : \A step : Doing(h, fn, step) => run[h] # Idle /\ Top(h).fn = fn /\ Top(h).step = step
  BY DEF Doing
<1>2. ASSUME NEW fn \in Makers, NEW step, Doing(h, fn, step), step # "insertFile", UNCHANGED <<t_file, disk>>
      PROVE  KeptStep(h)
  BY <1>1, <1>2, KeptQuiet DEF Makers
<1>3. ASSUME NEW fn \in Makers, Doing(h, fn, "insertFile"), Alloc(NewFile(Rq(h))), disk' = disk
      PROVE  KeptStep(h)
  <2>. PICK o : o = Rq(h)
    OBVIOUS
  <2>. PICK row : row = NewFile(o)
    OBVIOUS
  <2>1. run[h] # Idle /\ Top(h).fn = fn /\ o \in Requests /\ o.fn \in Makers /\ t_file \in Seq(FileRecord)
    BY <1>1, <1>3, MakerIs, BaseIs DEF DbOK
  <2>2. row \in FileRecord /\ row.path = PathOf(o) /\ row.there
    BY <2>1, NewFileIs
  <2>3. PICK n \in Nat : n \notin Fids /\ Fids' = Fids \cup {n} /\ t_file'[n] = row /\ \A f \in Fids : t_file'[f] = t_file[f]
    BY <1>3, <2>1, <2>2, AllocIs
  <2>4. \A p : PathOf(o) = p => Expected(p)'
    BY <2>2, <2>3 DEF Expected
  <2>5. Top(h).fn # "deleteFileById"
    BY <2>1 DEF Makers
  <2>. QED  BY <1>3, <2>2, <2>3, <2>4, <2>5 DEF KeptStep, Removes, Inserts
<1>4. CASE addFolder_mkdir(h)
  <2>1. Top(h).fn = "addFolder" /\ t_file' = t_file /\ run[h] # Idle
    BY <1>1, <1>4, AddFolderMkdir
  <2>2. Rq(h) \in Requests /\ Rq(h).fn = "addFolder"
    BY <2>1, MakerIs DEF Makers
  <2>3. PathOf(Rq(h))[Len(PathOf(Rq(h)))] \notin Hashes
    BY <2>2, RequestPath DEF NamesApart
  <2>4. ASSUME NEW f \in Fids, IsFile(f) PROVE t_file[f].path # PathOf(Rq(h))
    <3>1. Name(f) \in Hashes
      BY <2>4, NameIs DEF NamesInv, FileOK
    <3>. QED  BY <2>3, <3>1 DEF Name
  <2>5. disk' \ disk \subseteq {PathOf(Rq(h))}
    BY <1>4, AddFolderMkdir
  <2>. QED  BY <2>1, <2>4, <2>5, KeptQuiet
<1>5. CASE uploadFile_open(h)
  <2>1. t_file' = t_file /\ run[h] # Idle /\ Top(h).fn = "uploadFile" /\ Top(h).step = "open"
    BY <1>1, <1>5, UploadOpen
  <2>2. CASE disk' = disk
    BY <2>1, <2>2, KeptQuiet
  <2>3. CASE disk' = disk \cup {PathOf(Rq(h))} /\ MakerGoes(h, "insertFile", Top(h).fid)
    <3>. PICK o : o = Rq(h)
      OBVIOUS
    <3>1. run'[h] # Idle /\ Rq(h)' = o /\ Top(h)'.fn = "uploadFile" /\ Top(h)'.step = "insertFile"
      BY <2>1, <2>3, MakerStep
    <3>2. \A p : p = PathOf(o) => Expected(p)'
      BY <3>1 DEF Expected
    <3>. QED  BY <2>1, <2>3, <3>2 DEF KeptStep, Removes, Inserts, Fids
  <2>. QED  BY <1>5, <2>2, <2>3, UploadOpen
<1>6. CASE addFolder_insertFile(h) \/ uploadFile_insertFile(h)
  BY <1>3, <1>6, AddFolderInsert, UploadInsert DEF Makers
<1>7. CASE addFolder_selectId(h) \/ addFolder_insertRel(h)
  BY <1>2, <1>7, AddFolderSelect, AddFolderRelate DEF Makers
<1>8. CASE uploadFile_quick(h) \/ uploadFile_selectId(h) \/ uploadFile_reply(h)
  BY <1>2, <1>8, UploadQuick, UploadSelect, UploadReply DEF Makers, Still
<1>9. CASE uploadFile_quickInsert(h) \/ uploadFile_insertRel(h)
  <2>1. PICK at \in {"quickInsert", "insertRel"} : Doing(h, "uploadFile", at) /\ UNCHANGED <<t_file, disk>>
    BY <1>9, UploadRelate DEF uploadFile_quickInsert, uploadFile_insertRel
  <2>. QED  BY <1>2, <2>1 DEF Makers
<1>. QED  BY <1>4, <1>5, <1>6, <1>7, <1>8, <1>9 DEF addFolder, uploadFile

LEMMA KeptKeepsHandler ==
  ASSUME NamesApart, BaseInv, NamesInv, NEW h \in Slots, Handler(h), ~Seen(Lost)'
  PROVE  KeptStep(h)
<1>1. ASSUME NEW fn, NEW step, Doing(h, fn, step), fn \in {"deleteFile", "shareFile", "getShareByLink", "addFolderByShareDir"},
             UNCHANGED <<t_file, disk>>
      PROVE  KeptStep(h)
  BY <1>1, KeptQuiet DEF Doing
<1>2. Still => UNCHANGED <<t_file, disk>>
  BY DEF Still
<1>3. CASE deleteFile(h)
  BY <1>1, <1>2, <1>3, DeleteFileNext, DeleteFileReply DEF deleteFile
<1>4. CASE shareFile(h)
  BY <1>1, <1>2, <1>4, SharePick, ShareUpdate, ShareReply DEF shareFile
<1>5. ASSUME NEW fn \in Copiers, NEW folderDest \in BOOLEAN, Doing(h, fn, "next"), CopyRow(h, folderDest) \/ CopyRefused(h)
      PROVE  KeptStep(h)
  BY <1>1, <1>5, CopyIs, CopyRefusedIs DEF Copiers
<1>6. CASE getShareByLink(h)
  <2>1. CASE getShareByLink_next(h)
    BY <1>5, <2>1 DEF getShareByLink_next, Copiers
  <2>. QED  BY <1>1, <1>2, <1>6, <2>1, LinkSelect, LinkReply DEF getShareByLink
<1>7. CASE addFolderByShareDir(h)
  <2>1. CASE addFolderByShareDir_next(h)
    BY <1>5, <2>1 DEF addFolderByShareDir_next, Copiers
  <2>. QED  BY <1>1, <1>2, <1>7, <2>1, ContentsSelect, ContentsEnd DEF addFolderByShareDir
<1>. QED  BY <1>3, <1>4, <1>6, <1>7, KeptKeepsById, KeptKeepsFolder, KeptKeepsMaker DEF Handler

LEMMA KeptHandler ==
  ASSUME NamesApart, BaseInv, PrivateInv, NamesInv, KeptInv, NEW h \in Slots, Handler(h)
  PROVE  KeptInv'
<1>1. SUFFICES ASSUME ~Seen(Lost)' PROVE KeptInv'
  BY DEF KeptInv, Lost
<1>2. HandlerStep(h) /\ "crash" \notin faults'.seen
  BY <1>1, HandlerIs DEF Seen, Lost
<1>3. ~(Selects(h) /\ Found(Rq(h)) = {})
  BY IdIsFound
<1>4. Acts(h) /\ faults.seen \subseteq faults'.seen /\ run[h] # Idle
  BY <1>2, <1>3 DEF HandlerStep, Falls
<1>5. Grows
  BY <1>4, HandlerTables, NoArrival
<1>6. KeptStep(h)
  BY <1>1, KeptKeepsHandler
<1>. QED  BY <1>4, <1>5, <1>6, KeptCalm

LEMMA KeptNext ==
  ASSUME NamesApart, BaseInv, PrivateInv, NamesInv, KeptInv, [Next]_vars
  PROVE  KeptInv'
<1>1. CASE \E h \in Slots : Handler(h)
  BY <1>1, KeptHandler
<1>2. ASSUME Grows, Fids' = Fids, disk' = disk, faults.seen \subseteq faults'.seen,
             \A f \in Fids : t_file'[f].there = t_file[f].there,
             \A s \in Slots : run[s] # Idle => run'[s] # Idle /\ Rq(s)' = Rq(s) /\ Top(s)' = Top(s)
      PROVE  KeptInv'
  <2>1. SUFFICES ASSUME ~Seen(Lost)', NEW f \in Fids, NEW p, p = t_file'[f].path, IsFile(f)', p \in disk' PROVE Expected(p)'
    BY <1>2 DEF KeptInv, Lost
  <2>2. ~Seen(Lost) /\ IsFile(f) /\ t_file[f].path = p /\ p \in disk
    BY <1>2, <2>1 DEF Seen, Grows, Kept, IsFile
  <2>3. Expected(p)
    BY <2>2 DEF KeptInv, Lost
  <2>4. CASE \E g \in Fids : t_file[g].there /\ t_file[g].path = p
    BY <1>2, <2>4 DEF Expected, Grows, Kept
  <2>5. CASE \E s \in Slots : Removes(s, p)
    <3>1. PICK s \in Slots : Removes(s, p)
      BY <2>5
    <3>. PICK k : k = Top(s).fid
      OBVIOUS
    <3>2. k \in Fids /\ t_file[k].path = p /\ run[s] # Idle /\ Top(s).fn = "deleteFileById"
      BY <3>1, RemovingIs DEF Removes, Removing
    <3>3. run'[s] # Idle /\ Top(s)'.fn = "deleteFileById" /\ Top(s)'.fid = k /\ t_file'[k].path = p
      BY <1>2, <3>2 DEF Grows, Kept
    <3>. QED  BY <3>3 DEF Removes, Expected
  <2>6. CASE \E s \in Slots : Inserts(s, p)
    BY <1>2, <2>6 DEF Inserts, Expected
  <2>. QED  BY <2>3, <2>4, <2>5, <2>6 DEF Expected, Inserts
<1>3. t_file' = t_file => Grows /\ Fids' = Fids
  BY BaseIs, SameGrows DEF DbOK
<1>4. CASE \E r \in Requests : fileContentRq_update(r)
  <2>1. PICK r \in Requests : LastBlock(r)
    BY <1>4, LastBlockIs
  <2>2. Grows /\ Fids' = Fids /\ \A f \in Fids : t_file'[f].there = t_file[f].there
    BY <2>1, BaseIs, MarkIs DEF LastBlock, FromPath, DbOK
  <2>3. run' = run /\ disk' = disk /\ faults' = faults
    BY <2>1 DEF LastBlock
  <2>. QED  BY <1>2, <2>2, <2>3 DEF Rq, Top
<1>5. CASE \E s \in Slots : CallFails(s)
  <2>1. "call" \in faults'.seen
    BY <1>5, CallFailsIs
  <2>. QED  BY <2>1 DEF KeptInv, Seen
<1>6. CASE \E r \in Requests : Send(r)
  <2>1. PICK r \in Requests : Send(r)
    BY <1>6
  <2>2. PICK s \in Slots, x \in FrameRecord : Starts(r, s, x)
    BY <2>1, SendIs
  <2>3. \A t \in Slots : run[t] # Idle => run'[t] # Idle /\ Rq(t)' = Rq(t) /\ Top(t)' = Top(t)
    BY <2>2 DEF Starts, Rq, Top
  <2>. QED  BY <1>2, <1>3, <2>1, <2>3, SendIs
<1>7. CASE crash
  <2>1. "crash" \in faults'.seen
    BY <1>7, CrashIs
  <2>. QED  BY <2>1 DEF KeptInv, Seen
<1>8. CASE UNCHANGED vars
  BY <1>2, <1>3, <1>8 DEF vars, db, Rq, Top
<1>. QED  BY <1>1, <1>4, <1>5, <1>6, <1>7, <1>8 DEF Next

LEMMA KeptInit ==
  ASSUME Init
  PROVE  KeptInv
BY BaseInit DEF KeptInv, Expected

(* Nothing is kept on the disk but what a file in the tables needs, or what *)
(* a handler in progress is about to remove or to give a row; the bytes of  *)
(* a deleted folder are the exception.                                      *)
THEOREM NothingIsKeptHolds == NamesApart => (Spec => []NothingIsKept)
<1>. SUFFICES ASSUME NamesApart PROVE Spec => []NothingIsKept
  OBVIOUS
<1>1. BaseInv /\ PrivateInv /\ NamesInv /\ KeptInv /\ [Next]_vars => (BaseInv /\ PrivateInv /\ NamesInv /\ KeptInv)'
  BY BaseStep, BaseStays, PrivateStep, NamesStep, KeptNext
<1>2. BaseInv /\ KeptInv => NothingIsKept
  <2>1. SUFFICES ASSUME BaseInv, NEW s \in Slots, NEW p, Removes(s, p) \/ Inserts(s, p) PROVE OnTheWay(p)
    BY DEF NothingIsKept, KeptInv, Expected, Inserts
  <2>2. CASE Removes(s, p)
    BY <2>2 DEF Removes, OnTheWay
  <2>3. CASE Inserts(s, p)
    BY <2>1, <2>3, UploadStart DEF Inserts, OnTheWay
  <2>. QED  BY <2>1, <2>2, <2>3
<1>. QED  BY <1>1, <1>2, BaseInit, PrivateInit, NamesInit, KeptInit, PTL DEF Spec

-----------------------------------------------------------------------------
(* What the client is told in a step of a handler: the handler's own        *)
(* request may be answered, others are dropped at most.                     *)
Replies(s) ==
  /\ \A r \in Requests \ {Rq(s)} : reply'[r] = reply[r] \/ reply'[r].kind = "dropped"
  /\ \A r \in Requests : reply'[r].kind = "none" => reply[r].kind = "none"

LEMMA SameReplies ==
  ASSUME NEW s, reply' = reply
  PROVE  Replies(s)
BY DEF Replies

LEMMA EndReplies ==
  ASSUME NEW s, NEW kind, NEW fid, EndsWith(s, kind, fid), kind # "none"
  PROVE  Replies(s)
BY DEF Replies, EndsWith

LEMMA ReturnReplies ==
  ASSUME NEW s, Returns(s)
  PROVE  Replies(s)
BY EndReplies, SameReplies DEF Returns

LEMMA RelatedReplies ==
  ASSUME NEW s \in Slots, NEW step, Related(s, step)
  PROVE  Replies(s)
BY MakerStep, SameReplies, ReturnReplies DEF Related

LEMMA HandlerReplies ==
  ASSUME BaseInv, NEW s \in Slots, Handler(s)
  PROVE  Replies(s)
<1>1. Restart => Replies(s)
  <2>1. FaultsOK'
    BY HandlerIs DEF HandlerStep, BaseInv, StateOK, FaultsOK
  <2>. QED  BY <2>1, RestartIs DEF Replies
<1>2. /\ \A x : Goes(s, x) => Replies(s)
      /\ \A x, y : Calls(s, x, y) => Replies(s)
      /\ \A step, fid : MakerGoes(s, step, fid) => Replies(s)
  BY SameReplies DEF Goes, Calls, MakerGoes
<1>3. CASE deleteFile(s)
  BY <1>2, <1>3, DeleteFileNext, DeleteFileReply, ReturnReplies, EndReplies DEF deleteFile
<1>4. CASE deleteFileById(s)
  BY <1>2, <1>4, ByIdDelete, ByIdCount, ByIdRemove, ReturnReplies DEF deleteFileById
<1>5. CASE deleteFolderById(s)
  BY <1>2, <1>5, FolderDelete, FolderSelect, FolderFile, FolderFolder, FolderEnd, ReturnReplies DEF deleteFolderById
<1>6. CASE shareFile(s)
  BY <1>2, <1>6, SharePick, ShareUpdate, ShareReply, EndReplies DEF shareFile
<1>7. ASSUME NEW fn \in Copiers, NEW folderDest \in BOOLEAN, Doing(s, fn, "next"), CopyRow(s, folderDest) \/ CopyRefused(s)
      PROVE  Replies(s)
  BY <1>7, CopyIs, CopyRefusedIs, SameReplies, ReturnReplies
<1>8. CASE getShareByLink(s)
  <2>1. CASE getShareByLink_next(s)
    BY <1>7, <2>1 DEF getShareByLink_next, Copiers
  <2>. QED  BY <1>2, <1>8, <2>1, LinkSelect, LinkReply, EndReplies DEF getShareByLink
<1>9. CASE addFolderByShareDir(s)
  <2>1. CASE addFolderByShareDir_next(s)
    BY <1>7, <2>1 DEF addFolderByShareDir_next, Copiers
  <2>. QED  BY <1>2, <1>9, <2>1, ContentsSelect, ContentsEnd, ReturnReplies DEF addFolderByShareDir
<1>10. CASE addFolder(s)
  BY <1>1, <1>2, <1>10, AddFolderInsert, AddFolderSelect, AddFolderRelate, AddFolderMkdir, RelatedReplies, EndReplies,
     ReturnReplies DEF addFolder
<1>11. CASE uploadFile(s)
  <2>1. uploadFile_quickInsert(s) \/ uploadFile_insertRel(s) => Replies(s)
    BY UploadRelate, RelatedReplies DEF uploadFile_quickInsert, uploadFile_insertRel
  <2>. QED  BY <1>1, <1>2, <1>11, <2>1, UploadQuick, UploadOpen, UploadInsert, UploadSelect, UploadReply, EndReplies,
               ReturnReplies DEF uploadFile
<1>. QED  BY <1>3, <1>4, <1>5, <1>6, <1>8, <1>9, <1>10, <1>11 DEF Handler

-----------------------------------------------------------------------------
(* Whose files go.  A row leaves the tables by a request of its user that   *)
(* names it or a folder above it.                                           *)
Spared(q) ==
  \/ IsFolder(q.f_id)
  \/ \E p \in t_user_file' : SameFolder(q, p)
  \/ DeletedBy(q.u_id, q.f_dir, t_file[q.f_id].md5)

LEMMA AllSpared ==
  ASSUME t_user_file \subseteq t_user_file'
  PROVE  \A q \in t_user_file : Spared(q)
BY DEF Spared, SameFolder

LEMMA SparedIs ==
  ASSUME BaseInv, NEW h \in Slots, Handler(h), NEW q \in t_user_file
  PROVE  Spared(q)
<1>1. run[h] # Idle /\ TablesStep(h)
  BY HandlerIs, HandlerTables DEF HandlerStep
<1>2. Rq(h) \in Requests /\ reply[Rq(h)].kind # "none"
  BY <1>1, Running
<1>3. q \in Relation /\ t_user_file \subseteq Relation
  BY RelationIs
<1>4. CASE Rq(h).fn # "deleteFile"
  <2>1. CASE \E row : InsertRelation(row)
    BY <2>1, AllSpared DEF InsertRelation
  <2>2. CASE \E fid \in Fids, link \in Links : Renumber(Rq(h).u, fid, Rq(h).dir, link)
    <3>1. PICK fid \in Fids, link \in Links : Renumber(Rq(h).u, fid, Rq(h).dir, link)
      BY <2>2
    <3>. PICK p : p = Numbered(q, Rq(h).u, fid, Rq(h).dir, link)
      OBVIOUS
    <3>2. SameFolder(q, p)
      BY <1>3, NumberedIs DEF SameFolder
    <3>3. p \in t_user_file'
      BY <3>1 DEF Renumber
    <3>. QED  BY <3>2, <3>3 DEF Spared
  <2>. QED  BY <1>1, <1>4, <2>1, <2>2, AllSpared DEF TablesStep
<1>5. CASE Rq(h).fn = "deleteFile"
  <2>1. \A u, fid, dir : DeleteDone(u, fid, dir) /\ q \notin t_user_file' => Is(q, u, fid, dir)
    BY DeletesRows
  <2>2. q \in t_user_file' => Spared(q)
    BY DEF Spared, SameFolder
  <2>3. CASE deleteFileById_delete(h)
    <3>1. ByIdOK(Rq(h), Top(h)) /\ DeleteDone(Rq(h).u, Top(h).fid, Rq(h).dir)
      BY <1>1, <2>3, ByIdDelete, DeleterIs DEF Doing
    <3>2. q \notin t_user_file' => DeletedBy(q.u_id, q.f_dir, t_file[q.f_id].md5)
      <4>1. SUFFICES ASSUME q \notin t_user_file' PROVE DeletedBy(q.u_id, q.f_dir, t_file[q.f_id].md5)
        OBVIOUS
      <4>2. q.u_id = Rq(h).u /\ q.f_id = Top(h).fid /\ q.f_dir = Rq(h).dir
        BY <2>1, <3>1, <4>1 DEF Is
      <4>3. ~IsFolder(q.f_id) /\ q.f_id \in Rq(h).ids
        BY <3>1, <4>2 DEF ByIdOK, IsFile, IsFolder
      <4>. QED  BY <1>2, <1>5, <4>2, <4>3 DEF DeletedBy
    <3>. QED  BY <2>2, <3>2 DEF Spared
  <2>4. CASE deleteFolderById_delete(h)
    <3>1. IsFolder(Top(h).fid) /\ DeleteDone(Rq(h).u, Top(h).fid, Top(h).dir)
      BY <2>4, FolderDelete DEF FolderOK
    <3>. QED  BY <2>1, <2>2, <3>1 DEF Spared, Is
  <2>5. CASE deleteFolderById_file(h)
    <3>1. PICK r \in Top(h).rest : DeleteDone(Rq(h).u, r.f_id, Top(h).dest)
      BY <2>5, FolderFile
    <3>2. PICK k \in Rq(h).ids : IsFolder(k) /\ IsBelow(Top(h).dest, Append(Rq(h).dir, Name(k)))
      BY <2>5, FolderFile DEF FolderOK
    <3>3. q \notin t_user_file' => q.u_id = Rq(h).u /\ q.f_dir = Top(h).dest
      BY <2>1, <3>1 DEF Is
    <3>4. q \notin t_user_file' => DeletedBy(q.u_id, q.f_dir, t_file[q.f_id].md5)
      BY <1>2, <1>5, <3>2, <3>3 DEF DeletedBy
    <3>. QED  BY <2>2, <3>4 DEF Spared
  <2>6. CASE deleteFile(h) \/ deleteFileById_count(h) \/ deleteFileById_remove(h) \/ deleteFolderById_select(h)
             \/ deleteFolderById_folder(h) \/ deleteFolderById_end(h)
    <3>1. t_user_file' = t_user_file
      BY <2>6, DeleteFileNext, DeleteFileReply, ByIdCount, ByIdRemove, FolderSelect, FolderFolder, FolderEnd DEF deleteFile, Still
    <3>. QED  BY <2>2, <3>1
  <2>. QED  BY <1>5, <2>3, <2>4, <2>5, <2>6, DeletingIs DEF deleteFileById, deleteFolderById
<1>. QED  BY <1>4, <1>5

(* What was deleted stays so: requests are not forgotten.                   *)
LEMMA DeletedStays ==
  ASSUME BaseInv, Grows, \A r \in Requests : reply'[r].kind = "none" => reply[r].kind = "none",
         NEW u, NEW dir, NEW md5, DeletedBy(u, dir, md5)
  PROVE  DeletedBy(u, dir, md5)'
<1>1. PICK d \in Requests : /\ d.fn = "deleteFile" /\ d.u = u /\ reply[d].kind # "none"
                            /\ \E fid \in d.ids : IF IsFolder(fid) THEN IsBelow(dir, Append(d.dir, Name(fid)))
                                                  ELSE dir = d.dir /\ md5 = t_file[fid].md5
  BY DEF DeletedBy
<1>2. PICK fid \in d.ids : IF IsFolder(fid) THEN IsBelow(dir, Append(d.dir, Name(fid)))
                           ELSE dir = d.dir /\ md5 = t_file[fid].md5
  BY <1>1
<1>3. fid \in Fids
  BY <1>1 DEF BaseInv, ReplyOK, Named
<1>4. t_file'[fid].path = t_file[fid].path /\ t_file'[fid].md5 = t_file[fid].md5 /\ t_file'[fid].type = t_file[fid].type
  BY <1>3 DEF Grows, Kept
<1>5. IsFolder(fid)' = IsFolder(fid) /\ Name(fid)' = Name(fid)
  BY <1>4 DEF IsFolder, Name
<1>6. reply'[d].kind # "none"
  BY <1>1
<1>. QED  BY <1>1, <1>2, <1>4, <1>5, <1>6 DEF DeletedBy

(* What an upload expects is a file that has its md5.                       *)
LEMMA ExpectsIs ==
  ASSUME BaseInv, NEW r \in Requests, NEW f, Expects(r, f)
  PROVE  FromPath(f, r) /\ IsFile(f) /\ t_file[f].md5 = r.md5 /\ r.md5 # "?"
<1>1. r.fn = "uploadFile" /\ r.md5 # "?"
  BY RequestIs DEF Expects
<1>2. FromPath(f, r)
  <2>1. CASE reply[r].kind = "uploading" /\ reply[r].fid = f
    BY <2>1 DEF BaseInv, ReplyOK
  <2>2. CASE \E s \in Slots : UploadAt(s, r, "reply") /\ Top(s).fid = f
    BY <2>2, UploadStart DEF UploadAt, UploadFileOK
  <2>. QED  BY <2>1, <2>2 DEF Expects
<1>3. f \in Fids /\ t_file[f].md5 = r.md5
  BY <1>1, <1>2 DEF FromPath, KeyOf
<1>. QED  BY <1>1, <1>2, <1>3, NameIs DEF FileOK

(* A step keeps OwnInv when rows go only where they may, and when what is   *)
(* newly promised or expected is there.                                     *)
LEMMA OwnKeeps ==
  ASSUME BaseInv, OwnInv, Grows, \A r \in Requests : reply'[r].kind = "none" => reply[r].kind = "none",
         \A q \in t_user_file : Spared(q),
         \A r \in Requests : Promised(r)' => Promised(r) \/ Has(r.u, r.dir, r.md5)' \/ DeletedBy(r.u, r.dir, r.md5)',
         \A r \in Requests : \A f : Expects(r, f)' => Expects(r, f) \/ HasRow(r.u, r.dir, f)'
  PROVE  OwnInv'
<1>1. \A u, dir, md5 : DeletedBy(u, dir, md5) => DeletedBy(u, dir, md5)'
  BY DeletedStays
<1>2. ASSUME NEW q \in t_user_file, ~IsFolder(q.f_id), NEW md5, md5 = t_file[q.f_id].md5
      PROVE  DeletedBy(q.u_id, q.f_dir, md5)' \/ \E p \in t_user_file' : SameFolder(q, p)
  BY <1>1, <1>2 DEF Spared
<1>3. ASSUME NEW u, NEW dir, NEW md5, md5 # "?", Has(u, dir, md5)
      PROVE  Has(u, dir, md5)' \/ DeletedBy(u, dir, md5)'
  <2>1. PICK q \in t_user_file : q.u_id = u /\ q.f_dir = dir /\ t_file[q.f_id].md5 = md5 /\ Marked(q.f_id)
    BY <1>3 DEF Has
  <2>2. q.f_id \in Fids /\ ~IsFolder(q.f_id)
    BY <1>3, <2>1, RelationIs, NameIs DEF FileOK
  <2>3. t_file'[q.f_id].md5 = md5 /\ t_file'[q.f_id].state = 1
    BY <2>1, <2>2 DEF Grows, Kept, Marked
  <2>4. CASE \E p \in t_user_file' : SameFolder(q, p)
    BY <2>1, <2>3, <2>4 DEF SameFolder, Has, Marked
  <2>. QED  BY <1>2, <2>1, <2>2, <2>4
<1>4. ASSUME NEW r \in Requests, NEW f, Expects(r, f), HasRow(r.u, r.dir, f)
      PROVE  HasRow(r.u, r.dir, f)' \/ DeletedBy(r.u, r.dir, r.md5)'
  <2>1. IsFile(f) /\ t_file[f].md5 = r.md5
    BY <1>4, ExpectsIs
  <2>2. PICK q \in t_user_file : Is(q, r.u, f, r.dir)
    BY <1>4 DEF HasRow
  <2>3. ~IsFolder(q.f_id)
    BY <2>1, <2>2 DEF IsFile, IsFolder, Is
  <2>4. CASE \E p \in t_user_file' : SameFolder(q, p)
    BY <2>2, <2>4 DEF SameFolder, HasRow, Is
  <2>. QED  BY <1>2, <2>1, <2>2, <2>3, <2>4 DEF Is
<1>5. ASSUME NEW q \in t_user_file_0
      PROVE  q.f_id \in Fids' /\ (IsFile(q.f_id)' => Has(q.u_id, q.f_dir, t_file[q.f_id].md5)'
                                                     \/ DeletedBy(q.u_id, q.f_dir, t_file[q.f_id].md5)')
  <2>1. q.f_id \in Fids
    BY DEF OwnInv
  <2>2. q.f_id \in Fids' /\ t_file'[q.f_id].md5 = t_file[q.f_id].md5 /\ IsFile(q.f_id)' = IsFile(q.f_id)
    BY <2>1 DEF Grows, Kept, IsFile
  <2>3. IsFile(q.f_id) => t_file[q.f_id].md5 # "?"
    BY <2>1, NameIs DEF FileOK
  <2>. PICK md5 : md5 = t_file[q.f_id].md5
    OBVIOUS
  <2>4. IsFile(q.f_id) => Has(q.u_id, q.f_dir, md5)' \/ DeletedBy(q.u_id, q.f_dir, md5)'
    BY <1>1, <1>3, <2>3 DEF OwnInv
  <2>. QED  BY <2>2, <2>4
<1>6. \A r \in Requests : r.fn = "uploadFile" => r.md5 # "?"
  BY RequestIs
<1>7. \A r \in Requests : Promised(r)' => Has(r.u, r.dir, r.md5)' \/ DeletedBy(r.u, r.dir, r.md5)'
  BY <1>1, <1>3, <1>6 DEF OwnInv, Promised
<1>8. \A r \in Requests : \A f : Expects(r, f)' => HasRow(r.u, r.dir, f)' \/ DeletedBy(r.u, r.dir, r.md5)'
  BY <1>1, <1>4 DEF OwnInv
<1>. QED  BY <1>5, <1>7, <1>8 DEF OwnInv

LEMMA OwnRestart ==
  ASSUME BaseInv, OwnInv, Restart, FaultsOK'
  PROVE  OwnInv'
<1>1. UNCHANGED <<t_file, t_user_file>> /\ \A s \in Slots : run'[s] = Idle
  BY RestartIs DEF db
<1>2. \A r \in Requests : /\ reply'[r].kind \notin {"asked", "uploading"}
                          /\ reply'[r].kind # "dropped" => reply'[r] = reply[r]
                          /\ reply'[r].kind = "none" <=> reply[r].kind = "none"
  BY RestartIs
<1>3. Grows
  BY <1>1, BaseIs, SameGrows DEF DbOK
<1>4. \A r \in Requests : Promised(r)' => Promised(r)
  BY <1>1, <1>2 DEF Promised, UploadAt
<1>5. \A r \in Requests : \A f : ~Expects(r, f)'
  BY <1>1, <1>2 DEF Expects, UploadAt
<1>6. \A q \in t_user_file : Spared(q)
  BY <1>1, AllSpared
<1>. QED  BY <1>2, <1>3, <1>4, <1>5, <1>6, OwnKeeps

LEMMA NotUpload ==
  ASSUME NEW h, Handler(h), ~uploadFile(h)
  PROVE  Top(h).fn # "uploadFile"
<1>1. CASE deleteFile(h) \/ deleteFileById(h)
  BY <1>1 DEF deleteFile, deleteFile_next, deleteFile_reply, deleteFileById, deleteFileById_delete, deleteFileById_count,
              deleteFileById_remove, Doing
<1>2. CASE deleteFolderById(h)
  BY <1>2 DEF deleteFolderById, deleteFolderById_delete, deleteFolderById_select, deleteFolderById_file,
              deleteFolderById_folder, deleteFolderById_end, Doing
<1>3. CASE shareFile(h) \/ getShareByLink(h) \/ addFolderByShareDir(h)
  BY <1>3 DEF shareFile, shareFile_pick, shareFile_update, shareFile_reply, getShareByLink, getShareByLink_select,
              getShareByLink_next, getShareByLink_reply, addFolderByShareDir, addFolderByShareDir_select,
              addFolderByShareDir_next, addFolderByShareDir_end, Doing
<1>4. CASE addFolder(h)
  BY <1>4 DEF addFolder, addFolder_insertFile, addFolder_selectId, addFolder_insertRel, addFolder_mkdir, Doing
<1>. QED  BY <1>1, <1>2, <1>3, <1>4 DEF Handler

LEMMA OwnKeepsOther ==
  ASSUME BaseInv, OwnInv, NEW h \in Slots, Handler(h), Top(h).fn # "uploadFile", run'[h] # Idle => Top(h)'.fn # "uploadFile"
  PROVE  OwnInv'
<1>1. HandlerStep(h) /\ Grows /\ Replies(h) /\ run[h] # Idle
  BY HandlerIs, HandlerTables, NoArrival, HandlerReplies DEF HandlerStep
<1>2. Rq(h) \in Requests /\ Rq(h).fn # "uploadFile"
  <2>1. Rq(h) \in Requests /\ FrameOK(Rq(h), Top(h)) /\ Top(h).fn \in RowFns \cup IdFns
    BY <1>1, Running, FrameIs
  <2>. QED  BY <2>1 DEF FrameOK, DeleteFileOK, ByIdOK, FolderOK, ShareFileOK, CopierOK, AddFolderOK, Copiers, RowFns, IdFns
<1>3. ASSUME NEW s \in Slots, NEW r \in Requests, NEW step, UploadAt(s, r, step)'
      PROVE  UploadAt(s, r, step) /\ Top(s)' = Top(s)
  <2>1. s # h /\ run'[s] # Idle
    BY <1>3 DEF UploadAt
  <2>2. run'[s] = run[s] /\ Rq(s)' = Rq(s) /\ Top(s)' = Top(s)
    BY <1>1, <2>1, OtherIs DEF HandlerStep, Acts, Falls
  <2>. QED  BY <1>3, <2>2 DEF UploadAt
<1>4. \A r \in Requests : r.fn = "uploadFile" => reply'[r] = reply[r] \/ reply'[r].kind = "dropped"
  BY <1>1, <1>2 DEF Replies
<1>5. \A r \in Requests : Promised(r)' => Promised(r)
  BY <1>3, <1>4 DEF Promised
<1>6. \A r \in Requests : \A f : Expects(r, f)' => Expects(r, f)
  BY <1>3, <1>4 DEF Expects
<1>7. \A q \in t_user_file : Spared(q)
  BY SparedIs
<1>. QED  BY <1>1, <1>5, <1>6, <1>7, OwnKeeps DEF Replies

(* uploadFile: it comes to an answer only behind the insert of its row.     *)
LEMMA OwnKeepsUpload ==
  ASSUME BaseInv, OwnInv, NEW h \in Slots, uploadFile(h), run[h] # Idle, Acts(h), NEW o, o = Rq(h),
         run'[h] # Idle /\ Top(h)'.step = "quickReply" => Has(o.u, o.dir, o.md5)',
         run'[h] # Idle /\ Top(h)'.step = "reply" => \E f : Top(h)'.fid = f /\ HasRow(o.u, o.dir, f)',
         reply'[o].kind = "ok" => UploadAt(h, o, "quickReply"),
         reply'[o].kind = "uploading" => UploadAt(h, o, "reply") /\ reply'[o].fid = Top(h).fid
  PROVE  OwnInv'
<1>1. Handler(h)
  BY DEF Handler
<1>2. Grows /\ Replies(h) /\ o \in Requests
  BY <1>1, HandlerIs, HandlerTables, NoArrival, HandlerReplies, Running DEF HandlerStep
<1>3. ASSUME NEW s \in Slots, s # h, NEW r \in Requests, NEW step, UploadAt(s, r, step)'
      PROVE  UploadAt(s, r, step) /\ Top(s)' = Top(s)
  BY <1>3, OtherIs DEF UploadAt, Acts
<1>4. \A r \in Requests : \A step : UploadAt(h, r, step)' => r = o /\ run'[h] # Idle /\ Top(h)'.step = step
  BY DEF UploadAt, Acts
<1>5. \A r \in Requests : r # o => reply'[r] = reply[r] \/ reply'[r].kind = "dropped"
  BY <1>2 DEF Replies
<1>6. ASSUME NEW r \in Requests, Promised(r)' PROVE Promised(r) \/ Has(r.u, r.dir, r.md5)'
  <2>1. CASE reply'[r].kind = "ok"
    BY <1>5, <1>6, <2>1 DEF Promised
  <2>2. CASE \E s \in Slots : UploadAt(s, r, "quickReply")'
    BY <1>3, <1>4, <1>6, <2>2 DEF Promised
  <2>. QED  BY <1>6, <2>1, <2>2 DEF Promised
<1>7. ASSUME NEW r \in Requests, NEW f, Expects(r, f)' PROVE Expects(r, f) \/ HasRow(r.u, r.dir, f)'
  <2>1. CASE reply'[r].kind = "uploading" /\ reply'[r].fid = f
    BY <1>5, <1>7, <2>1 DEF Expects
  <2>2. ASSUME NEW s \in Slots, UploadAt(s, r, "reply")', Top(s)'.fid = f PROVE Expects(r, f) \/ HasRow(r.u, r.dir, f)'
    BY <1>3, <1>4, <1>7, <2>2 DEF Expects
  <2>. QED  BY <1>7, <2>1, <2>2 DEF Expects
<1>8. \A q \in t_user_file : Spared(q)
  BY <1>1, SparedIs
<1>. QED  BY <1>2, <1>6, <1>7, <1>8, OwnKeeps DEF Replies

LEMMA OwnStepUpload ==
  ASSUME BaseInv, OwnInv, NEW h \in Slots, uploadFile(h)
  PROVE  OwnInv'
<1>. PICK o : o = Rq(h)
  OBVIOUS
<1>1. HandlerStep(h) /\ Handler(h)
  BY HandlerIs DEF Handler
<1>2. run[h] # Idle /\ Top(h).fn = "uploadFile"
  BY UploadQuick, UploadOpen, UploadInsert, UploadSelect, UploadReply DEF uploadFile, uploadFile_quickInsert, uploadFile_insertRel, Doing
<1>3. o \in Requests /\ reply[o].kind = "asked"
  BY <1>2, Running
<1>4. Acts(h) /\ ~(run'[h] # Idle /\ Top(h)'.step \in {"quickReply", "reply"}) /\ reply'[o].kind \notin {"ok", "uploading"} => OwnInv'
  BY <1>2, OwnKeepsUpload
<1>5. Returns(h) => OwnInv'
  <2>1. Returns(h) => Acts(h) /\ run'[h] = Idle /\ EndsWith(h, "dropped", 0)
    BY <1>2, ReturnsIs DEF Entries
  <2>. QED  BY <1>4, <2>1 DEF EndsWith
<1>6. \A step : \A fid : step \notin {"quickReply", "reply"} /\ MakerGoes(h, step, fid) => OwnInv'
  BY <1>3, <1>4, MakerStep
<1>7. Restart => OwnInv'
  BY <1>1, OwnRestart DEF HandlerStep, BaseInv, StateOK, FaultsOK
<1>8. ASSUME NEW step \in {"quickReply", "reply"}, Related(h, step), t_file' = t_file, Top(h).fid \in Fids,
             step = "quickReply" => t_file[Top(h).fid].md5 = o.md5 /\ Marked(Top(h).fid)
      PROVE  OwnInv'
  <2>1. CASE \E row \in Relation : /\ InsertRelation(row) /\ row.u_id = o.u /\ row.f_id = Top(h).fid /\ row.f_dir = o.dir
                                   /\ MakerGoes(h, step, Top(h).fid)
    <3>. PICK fid : fid = Top(h).fid
      OBVIOUS
    <3>1. PICK row : row \in t_user_file' /\ row.u_id = o.u /\ row.f_id = fid /\ row.f_dir = o.dir
      BY <2>1 DEF InsertRelation
    <3>2. Acts(h) /\ Top(h)'.step = step /\ Top(h)'.fid = fid /\ reply' = reply
      BY <2>1, MakerStep
    <3>3. HasRow(o.u, o.dir, fid)'
      BY <3>1 DEF HasRow, Is
    <3>4. step = "quickReply" => Has(o.u, o.dir, o.md5)'
      BY <1>8, <3>1 DEF Has, Marked
    <3>. QED  BY <1>2, <1>3, <1>8, <3>2, <3>3, <3>4, OwnKeepsUpload
  <2>. QED  BY <1>5, <1>8, <2>1 DEF Related
<1>9. CASE uploadFile_quick(h) \/ uploadFile_open(h) \/ uploadFile_insertFile(h) \/ uploadFile_selectId(h)
  BY <1>5, <1>6, <1>7, <1>9, UploadQuick, UploadOpen, UploadInsert, UploadSelect
<1>10. CASE uploadFile_quickInsert(h)
  <2>1. Doing(h, "uploadFile", "quickInsert") /\ t_file' = t_file /\ Related(h, "quickReply") /\ UploadFileOK(o, Top(h))
    BY <1>10, UploadRelate DEF uploadFile_quickInsert
  <2>. QED  BY <1>8, <2>1 DEF UploadFileOK, Doing
<1>11. CASE uploadFile_insertRel(h)
  <2>1. Doing(h, "uploadFile", "insertRel") /\ t_file' = t_file /\ Related(h, "reply") /\ Top(h).fid \in Fids
    BY <1>11, UploadRelate DEF uploadFile_insertRel
  <2>. QED  BY <1>8, <2>1
<1>12. CASE uploadFile_reply(h)
  <2>1. CASE Doing(h, "uploadFile", "quickReply") /\ EndsWith(h, "ok", 0)
    BY <1>2, <2>1, EndedIs, OwnKeepsUpload DEF EndsWith, UploadAt, Doing
  <2>2. CASE Doing(h, "uploadFile", "reply") /\ EndsWith(h, "uploading", Top(h).fid)
    BY <1>2, <2>2, EndedIs, OwnKeepsUpload DEF EndsWith, UploadAt, Doing
  <2>. QED  BY <1>12, <2>1, <2>2, UploadReply
<1>. QED  BY <1>9, <1>10, <1>11, <1>12 DEF uploadFile

LEMMA OwnStep ==
  ASSUME BaseInv, OwnInv, [Next]_vars
  PROVE  OwnInv'
<1>1. CASE \E h \in Slots : Handler(h)
  <2>1. PICK h \in Slots : Handler(h)
    BY <1>1
  <2>2. CASE uploadFile(h)
    BY <2>2, OwnStepUpload
  <2>3. CASE ~uploadFile(h)
    <3>1. OtherTop(h)
      BY <2>1, <2>3, OthersTop
    <3>2. Top(h).fn # "uploadFile"
      BY <2>1, <2>3, NotUpload
    <3>. QED  BY <2>1, <3>1, <3>2, OwnKeepsOther DEF OtherTop
  <2>. QED  BY <2>2, <2>3
<1>2. \A q \in t_user_file : t_user_file' = t_user_file => Spared(q)
  BY AllSpared
<1>3. t_file' = t_file => Grows
  BY BaseIs, SameGrows DEF DbOK
<1>4. CASE \E r \in Requests : fileContentRq_update(r)
  <2>1. PICK r \in Requests : LastBlock(r)
    BY <1>4, LastBlockIs
  <2>. PICK f : f = reply[r].fid
    OBVIOUS
  <2>2. Expects(r, f) /\ r.fn = "uploadFile"
    BY <2>1 DEF LastBlock, Expects
  <2>3. f \in Fids /\ t_file[f].md5 = r.md5
    BY <2>2, ExpectsIs DEF FromPath
  <2>4. Grows /\ t_file'[f].state = 1 /\ t_user_file' = t_user_file /\ run' = run
    BY <2>1, <2>3, BaseIs, MarkIs DEF LastBlock, DbOK
  <2>5. \A q \in Requests : reply'[q].kind = "none" => reply[q].kind = "none"
    BY <2>1 DEF LastBlock
  <2>6. Has(r.u, r.dir, r.md5)' \/ DeletedBy(r.u, r.dir, r.md5)'
    <3>1. CASE DeletedBy(r.u, r.dir, r.md5)
      BY <2>4, <2>5, <3>1, DeletedStays
    <3>2. CASE HasRow(r.u, r.dir, f)
      <4>1. t_file'[f].md5 = r.md5
        BY <2>3, <2>4 DEF Grows, Kept
      <4>. QED  BY <2>4, <3>2, <4>1 DEF HasRow, Has, Marked, Is
    <3>. QED  BY <2>2, <3>1, <3>2 DEF OwnInv
  <2>7. \A q \in Requests : q # r => reply'[q] = reply[q]
    BY <2>1 DEF LastBlock
  <2>8. \A q \in Requests : Promised(q)' => Promised(q) \/ q = r
    BY <2>4, <2>7 DEF Promised, UploadAt, Top, Rq
  <2>9. \A q \in Requests : \A g : Expects(q, g)' => Expects(q, g)
    <3>1. reply'[r].kind = "ok"
      BY <2>1 DEF LastBlock
    <3>. QED  BY <2>4, <2>7, <3>1 DEF Expects, UploadAt, Top, Rq
  <2>. QED  BY <1>2, <2>4, <2>5, <2>6, <2>8, <2>9, OwnKeeps
<1>5. ASSUME NEW s \in Slots, CallFails(s) PROVE OwnInv'
  <2>1. UNCHANGED <<t_file, t_user_file>> /\ Returns(s) /\ run[s] # Idle
    BY <1>5, CallFailsIs
  <2>2. Replies(s) /\ Acts(s)
    BY <2>1, ReturnReplies, ReturnsIs
  <2>3. run'[s] # Idle => Top(s)'.fn # "uploadFile"
    BY <2>1, ReturnTop DEF OtherTop
  <2>4. \A r \in Requests : reply'[r] = reply[r] \/ reply'[r].kind = "dropped"
    BY <2>1, ReturnsIs DEF EndsWith
  <2>5. ASSUME NEW t \in Slots, NEW r \in Requests, NEW step, UploadAt(t, r, step)'
        PROVE  UploadAt(t, r, step) /\ Top(t)' = Top(t)
    <3>1. t # s
      BY <2>3, <2>5 DEF UploadAt
    <3>. QED  BY <2>2, <2>5, <3>1, OtherIs DEF UploadAt, Acts
  <2>6. \A r \in Requests : Promised(r)' => Promised(r)
    BY <2>4, <2>5 DEF Promised
  <2>7. \A r \in Requests : \A f : Expects(r, f)' => Expects(r, f)
    BY <2>4, <2>5 DEF Expects
  <2>. QED  BY <1>2, <1>3, <2>1, <2>2, <2>6, <2>7, OwnKeeps DEF Replies
<1>6. CASE \E r \in Requests : Send(r)
  <2>1. PICK r \in Requests : Send(r)
    BY <1>6
  <2>2. PICK s \in Slots, x \in FrameRecord : Starts(r, s, x) /\ Begins(r, x)
    BY <2>1, SendIs
  <2>3. x.step \notin {"quickReply", "reply"}
    BY <2>2, RequestIs DEF Begins, Entries
  <2>4. ASSUME NEW t \in Slots, NEW q \in Requests, NEW step \in {"quickReply", "reply"}, UploadAt(t, q, step)'
        PROVE  UploadAt(t, q, step) /\ Top(t)' = Top(t)
    <3>1. t # s
      BY <2>2, <2>3, <2>4 DEF UploadAt, Starts
    <3>. QED  BY <2>2, <2>4, <3>1 DEF UploadAt, Starts, Top, Rq
  <2>5. \A q \in Requests : reply'[q] = reply[q] \/ (reply'[q].kind = "asked" /\ q = r)
    BY <2>2 DEF Starts
  <2>6. \A q \in Requests : Promised(q)' => Promised(q)
    BY <2>4, <2>5 DEF Promised
  <2>7. \A q \in Requests : \A f : Expects(q, f)' => Expects(q, f)
    BY <2>4, <2>5 DEF Expects
  <2>. QED  BY <1>2, <1>3, <2>1, <2>5, <2>6, <2>7, SendIs, OwnKeeps
<1>7. CASE crash
  <2>1. Restart /\ FaultsOK'
    BY <1>7, CrashIs DEF BaseInv, StateOK, FaultsOK
  <2>. QED  BY <2>1, OwnRestart
<1>8. CASE UNCHANGED vars
  BY <1>2, <1>3, <1>8, OwnKeeps DEF vars, db, Promised, Expects, UploadAt, Top, Rq
<1>. QED  BY <1>1, <1>4, <1>5, <1>6, <1>7, <1>8 DEF Next

LEMMA OwnInit ==
  ASSUME FilesComplete, Init
  PROVE  OwnInv
<1>1. t_file = t_file_0 /\ t_user_file = t_user_file_0 /\ run = [s \in Slots |-> Idle]
      /\ reply = [r \in Requests |-> [kind |-> "none", fid |-> 0]]
  BY DEF Init
<1>2. \A q \in t_user_file_0 : q.f_id \in Fids /\ Has(q.u_id, q.f_dir, t_file[q.f_id].md5)
  BY <1>1, TablesAssumption DEF Has, FilesComplete, Marked, Fids
<1>3. \A r \in Requests : ~Promised(r) /\ \A f : ~Expects(r, f)
  BY <1>1 DEF Promised, Expects, UploadAt
<1>. QED  BY <1>2, <1>3 DEF OwnInv

(* A user's files stay in its list whatever other users delete, share, copy *)
(* or upload, whatever calls fail and however often the server is started   *)
(* again: those it had, and those an upload was answered for.               *)
THEOREM OnlyOwnDeletionsHolds == SchemaKeys /\ FilesComplete => (Spec => []OnlyOwnDeletions)
<1>. SUFFICES ASSUME SchemaKeys, FilesComplete PROVE Spec => []OnlyOwnDeletions
  OBVIOUS
<1>1. BaseInv /\ OwnInv /\ [Next]_vars => (BaseInv /\ OwnInv)'
  BY BaseStep, BaseStays, OwnStep
<1>2. BaseInv /\ OwnInv => OnlyOwnDeletions
  <2>. SUFFICES ASSUME BaseInv, OwnInv, NEW x \in Had \cup Uploaded, ~DeletedBy(x[1], x[2], x[3])
                PROVE  \E q \in getFileList(x[1], x[2]) : t_file[q.f_id].md5 = x[3]
    BY DEF OnlyOwnDeletions
  <2>1. Has(x[1], x[2], x[3])
    <3>1. CASE x \in Had
      <4>1. PICK q \in t_user_file_0 : IsFile(q.f_id) /\ x = <<q.u_id, q.f_dir, t_file[q.f_id].md5>>
        BY <3>1 DEF Had
      <4>. QED  BY <4>1 DEF OwnInv
    <3>2. CASE x \in Uploaded
      <4>1. PICK r \in Requests : r.fn = "uploadFile" /\ reply[r].kind = "ok" /\ x = <<r.u, r.dir, r.md5>>
        BY <3>2 DEF Uploaded
      <4>. QED  BY <4>1 DEF OwnInv, Promised
    <3>. QED  BY <3>1, <3>2
  <2>2. PICK q \in t_user_file : q.u_id = x[1] /\ q.f_dir = x[2] /\ t_file[q.f_id].md5 = x[3] /\ Marked(q.f_id)
    BY <2>1 DEF Has
  <2>3. t_file[q.f_id].there
    BY DEF BaseInv, TablesOK, KeysOK
  <2>. QED  BY <2>2, <2>3 DEF getFileList, In, user_file_info, Marked
<1>. QED  BY <1>1, <1>2, BaseInit, OwnInit, PTL DEF Spec

-----------------------------------------------------------------------------
(* A deletion that nothing disturbs.  What it has still to do is on its     *)
(* stack: a frame keeps the duties of the one it replaces.                  *)
LEMMA NamedIs ==
  ASSUME BaseInv, NEW s \in Slots, run[s] # Idle, Rq(s).fn = "deleteFile", NEW fid \in Rq(s).ids
  PROVE  fid \in Fids
<1>1. Rq(s) \in Requests /\ reply[Rq(s)].kind # "none"
  BY Running
<1>. QED  BY <1>1 DEF BaseInv, ReplyOK, Named

LEMMA DueStays ==
  ASSUME BaseInv, Grows, NEW h \in Slots, run[h] # Idle, Rq(h).fn = "deleteFile", Top(h).fn # "deleteFile",
         run'[h] # Idle, Rq(h)' = Rq(h), Beneath(h) \subseteq OnStack(h)', NEW q, q.u_id = Rq(h).u, Due(h, q),
         CoveredBy(h, q) => CoveredBy(h, q)',
         Top(h).step = "delete" =>
           /\ ~(Top(h).fid = q.f_id /\ Top(h).dir = q.f_dir)
           /\ IsFolder(Top(h).fid) /\ q.f_dir = Append(Top(h).dir, Name(Top(h).fid)) => CoveredBy(h, q)'
  PROVE  Due(h, q)'
<1>1. OnStack(h) = {Top(h)} \cup Beneath(h) /\ \A f \in Beneath(h) : f.step = "next"
  BY Running
<1>2. \A fid : Waits(h, fid) => Waits(h, fid)'
  BY <1>1 DEF Waits
<1>3. \A fid, dir : AboutTo(h, fid, dir) => Top(h).step = "delete" /\ Top(h).fid = fid /\ Top(h).dir = dir
  BY <1>1 DEF AboutTo
<1>. PICK o : o = Rq(h)
  OBVIOUS
<1>4. \A fid \in o.ids : IsFolder(fid)' = IsFolder(fid) /\ Name(fid)' = Name(fid)
  BY NamedIs DEF Grows, Kept, IsFolder, Name
<1>5. ASSUME NEW fid \in o.ids
      PROVE  /\ q.f_id = fid /\ q.f_dir = o.dir => Waits(h, fid)'
             /\ IsFolder(fid) /\ q.f_dir = Append(o.dir, Name(fid)) => Waits(h, fid)' \/ CoveredBy(h, q)'
  BY <1>2, <1>3 DEF Due
<1>. QED  BY <1>4, <1>5 DEF Due

LEMMA DueDeletes ==
  ASSUME SchemaKeys, BaseInv, Grows, NEW h \in Slots, Rq(h).fn = "deleteFile", Handler(h), run'[h] # Idle,
         NEW q \in t_user_file', q \in t_user_file, q.u_id = Rq(h).u, Due(h, q)
  PROVE  Due(h, q)'
<1>1. \A fn : \A step : Doing(h, fn, step) => run[h] # Idle /\ Top(h).fn = fn /\ Top(h).step = step
  BY DEF Doing
<1>2. run[h] # Idle /\ Acts(h) /\ (CoveredBy(h, q) => CoveredBy(h, q)')
  BY CoversFile, CoversFolder, DeletingIs
<1>3. Rq(h)' = Rq(h)
  BY <1>2 DEF Acts
<1>4. ASSUME Returns(h) PROVE Beneath(h) \subseteq OnStack(h)'
  BY <1>4, ReturnsIs
<1>5. ASSUME NEW x, Goes(h, x) PROVE Beneath(h) \subseteq OnStack(h)'
  BY <1>5, GoesIs
<1>6. ASSUME Top(h).fn # "deleteFile", Top(h).step # "delete", Beneath(h) \subseteq OnStack(h)' PROVE Due(h, q)'
  BY <1>2, <1>3, <1>6, DueStays
<1>7. CASE deleteFile_next(h)
  <2>1. Still /\ Doing(h, "deleteFile", "next")
    BY <1>7, DeleteFileNext
  <2>2. CASE Returns(h)
    BY <1>1, <2>1, <2>2, ReturnsIs DEF Entries
  <2>3. ASSUME NEW fid \in Top(h).rest, NEW x \in FrameRecord, NEW y \in FrameRecord, Calls(h, x, y), y.fn = "deleteFile",
               y.rest = Top(h).rest \ {fid}, x.fn = (IF IsFolder(fid) THEN "deleteFolderById" ELSE "deleteFileById"),
               x.step = "delete", x.fid = fid, x.dir = Rq(h).dir
        PROVE  Due(h, q)'
    <3>. PICK o : o = Rq(h)
      OBVIOUS
    <3>1. OnStack(h) = {Top(h)}
      BY <1>1, <1>2, <2>1, Running DEF Entries
    <3>2. x \in OnStack(h)' /\ y \in OnStack(h)'
      BY <2>3, CallsIs
    <3>3. AboutTo(h, fid, o.dir)'
      BY <2>3, <3>2 DEF AboutTo
    <3>4. \A k : Waits(h, k) => Waits(h, k)' \/ k = fid
      BY <2>3, <3>1, <3>2 DEF Waits
    <3>5. \A k : \A dir : ~AboutTo(h, k, dir)
      BY <1>1, <2>1, <3>1 DEF AboutTo
    <3>6. \A k : IsFolder(k)' = IsFolder(k) /\ Name(k)' = Name(k)
      BY <2>1 DEF Still, IsFolder, Name
    <3>7. ASSUME NEW k \in o.ids
          PROVE  /\ q.f_id = k /\ q.f_dir = o.dir => Waits(h, k)' \/ AboutTo(h, k, o.dir)'
                 /\ IsFolder(k) /\ q.f_dir = Append(o.dir, Name(k)) => Waits(h, k)' \/ AboutTo(h, k, o.dir)' \/ CoveredBy(h, q)'
      BY <1>2, <3>3, <3>4, <3>5 DEF Due
    <3>. QED  BY <1>3, <3>6, <3>7 DEF Due
  <2>. QED  BY <1>7, <2>2, <2>3, DeleteFileNext
<1>8. CASE deleteFile_reply(h)
  BY <1>8, DeleteFileReply, EndedIs
<1>9. CASE deleteFileById_delete(h)
  <2>1. /\ Doing(h, "deleteFileById", "delete") /\ Top(h).dir = Rq(h).dir /\ DeleteDone(Rq(h).u, Top(h).fid, Rq(h).dir)
        /\ Beneath(h) \subseteq OnStack(h)'
    BY <1>5, <1>9, ByIdDelete
  <2>2. ~(Top(h).fid = q.f_id /\ Top(h).dir = q.f_dir)
    BY <2>1, DeletesRows DEF Is
  <2>3. ~IsFolder(Top(h).fid)
    BY <1>1, <1>2, <2>1, DeleterIs DEF ByIdOK, IsFile, IsFolder
  <2>. QED  BY <1>1, <1>2, <1>3, <2>1, <2>2, <2>3, DueStays
<1>10. CASE deleteFolderById_delete(h)
  <2>1. /\ Doing(h, "deleteFolderById", "delete") /\ DeleteDone(Rq(h).u, Top(h).fid, Top(h).dir)
        /\ Top(h).dest = Append(Top(h).dir, Name(Top(h).fid)) /\ Beneath(h) \subseteq OnStack(h)'
    BY <1>5, <1>10, FolderDelete DEF FolderOK
  <2>2. ~(Top(h).fid = q.f_id /\ Top(h).dir = q.f_dir)
    BY <2>1, DeletesRows DEF Is
  <2>3. PICK x \in FrameRecord : Goes(h, x) /\ x.fn = "deleteFolderById" /\ x.step = "select" /\ x.dest = Top(h).dest
    BY <1>10, FolderDelete
  <2>4. q.f_dir = Append(Top(h).dir, Name(Top(h).fid)) => CoveredBy(h, q)'
    BY <2>1, <2>3, EntersIs
  <2>. QED  BY <1>1, <1>2, <1>3, <2>1, <2>2, <2>4, DueStays
<1>11. CASE deleteFileById_count(h) \/ deleteFileById_remove(h)
  <2>1. Beneath(h) \subseteq OnStack(h)'
    BY <1>4, <1>5, <1>11, ByIdCount, ByIdRemove
  <2>. QED  BY <1>1, <1>6, <1>11, <2>1, ByIdCount, ByIdRemove
<1>12. CASE deleteFolderById_select(h) \/ deleteFolderById_file(h) \/ deleteFolderById_end(h)
  <2>1. Beneath(h) \subseteq OnStack(h)'
    BY <1>4, <1>5, <1>12, FolderSelect, FolderFile, FolderEnd
  <2>. QED  BY <1>1, <1>6, <1>12, <2>1, FolderSelect, FolderFile, FolderEnd
<1>13. CASE deleteFolderById_folder(h)
  <2>1. Beneath(h) \subseteq OnStack(h)'
    BY <1>13, FolderFolder, CallsIs
  <2>. QED  BY <1>1, <1>6, <1>13, <2>1, FolderFolder
<1>. QED  BY <1>7, <1>8, <1>9, <1>10, <1>11, <1>12, <1>13, DeletingIs DEF deleteFile, deleteFileById, deleteFolderById

LEMMA WholeHandler ==
  ASSUME SchemaKeys, BaseInv, PrivateInv, WholeInv, NEW h \in Slots, Handler(h)
  PROVE  WholeInv'
<1>1. HandlerStep(h) /\ run[h] # Idle /\ faults.seen \subseteq faults'.seen
  BY HandlerIs DEF HandlerStep
<1>2. \A t \in Slots : Alone(t)' => Alone(t)
  BY <1>1, OtherIs DEF HandlerStep, Acts, Falls, Alone
<1>3. \A t \in Slots : run'[t] # Idle => run[t] # Idle
  BY <1>1, OtherIs DEF HandlerStep, Acts, Falls
<1>4. ASSUME ~Seen(Broken)', NEW s \in Slots, Alone(s)', Rq(s)'.fn = "deleteFile", NEW q \in t_user_file', q.u_id = Rq(s)'.u
      PROVE  Due(s, q)'
  <2>1. s = h /\ run'[h] # Idle /\ Acts(h)
    BY <1>1, <1>2, <1>4, HandlerActs DEF WholeInv, Alone
  <2>2. Rq(h)' = Rq(h) /\ Rq(h).fn = "deleteFile" /\ q.u_id = Rq(h).u
    BY <1>4, <2>1 DEF Acts
  <2>3. t_user_file' \subseteq t_user_file
    <3>1. CASE deleteFile(h)
      BY <3>1, DeleteFileNext, DeleteFileReply DEF deleteFile, Still
    <3>2. CASE deleteFileById(h)
      BY <3>2, ByIdDelete, ByIdCount, ByIdRemove, DeletesRows DEF deleteFileById, Still
    <3>3. CASE deleteFolderById(h)
      BY <3>3, FolderDelete, FolderSelect, FolderFile, FolderFolder, FolderEnd, DeletesRows DEF deleteFolderById, Still
    <3>. QED  BY <2>2, <3>1, <3>2, <3>3, DeletingIs
  <2>4. ~Seen(Broken)
    BY <1>1, <1>4 DEF Seen
  <2>5. Due(h, q)
    BY <1>2, <1>4, <2>1, <2>2, <2>3, <2>4 DEF WholeInv, Broken
  <2>6. Grows
    BY <1>1, HandlerTables, NoArrival
  <2>. QED  BY <1>4, <2>1, <2>2, <2>3, <2>5, <2>6, DueDeletes
<1>. QED  BY <1>2, <1>3, <1>4 DEF WholeInv, Broken

LEMMA WholeStep ==
  ASSUME SchemaKeys, BaseInv, PrivateInv, WholeInv, [Next]_vars
  PROVE  WholeInv'
<1>1. CASE \E h \in Slots : Handler(h)
  BY <1>1, WholeHandler
<1>2. ASSUME Grows, UNCHANGED <<t_user_file, run, faults>> PROVE WholeInv'
  <2>1. \A s \in Slots : /\ Alone(s)' <=> Alone(s)
                         /\ Rq(s)' = Rq(s) /\ OnStack(s)' = OnStack(s) /\ run'[s] = run[s]
    BY <1>2 DEF Alone, Rq, OnStack
  <2>2. Seen(Broken)' <=> Seen(Broken)
    BY <1>2 DEF Seen
  <2>3. ASSUME NEW s \in Slots, run[s] # Idle, Rq(s).fn = "deleteFile", NEW q, Due(s, q) PROVE Due(s, q)'
    <3>. PICK o : o = Rq(s)
      OBVIOUS
    <3>1. \A fid \in o.ids : IsFolder(fid)' = IsFolder(fid) /\ Name(fid)' = Name(fid)
      BY <1>2, <2>3, NamedIs DEF Grows, Kept, IsFolder, Name
    <3>2. CoveredBy(s, q)' <=> CoveredBy(s, q)
      BY <2>1 DEF CoveredBy
    <3>3. \A fid, dir : (Waits(s, fid)' <=> Waits(s, fid)) /\ (AboutTo(s, fid, dir)' <=> AboutTo(s, fid, dir))
      BY <2>1 DEF Waits, AboutTo
    <3>. QED  BY <2>1, <2>3, <3>1, <3>2, <3>3 DEF Due
  <2>. QED  BY <1>2, <2>1, <2>2, <2>3 DEF WholeInv, Broken, Alone
<1>3. t_file' = t_file => Grows
  BY BaseIs, SameGrows DEF DbOK
<1>4. CASE \E r \in Requests : fileContentRq_update(r)
  <2>1. PICK r \in Requests : LastBlock(r)
    BY <1>4, LastBlockIs
  <2>2. Grows
    BY <2>1, BaseIs, MarkIs DEF LastBlock, FromPath, DbOK
  <2>. QED  BY <1>2, <2>1, <2>2 DEF LastBlock
<1>5. CASE \E s \in Slots : CallFails(s)
  <2>1. PICK s \in Slots : CallFails(s)
    BY <1>5
  <2>2. "call" \in faults'.seen /\ Acts(s) /\ run[s] # Idle
    BY <2>1, CallFailsIs, ReturnsIs
  <2>3. \A t \in Slots : (Alone(t)' => Alone(t)) /\ (run'[t] # Idle => run[t] # Idle)
    BY <2>2, OtherIs DEF Acts, Alone
  <2>. QED  BY <2>2, <2>3 DEF WholeInv, Seen
<1>6. CASE \E r \in Requests : Send(r)
  <2>1. PICK r \in Requests : Send(r)
    BY <1>6
  <2>2. PICK s \in Slots, x \in FrameRecord : Starts(r, s, x) /\ Begins(r, x)
    BY <2>1, SendIs
  <2>3. \A t \in Slots : Alone(t)' => t = s /\ \A o \in Slots : run[o] = Idle
    BY <2>2 DEF Starts, Alone
  <2>4. \A t \in Slots : run'[t] # Idle => t = s \/ run[t] # Idle
    BY <2>2 DEF Starts
  <2>5. ASSUME NEW q, r.fn = "deleteFile" PROVE Due(s, q)'
    <3>1. x.fn = "deleteFile" /\ x.rest = r.ids /\ x \in OnStack(s)' /\ Rq(s)' = r
      BY <2>2, <2>5 DEF Begins, Starts
    <3>2. \A fid \in r.ids : Waits(s, fid)'
      BY <3>1 DEF Waits
    <3>. QED  BY <3>1, <3>2 DEF Due
  <2>6. Rq(s)' = r
    BY <2>2 DEF Starts
  <2>. QED  BY <2>3, <2>4, <2>5, <2>6 DEF WholeInv
<1>7. CASE crash
  BY <1>7, CrashIs, RestartedIs DEF WholeInv, Alone
<1>8. CASE UNCHANGED vars
  BY <1>2, <1>3, <1>8 DEF vars, db
<1>. QED  BY <1>1, <1>4, <1>5, <1>6, <1>7, <1>8 DEF Next

LEMMA WholeInit ==
  ASSUME Init
  PROVE  WholeInv
BY DEF Init, WholeInv, Alone

(* The steps that no handler takes.  None of them answers a request that is *)
(* in the server.                                                           *)
Outside ==
  \/ \E s \in Slots : CallFails(s)
  \/ \E r \in Requests : Send(r) \/ fileContentRq_update(r)
  \/ crash \/ UNCHANGED vars

LEMMA NextIs ==
  ASSUME [Next]_vars
  PROVE  Outside \/ \E h \in Slots : Handler(h)
BY DEF Next, Outside

LEMMA NoAnswer ==
  ASSUME BaseInv, Outside, NEW r \in Requests, reply[r].kind = "asked"
  PROVE  reply'[r].kind # "ok"
<1>1. ASSUME NEW o \in Requests, fileContentRq_update(o) PROVE reply'[r].kind # "ok"
  BY <1>1, LastBlockIs DEF LastBlock
<1>2. ASSUME NEW t \in Slots, CallFails(t) PROVE reply'[r].kind # "ok"
  BY <1>2, CallFailsIs, ReturnsIs DEF EndsWith
<1>3. ASSUME NEW o \in Requests, Send(o) PROVE reply'[r].kind # "ok"
  BY <1>3, SendIs DEF Starts
<1>4. ASSUME crash PROVE reply'[r].kind # "ok"
  BY <1>4, CrashIs, RestartIs DEF BaseInv, StateOK, FaultsOK
<1>5. CASE UNCHANGED vars
  BY <1>5 DEF vars
<1>. QED  BY <1>1, <1>2, <1>3, <1>4, <1>5 DEF Outside

LEMMA AnswererIs ==
  ASSUME BaseInv, [Next]_vars, NEW r \in Requests, reply[r].kind = "asked", reply'[r].kind = "ok",
         NEW s \in Slots, run[s] # Idle, Rq(s) = r
  PROVE  Handler(s)
<1>1. PICK h \in Slots : Handler(h)
  BY NextIs, NoAnswer
<1>2. run[h] # Idle /\ Replies(h)
  BY <1>1, HandlerIs, HandlerReplies DEF HandlerStep
<1>3. Rq(h) = r
  BY <1>2 DEF Replies
<1>. QED  BY <1>1, <1>2, <1>3 DEF BaseInv

(* The only step that answers a deletion is the last one of deleteFile.     *)
LEMMA AnswerIs ==
  ASSUME BaseInv, [Next]_vars, NEW r \in Requests, r.fn = "deleteFile", reply[r].kind = "asked", reply'[r].kind = "ok",
         NEW s \in Slots, run[s] # Idle, Rq(s) = r
  PROVE  deleteFile_reply(s)
<1>1. Handler(s)
  BY AnswererIs
<1>2. /\ Returns(s) => reply'[r].kind # "ok"
      /\ \A x : Goes(s, x) => reply' = reply
      /\ \A x, y : Calls(s, x, y) => reply' = reply
  BY ReturnsIs DEF EndsWith, Goes, Calls
<1>3. ~(deleteFile_next(s) \/ deleteFileById(s))
  BY <1>2, DeleteFileNext, ByIdDelete, ByIdCount, ByIdRemove DEF deleteFileById
<1>4. ~deleteFolderById(s)
  BY <1>2, FolderDelete, FolderSelect, FolderFile, FolderFolder, FolderEnd DEF deleteFolderById
<1>. QED  BY <1>1, <1>3, <1>4, DeletingIs DEF deleteFile

(* Nothing is below a directory that nothing is in: whoever is further down *)
(* has a folder above it.                                                   *)
LEMMA NothingBelow ==
  ASSUME BaseInv, OrphanInv, ~Seen(Broken), NEW u, NEW top \in Seq(STRING), top # <<>>,
         \A q \in t_user_file : q.u_id = u => q.f_dir # top /\ \A s \in Slots : ~CoveredBy(s, q)
  PROVE  \A q \in t_user_file : q.u_id = u => ~IsBelow(q.f_dir, top)
<1>. DEFINE Rows == {q \in t_user_file : q.u_id = u /\ IsBelow(q.f_dir, top)}
            Depths == {Len(q.f_dir) : q \in Rows}
<1>1. SUFFICES ASSUME Rows # {} PROVE FALSE
  OBVIOUS
<1>2. \A q \in t_user_file : q.f_dir \in Seq(STRING) /\ q.f_name \in STRING /\ Len(q.f_dir) \in Nat
  BY RelationIs, LenProperties
<1>3. Depths \subseteq Nat /\ Depths # {}
  BY <1>1, <1>2
<1>4. PICK q \in Rows : \A p \in Rows : Len(q.f_dir) <= Len(p.f_dir)
  <2>1. PICK m \in Depths : \A n \in Depths : m <= n
    BY <1>3, Least
  <2>. QED  BY <2>1
<1>5. q.f_dir # <<>>
  <2>1. Len(top) \in Nat /\ Len(top) # 0
    BY LenProperties, EmptySeq
  <2>. QED  BY <1>4, <2>1 DEF IsBelow
<1>6. PICK p \in t_user_file : p.u_id = u /\ Append(p.f_dir, p.f_name) = q.f_dir
  BY <1>4, <1>5 DEF OrphanInv, Broken, Listed
<1>7. IsBelow(p.f_dir, top)
  BY <1>2, <1>4, <1>6, BelowAbove
<1>8. Len(q.f_dir) = Len(p.f_dir) + 1
  BY <1>2, <1>6, AppendProperties
<1>. QED  BY <1>2, <1>4, <1>6, <1>7, <1>8

(* When a deletion that had the server to itself is answered, nothing is    *)
(* left of what it named, in the tables of its user and at any depth.       *)
THEOREM DeletionIsWholeHolds == SchemaKeys => (Spec => DeletionIsWhole)
<1>. SUFFICES ASSUME SchemaKeys PROVE Spec => DeletionIsWhole
  OBVIOUS
<1>. DEFINE Inv == BaseInv /\ PrivateInv /\ OrphanInv /\ WholeInv
            Left(r) == r.fn = "deleteFile" /\ Answered(r) /\ ~Seen({"late", "crash"}) =>
                         \A q \in t_user_file, fid \in r.ids : q.u_id = r.u =>
                           /\ ~(q.f_id = fid /\ q.f_dir = r.dir)
                           /\ IsFolder(fid) => ~IsBelow(q.f_dir, Append(r.dir, Name(fid)))
<1>1. Inv /\ [Next]_vars => Inv'
  BY BaseStep, BaseStays, PrivateStep, OrphanStep, WholeStep
<1>2. Init => Inv
  BY BaseInit, PrivateInit, OrphanInit, WholeInit
<1>3. ASSUME Inv, [Next]_vars, NEW r \in Requests PROVE Left(r)
  <2>. SUFFICES ASSUME r.fn = "deleteFile", Answered(r), ~Seen({"late", "crash"}),
                       NEW q \in t_user_file, NEW fid \in r.ids, q.u_id = r.u
                PROVE  /\ ~(q.f_id = fid /\ q.f_dir = r.dir)
                       /\ IsFolder(fid) => ~IsBelow(q.f_dir, Append(r.dir, Name(fid)))
    OBVIOUS
  <2>1. ~Seen(Broken)
    BY DEF Answered, Seen, Broken
  <2>2. PICK s \in Slots : run[s] # Idle /\ Rq(s) = r /\ run[s].alone
    BY DEF Answered
  <2>3. deleteFile_reply(s)
    BY <1>3, <2>2, AnswerIs DEF Answered
  <2>4. Top(s).fn = "deleteFile" /\ Top(s).step = "next" /\ Top(s).rest = {} /\ OnStack(s) = {Top(s)}
    BY <1>3, <2>2, <2>3, DeleteFileReply, Running DEF Doing, Entries
  <2>5. /\ \A k : ~Waits(s, k)
        /\ \A k, dir : ~AboutTo(s, k, dir)
        /\ \A p : ~CoveredBy(s, p)
    BY <2>4 DEF Waits, AboutTo, CoveredBy, Covers
  <2>6. \A t \in Slots : \A p : ~CoveredBy(t, p)
    BY <1>3, <2>2, <2>5 DEF WholeInv, Alone, CoveredBy
  <2>7. \A p \in t_user_file : p.u_id = r.u => Due(s, p)
    BY <1>3, <2>1, <2>2 DEF WholeInv, Alone, Broken
  <2>8. ~(q.f_id = fid /\ q.f_dir = r.dir)
    BY <2>2, <2>5, <2>7 DEF Due
  <2>9. ASSUME IsFolder(fid) PROVE ~IsBelow(q.f_dir, Append(r.dir, Name(fid)))
    <3>. PICK top : top = Append(r.dir, Name(fid))
      OBVIOUS
    <3>1. \A p \in t_user_file : p.u_id = r.u => p.f_dir # top
      BY <2>2, <2>5, <2>7, <2>9 DEF Due
    <3>2. top \in Seq(STRING) /\ top # <<>>
      <4>1. r.dir \in Seq(STRING) /\ Name(fid) \in STRING
        BY <1>3, <2>2, NamedIs, NameIs, RequestIs
      <4>. QED  BY <4>1, AppendProperties
    <3>. QED  BY <1>3, <2>1, <2>6, <3>1, <3>2, NothingBelow
  <2>. QED  BY <2>8, <2>9
<1>4. Inv /\ [Next]_vars => [\A r \in Requests : Left(r)]_vars
  BY <1>3
<1>. QED  BY <1>1, <1>2, <1>4, PTL DEF Spec, DeletionIsWhole
-----------------------------------------------------------------------------
(* A copy that nothing disturbs.  Where it is: what is k names below the    *)
(* folder shared goes k names below the directory of the taker.             *)
LEMMA TailOfAppend ==
  ASSUME NEW S, NEW d \in Seq(S), NEW n \in S, NEW k \in Nat, k <= Len(d)
  PROVE  SubSeq(Append(d, n), k + 1, Len(d) + 1) = Append(SubSeq(d, k + 1, Len(d)), n)
<1>. PICK a, p, i, m : a = Append(d, n) /\ p = <<n>> /\ i = k + 1 /\ m = Len(d)
  OBVIOUS
<1>. PICK j, y : j = m + 1 /\ y = SubSeq(d, i, m)
  OBVIOUS
<1>1. m \in Nat /\ i \in Nat /\ j \in Nat /\ i >= 1 /\ i <= j /\ j - 1 = m
  BY LenProperties
<1>2. p \in Seq(S) /\ a \in Seq(S) /\ Len(a) = j /\ a[j] = n /\ a = d \o p
  BY AppendProperties, AppendIsConcat
<1>3. SubSeq(a, i, m) = y
  <2>1. CASE m < i
    BY <1>1, <2>1, SubSeqEmpty
  <2>2. CASE i <= m
    <3>1. i \in 1..Len(d) /\ m \in 1..Len(d)
      BY <1>1, <2>2
    <3>. QED  BY <1>2, <3>1, SubSeqOfConcat1
  <2>. QED  BY <1>1, <2>1, <2>2
<1>4. y \in Seq(S)
  <2>1. \A x \in i..m : d[x] \in S
    <3>1. \A x \in i..m : x \in 1..Len(d)
      BY <1>1
    <3>. QED  BY <3>1, ElementOfSeq
  <2>2. i \in Int /\ m \in Int
    BY <1>1
  <2>. QED  BY <2>1, <2>2, SubSeqProperties
<1>5. SubSeq(a, i, j) = SubSeq(a, i, j - 1) \o <<a[j]>>
  <2>1. i \in 1..Len(a) /\ j \in i..Len(a)
    BY <1>1, <1>2
  <2>. QED  BY <1>2, <2>1, SubSeqRecursiveSecond
<1>6. SubSeq(a, i, j) = y \o p
  BY <1>1, <1>2, <1>3, <1>5
<1>7. Append(y, n) = y \o p
  BY <1>4, AppendIsConcat
<1>. QED  BY <1>6, <1>7

LEMMA AppendToConcat ==
  ASSUME NEW S, NEW d \in Seq(S), NEW e \in Seq(S), NEW n \in S
  PROVE  d \o Append(e, n) = Append(d \o e, n)
<1>. PICK p : p = <<n>>
  OBVIOUS
<1>1. Append(e, n) = e \o p /\ p \in Seq(S)
  BY AppendIsConcat
<1>2. d \o e \in Seq(S)
  BY ConcatProperties
<1>3. Append(d \o e, n) = (d \o e) \o p
  BY <1>2, AppendIsConcat
<1>. QED  BY <1>1, <1>3, ConcatAssociative

LEMMA BelowThrough ==
  ASSUME NEW S, NEW a \in Seq(S), NEW b \in Seq(S), NEW c \in Seq(S), IsBelow(a, b), IsBelow(b, c)
  PROVE  IsBelow(a, c)
<1>. PICK i, j, k : i = Len(a) /\ j = Len(b) /\ k = Len(c)
  OBVIOUS
<1>1. i \in Nat /\ j \in Nat /\ k \in Nat
  BY LenProperties
<1>2. i >= j /\ SubSeq(a, 1, j) = b /\ j >= k /\ SubSeq(b, 1, k) = c
  BY DEF IsBelow
<1>3. SubSeq(a, 1, k) = c
  <2>1. CASE k = 0
    <3>1. SubSeq(a, 1, 0) = <<>> /\ SubSeq(b, 1, 0) = <<>>
      BY SubSeqEmpty
    <3>. QED  BY <1>2, <2>1, <3>1
  <2>2. CASE k # 0
    <3>1. 1 \in 1..i /\ j \in 1..i /\ 1 \in 1..(j - 1 + 1) /\ k \in 1..(j - 1 + 1) /\ 1 + 1 - 1 = 1 /\ 1 + k - 1 = k
      BY <1>1, <1>2, <2>2
    <3>2. SubSeq(SubSeq(a, 1, j), 1, k) = SubSeq(a, 1 + 1 - 1, 1 + k - 1)
      BY <3>1, SubSeqOfSubSeq
    <3>. QED  BY <1>2, <3>1, <3>2
  <2>. QED  BY <2>1, <2>2
<1>. QED  BY <1>1, <1>2, <1>3 DEF IsBelow

LEMMA PathOfRow ==
  ASSUME NEW q \in Relation
  PROVE  /\ q.f_dir \in Seq(STRING) /\ q.f_name \in STRING /\ Path(q) \in Seq(STRING) /\ Path(q) # <<>>
         /\ Len(Path(q)) = Len(q.f_dir) + 1 /\ Len(q.f_dir) \in Nat
         /\ IsBelow(Path(q), Path(q)) /\ IsBelow(Path(q), q.f_dir)
<1>1. q.f_dir \in Seq(STRING) /\ q.f_name \in STRING
  BY DEF Relation
<1>2. Path(q) \in Seq(STRING) /\ Path(q) # <<>> /\ Len(Path(q)) = Len(q.f_dir) + 1
  BY <1>1, AppendProperties DEF Path
<1>3. IsBelow(Path(q), Path(q)) /\ IsBelow(q.f_dir, q.f_dir)
  BY <1>1, <1>2, BelowItself
<1>4. IsBelow(Path(q), q.f_dir)
  BY <1>1, <1>3, BelowInside DEF Path
<1>. QED  BY <1>1, <1>2, <1>3, <1>4, LenProperties

LEMMA TargetGoes ==
  ASSUME NEW r, r.dir \in Seq(STRING), NEW q \in Relation, NEW d \in Seq(STRING), NEW n \in STRING, Len(q.f_dir) <= Len(d)
  PROVE  Target(r, q, Append(d, n)) = Append(Target(r, q, d), n)
<1>1. PICK t, k, m : t = r.dir /\ k = Len(q.f_dir) /\ m = Len(d)
  OBVIOUS
<1>2. k \in Nat /\ m \in Nat /\ k <= m /\ Len(Append(d, n)) = m + 1 /\ t \in Seq(STRING)
  BY <1>1, PathOfRow, LenProperties, AppendProperties
<1>3. PICK e : e = SubSeq(d, k + 1, m)
  OBVIOUS
<1>4. e \in Seq(STRING)
  <2>1. \A i \in (k + 1)..m : d[i] \in STRING
    <3>1. \A i \in (k + 1)..m : i \in 1..Len(d)
      BY <1>1, <1>2
    <3>. QED  BY <3>1, ElementOfSeq
  <2>2. k + 1 \in Int /\ m \in Int
    BY <1>2
  <2>. QED  BY <1>3, <2>1, <2>2, SubSeqProperties
<1>5. SubSeq(Append(d, n), k + 1, Len(Append(d, n))) = Append(e, n)
  BY <1>1, <1>2, <1>3, TailOfAppend
<1>6. t \o Append(e, n) = Append(t \o e, n)
  BY <1>2, <1>4, AppendToConcat
<1>. QED  BY <1>1, <1>3, <1>5, <1>6 DEF Target

LEMMA TargetFirst ==
  ASSUME NEW r, r.dir \in Seq(STRING), NEW q \in Relation
  PROVE  Target(r, q, Path(q)) = Append(r.dir, q.f_name)
<1>1. q.f_dir \in Seq(STRING) /\ q.f_name \in STRING /\ Len(q.f_dir) \in Nat
  BY PathOfRow
<1>2. Target(r, q, q.f_dir) = r.dir
  <2>. PICK k, t : k = Len(q.f_dir) /\ t = r.dir
    OBVIOUS
  <2>1. SubSeq(q.f_dir, k + 1, k) = <<>>
    BY <1>1, SubSeqEmpty
  <2>2. t \o <<>> = t
    BY ConcatEmptySeq
  <2>. QED  BY <2>1, <2>2 DEF Target
<1>3. Len(q.f_dir) <= Len(q.f_dir)
  BY <1>1
<1>4. Target(r, q, Append(q.f_dir, q.f_name)) = Append(Target(r, q, q.f_dir), q.f_name)
  BY <1>1, <1>3, TargetGoes
<1>. QED  BY <1>2, <1>4 DEF Path

LEMMA TargetNext ==
  ASSUME NEW r, r.dir \in Seq(STRING), NEW q \in Relation, NEW p \in Relation, IsBelow(p.f_dir, Path(q))
  PROVE  IsBelow(Path(p), Path(q)) /\ Target(r, q, Path(p)) = Append(Target(r, q, p.f_dir), p.f_name)
<1>1. /\ p.f_dir \in Seq(STRING) /\ p.f_name \in STRING /\ Path(q) \in Seq(STRING) /\ Len(p.f_dir) \in Nat
      /\ Len(q.f_dir) \in Nat /\ Len(Path(q)) = Len(q.f_dir) + 1
  BY PathOfRow
<1>2. IsBelow(Path(p), Path(q))
  BY <1>1, BelowInside DEF Path
<1>3. Len(p.f_dir) >= Len(Path(q))
  BY DEF IsBelow
<1>4. Len(q.f_dir) <= Len(p.f_dir)
  BY <1>1, <1>3
<1>. QED  BY <1>1, <1>2, <1>4, TargetGoes DEF Path

-----------------------------------------------------------------------------
(* What a share brings, while rows are added and none is taken away.        *)
LEMMA InCopies ==
  ASSUME NEW o, NEW c
  PROVE  c \in Copies(o) <=> \E q \in Items(o.link) : \/ c = <<q.f_id, o.dir>>
                                                      \/ \E x \in Within(q) : c = <<x.f_id, Target(o, q, x.f_dir)>>
BY DEF Copies

LEMMA CopiesGrow ==
  ASSUME NEW o, Items(o.link) \subseteq Items(o.link)', \A q \in Items(o.link) : Within(q) \subseteq Within(q)'
  PROVE  Copies(o) \subseteq Copies(o)'
<1>. SUFFICES ASSUME NEW c \in Copies(o) PROVE c \in Copies(o)'
  OBVIOUS
<1>1. PICK q \in Items(o.link) : c = <<q.f_id, o.dir>> \/ \E x \in Within(q) : c = <<x.f_id, Target(o, q, x.f_dir)>>
  BY InCopies
<1>2. CASE c = <<q.f_id, o.dir>>
  <2>1. c \in {<<p.f_id, o.dir>> : p \in Items(o.link)'}
    BY <1>2
  <2>. QED  BY <2>1 DEF Copies
<1>3. ASSUME NEW x \in Within(q), c = <<x.f_id, Target(o, q, x.f_dir)>> PROVE c \in Copies(o)'
  <2>1. c \in {<<y.f_id, Target(o, q, y.f_dir)>> : y \in Within(q)'}
    BY <1>3
  <2>. QED  BY <2>1 DEF Copies
<1>. QED  BY <1>1, <1>2, <1>3

LEMMA RowsAdded ==
  ASSUME BaseInv, Grows, t_user_file \subseteq t_user_file', NEW o
  PROVE  /\ \A q \in t_user_file : IsFolder(q.f_id)' <=> IsFolder(q.f_id)
         /\ Items(o.link) \subseteq Items(o.link)' /\ \A q \in t_user_file : Within(q) \subseteq Within(q)'
         /\ Copies(o) \subseteq Copies(o)'
         /\ Fit(o)' => Fit(o)
         /\ \A g : CopyOK(o, g) => CopyOK(o, g)'
<1>1. \A q \in t_user_file : IsFolder(q.f_id)' <=> IsFolder(q.f_id)
  BY RelationIs DEF Grows, Kept, IsFolder
<1>2. Items(o.link) \subseteq Items(o.link)' /\ Items(o.link) \subseteq t_user_file
  BY DEF Items
<1>3. \A q \in t_user_file : Within(q) \subseteq Within(q)'
  BY <1>1 DEF Within
<1>4. Copies(o) \subseteq Copies(o)'
  BY <1>2, <1>3, CopiesGrow
<1>5. Fit(o)' => Fit(o)
  <2>1. FolderLast(o.link)' => FolderLast(o.link)
    BY <1>1, <1>2 DEF FolderLast
  <2>2. NoNamesake(o.link)' => NoNamesake(o.link)
    BY <1>2 DEF NoNamesake
  <2>3. OutsideItself(o)' => OutsideItself(o)
    BY <1>1, <1>2, <1>4 DEF OutsideItself
  <2>. QED  BY <2>1, <2>2, <2>3 DEF Fit
<1>6. ASSUME NEW g, CopyOK(o, g) PROVE CopyOK(o, g)'
  <2>1. TakerOK(o, g) => TakerOK(o, g)'
    BY <1>2 DEF TakerOK
  <2>2. ContentsOK(o, g) => ContentsOK(o, g)'
    <3>1. \A q \in Items(o.link) : Inside(o, q, g) => q \in Items(o.link)' /\ Inside(o, q, g)'
      BY <1>1, <1>2 DEF Inside
    <3>. QED  BY <3>1 DEF ContentsOK
  <2>. QED  BY <1>6, <2>1, <2>2 DEF CopyOK
<1>. QED  BY <1>1, <1>2, <1>3, <1>4, <1>5, <1>6

(* The steps of a copy.                                                     *)
LEMMA CopyingIs ==
  ASSUME BaseInv, NEW s \in Slots, Handler(s), Rq(s).fn = "getShareByLink"
  PROVE  getShareByLink(s) \/ addFolderByShareDir(s)
<1>1. run[s] # Idle
  BY HandlerIs DEF HandlerStep
<1>2. FrameOK(Rq(s), Top(s))
  BY <1>1, Running
<1>3. Top(s).fn \notin {"shareFile", "deleteFile", "deleteFileById", "deleteFolderById", "addFolder", "uploadFile"}
  BY <1>2 DEF FrameOK, ShareFileOK, DeleteFileOK, ByIdOK, FolderOK, AddFolderOK, UploadFileOK
<1>4. \A fn : \A step : Doing(s, fn, step) => fn = Top(s).fn
  BY DEF Doing
<1>5. ~shareFile(s)
  BY <1>3, <1>4, SharePick, ShareUpdate, ShareReply DEF shareFile
<1>6. ~deleteFile(s) /\ ~deleteFileById(s)
  BY <1>3, <1>4, DeleteFileNext, DeleteFileReply, ByIdDelete, ByIdCount, ByIdRemove DEF deleteFile, deleteFileById
<1>7. ~deleteFolderById(s)
  BY <1>3, <1>4, FolderDelete, FolderSelect, FolderFile, FolderFolder, FolderEnd DEF deleteFolderById
<1>8. ~addFolder(s)
  BY <1>3, <1>4, AddFolderInsert, AddFolderSelect, AddFolderRelate, AddFolderMkdir DEF addFolder
<1>9. ~uploadFile(s)
  BY <1>3, <1>4, UploadQuick, UploadOpen, UploadInsert, UploadSelect, UploadReply
     DEF uploadFile, uploadFile_quickInsert, uploadFile_insertRel
<1>. QED  BY <1>5, <1>6, <1>7, <1>8, <1>9 DEF Handler

LEMMA TakingIs ==
  ASSUME BaseInv, WholeInv, NEW h \in Slots, Handler(h), NEW s \in Slots, Taking(s)'
  PROVE  /\ s = h /\ Taking(h) /\ Rq(h)' = Rq(h) /\ run'[h] # Idle
         /\ getShareByLink(h) \/ addFolderByShareDir(h)
<1>1. HandlerStep(h) /\ run[h] # Idle /\ run'[s] # Idle /\ Alone(s)'
  BY HandlerIs DEF HandlerStep, Taking, Alone
<1>2. Acts(h)
  BY <1>1 DEF HandlerStep, Falls
<1>3. s = h
  <2>1. CASE s # h
    <3>1. run'[s] = run[s]
      BY <1>2, <2>1, OtherIs DEF Acts
    <3>. QED  BY <1>1, <3>1 DEF WholeInv, Alone
  <2>. QED  BY <2>1
<1>4. Rq(h)' = Rq(h) /\ run'[h].alone = run[h].alone
  BY <1>1, <1>2, <1>3 DEF Acts
<1>5. Taking(h)
  BY <1>1, <1>3, <1>4 DEF Taking, Alone
<1>. QED  BY <1>1, <1>3, <1>4, <1>5, CopyingIs DEF Taking

(* The steps that change something: a row is copied.                        *)
CopiesRow(h, fn) ==
  /\ UNCHANGED <<t_file, disk, reply>>
  /\ \E r \in Top(h).rest, row \in Relation, x, y \in FrameRecord :
       /\ r = FirstOf(Top(h).rest)
       /\ InsertRelation(row) /\ row.u_id = Rq(h).u /\ row.f_id = r.f_id /\ row.f_dir = Top(h).dest /\ row.s_link = 0
       /\ Copied(h, fn, r, x, y)
       /\ ((fn = "getShareByLink" /\ IsFolder(r.f_id)) \/ y.dest = Top(h).dest)
Refused(h) == UNCHANGED <<t_file, t_user_file>> /\ Returns(h) /\ "refused" \in faults'.seen

LEMMA CopierIs ==
  ASSUME BaseInv, NEW h \in Slots, getShareByLink(h) \/ addFolderByShareDir(h)
  PROVE  /\ run[h] # Idle
         /\ \/ getShareByLink_select(h) \/ getShareByLink_reply(h) \/ addFolderByShareDir_select(h) \/ addFolderByShareDir_end(h)
            \/ \E fn \in Copiers : Doing(h, fn, "next") /\ (CopiesRow(h, fn) \/ Refused(h))
<1>1. CASE getShareByLink_next(h)
  <2>1. Doing(h, "getShareByLink", "next")
    BY <1>1 DEF getShareByLink_next
  <2>2. ASSUME CopyRow(h, TRUE) PROVE CopiesRow(h, "getShareByLink")
    <3>. PICK fn : fn = "getShareByLink"
      OBVIOUS
    <3>1. fn \in Copiers /\ Doing(h, fn, "next")
      BY <2>1 DEF Copiers
    <3>2. /\ UNCHANGED <<t_file, disk, reply>>
          /\ \E r \in Top(h).rest, row \in Relation, x, y \in FrameRecord :
               /\ r = FirstOf(Top(h).rest)
               /\ InsertRelation(row) /\ row.u_id = Rq(h).u /\ row.f_id = r.f_id /\ row.f_dir = Top(h).dest /\ row.s_link = 0
               /\ Copied(h, fn, r, x, y) /\ ((TRUE /\ IsFolder(r.f_id)) \/ y.dest = Top(h).dest)
      BY <2>2, <3>1, CopyIs
    <3>. QED  BY <3>2 DEF CopiesRow
  <2>3. CopyRefused(h) => Refused(h)
    BY <2>1, CopyRefusedIs DEF Refused, Copiers
  <2>. QED  BY <1>1, <2>1, <2>2, <2>3 DEF getShareByLink_next, Copiers, Doing
<1>2. CASE addFolderByShareDir_next(h)
  <2>1. Doing(h, "addFolderByShareDir", "next")
    BY <1>2 DEF addFolderByShareDir_next
  <2>2. ASSUME CopyRow(h, FALSE) PROVE CopiesRow(h, "addFolderByShareDir")
    <3>. PICK fn : fn = "addFolderByShareDir"
      OBVIOUS
    <3>1. fn \in Copiers /\ Doing(h, fn, "next")
      BY <2>1 DEF Copiers
    <3>2. /\ UNCHANGED <<t_file, disk, reply>>
          /\ \E r \in Top(h).rest, row \in Relation, x, y \in FrameRecord :
               /\ r = FirstOf(Top(h).rest)
               /\ InsertRelation(row) /\ row.u_id = Rq(h).u /\ row.f_id = r.f_id /\ row.f_dir = Top(h).dest /\ row.s_link = 0
               /\ Copied(h, fn, r, x, y) /\ ((FALSE /\ IsFolder(r.f_id)) \/ y.dest = Top(h).dest)
      BY <2>2, <3>1, CopyIs
    <3>. QED  BY <3>2 DEF CopiesRow
  <2>3. CopyRefused(h) => Refused(h)
    BY <2>1, CopyRefusedIs DEF Refused, Copiers
  <2>. QED  BY <1>2, <2>1, <2>2, <2>3 DEF addFolderByShareDir_next, Copiers, Doing
<1>3. CASE getShareByLink_select(h) \/ getShareByLink_reply(h) \/ addFolderByShareDir_select(h) \/ addFolderByShareDir_end(h)
  <2>1. run[h] # Idle
    BY <1>3, LinkSelect, LinkReply, ContentsSelect, ContentsEnd DEF Doing
  <2>. QED  BY <1>3, <2>1
<1>. QED  BY <1>1, <1>2, <1>3 DEF getShareByLink, addFolderByShareDir

LEMMA CopierAdds ==
  ASSUME BaseInv, NEW h \in Slots, getShareByLink(h) \/ addFolderByShareDir(h)
  PROVE  t_file' = t_file /\ Grows /\ t_user_file \subseteq t_user_file' /\ faults.seen \subseteq faults'.seen
<1>1. t_file' = t_file /\ t_user_file \subseteq t_user_file'
  <2>1. CASE getShareByLink_select(h) \/ getShareByLink_reply(h) \/ addFolderByShareDir_select(h) \/ addFolderByShareDir_end(h)
    BY <2>1, LinkSelect, LinkReply, ContentsSelect, ContentsEnd DEF Still
  <2>2. ASSUME NEW fn, CopiesRow(h, fn) PROVE t_file' = t_file /\ t_user_file \subseteq t_user_file'
    BY <2>2 DEF CopiesRow, InsertRelation
  <2>3. Refused(h) => t_file' = t_file /\ t_user_file \subseteq t_user_file'
    BY DEF Refused
  <2>. QED  BY <2>1, <2>2, <2>3, CopierIs
<1>2. Grows
  BY <1>1, BaseIs, SameGrows DEF DbOK
<1>3. Handler(h)
  BY DEF Handler
<1>. QED  BY <1>1, <1>2, <1>3, HandlerIs DEF HandlerStep

(* What a frame copies is of the share, and the frames it leaves know where *)
(* they are.                                                                *)
LEMMA InsertedCopy ==
  ASSUME NEW o, Fit(o), NEW g, CopyOK(o, g), g.fn \in Copiers, g.step = "next", NEW r \in g.rest
  PROVE  <<r.f_id, g.dest>> \in Copies(o)
<1>1. CASE g.fn = "getShareByLink"
  <2>1. r \in Items(o.link) /\ g.dest = o.dir
    BY <1>1 DEF CopyOK, TakerOK
  <2>. QED  BY <2>1, InCopies
<1>2. CASE g.fn = "addFolderByShareDir"
  <2>1. ContentsOK(o, g) /\ NoNamesake(o.link)
    BY <1>2 DEF CopyOK, Fit
  <2>2. r \in t_user_file /\ r.f_dir = g.dir
    BY <2>1 DEF ContentsOK
  <2>3. PICK q \in Items(o.link) : Inside(o, q, g)
    BY <2>1 DEF ContentsOK
  <2>4. r \in Within(q) /\ g.dest = Target(o, q, r.f_dir)
    BY <2>1, <2>2, <2>3 DEF Inside, NoNamesake, Within
  <2>. QED  BY <2>3, <2>4, InCopies
<1>. QED  BY <1>1, <1>2 DEF Copiers

LEMMA CopiedFrames ==
  ASSUME t_user_file \subseteq Relation, NEW o, o.dir \in Seq(STRING), Fit(o), NEW f, CopyOK(o, f), f.fn \in Copiers, f.step = "next", f.rest \subseteq Relation,
         NEW r \in f.rest, r = FirstOf(f.rest),
         NEW y, y.fn = f.fn, y.step = "next", y.rest = f.rest \ {r}, y.dir = f.dir,
         (f.fn = "getShareByLink" /\ IsFolder(r.f_id)) \/ y.dest = f.dest,
         NEW x, x.fn = "addFolderByShareDir", x.step = "select", x.dir = Path(r), x.dest = Append(f.dest, r.f_name)
  PROVE  CopyOK(o, y) /\ (IsFolder(r.f_id) => CopyOK(o, x))
<1>1. r \in Relation /\ \A p \in f.rest : p \in Relation /\ p.f_id \in Nat /\ r.f_id <= p.f_id
  BY FirstOfIs DEF Relation
<1>2. CASE f.fn = "getShareByLink"
  <2>1. f.rest \subseteq Items(o.link) /\ f.dest = o.dir
    BY <1>2 DEF CopyOK, TakerOK
  <2>2. IsFolder(r.f_id) => f.rest \ {r} = {}
    <3>1. \A p \in f.rest : IsFolder(r.f_id) /\ p # r => p.f_id < r.f_id
      BY <2>1 DEF Fit, FolderLast
    <3>. QED  BY <1>1, <3>1
  <2>3. TakerOK(o, y)
    BY <1>2, <2>1, <2>2 DEF TakerOK
  <2>4. ASSUME IsFolder(r.f_id) PROVE Inside(o, r, x)
    <3>1. IsBelow(Path(r), Path(r))
      BY <1>1, PathOfRow
    <3>2. Target(o, r, Path(r)) = Append(o.dir, r.f_name)
      BY <1>1, TargetFirst
    <3>. QED  BY <2>1, <2>4, <3>1, <3>2 DEF Inside
  <2>5. IsFolder(r.f_id) => ContentsOK(o, x)
    BY <2>1, <2>4 DEF ContentsOK
  <2>. QED  BY <1>2, <2>3, <2>5 DEF CopyOK
<1>3. CASE f.fn = "addFolderByShareDir"
  <2>1. ContentsOK(o, f)
    BY <1>3 DEF CopyOK
  <2>2. f.rest \subseteq t_user_file /\ \A p \in f.rest : p.f_dir = f.dir
    BY <2>1 DEF ContentsOK
  <2>3. PICK q \in Items(o.link) : Inside(o, q, f)
    BY <2>1 DEF ContentsOK
  <2>4. Inside(o, q, y) /\ y.dest = f.dest
    BY <1>3, <2>3 DEF Inside
  <2>5. ContentsOK(o, y)
    BY <2>2, <2>3, <2>4 DEF ContentsOK
  <2>6. Inside(o, q, x)
    <3>1. q \in Relation
      BY DEF Items
    <3>2. IsBelow(r.f_dir, Path(q))
      BY <2>2, <2>3 DEF Inside
    <3>3. IsBelow(Path(r), Path(q)) /\ Target(o, q, Path(r)) = Append(Target(o, q, r.f_dir), r.f_name)
      BY <1>1, <3>1, <3>2, TargetNext
    <3>. QED  BY <2>2, <2>3, <3>3 DEF Inside
  <2>. QED  BY <1>3, <2>3, <2>5, <2>6 DEF CopyOK, ContentsOK
<1>. QED  BY <1>2, <1>3 DEF Copiers

LEMMA FramesReturn ==
  ASSUME BaseInv, NEW h \in Slots, run[h] # Idle, Returns(h), run'[h] # Idle
  PROVE  OnStack(h)' \subseteq OnStack(h)
BY Running, ReturnsIs

LEMMA FramesSelect ==
  ASSUME BaseInv, NEW h \in Slots, getShareByLink_select(h) \/ addFolderByShareDir_select(h), run'[h] # Idle,
         NEW o, o = Rq(h), \A g \in OnStack(h) : CopyOK(o, g)
  PROVE  \A g \in OnStack(h)' : CopyOK(o, g)
<1>1. PICK f : f = Top(h)
  OBVIOUS
<1>2. run[h] # Idle
  BY LinkSelect, ContentsSelect DEF Doing
<1>3. CopyOK(o, f) /\ \A g \in Beneath(h) : CopyOK(o, g)
  BY <1>1, <1>2, Running
<1>4. ASSUME NEW x, OnStack(h)' = {x} \cup Beneath(h), CopyOK(o, x) PROVE \A g \in OnStack(h)' : CopyOK(o, g)
  BY <1>3, <1>4
<1>5. CASE getShareByLink_select(h)
  <2>1. f.fn = "getShareByLink" /\ f.step = "select" /\ ~EndsWith(h, "false", 0)
    BY <1>1, <1>5, LinkSelect, EndedIs DEF Doing
  <2>2. PICK x \in FrameRecord : /\ Goes(h, x) /\ x.fn = "getShareByLink" /\ x.step = "next" /\ x.dest = f.dest
                                 /\ x.rest = {r \in user_file_info : r.s_link = o.link}
    BY <1>1, <1>5, <2>1, LinkSelect
  <2>3. OnStack(h)' = {x} \cup Beneath(h)
    BY <2>2, GoesIs
  <2>4. x.dest = o.dir
    BY <1>3, <2>1, <2>2 DEF CopyOK, TakerOK
  <2>5. x.rest \subseteq Items(o.link)
    BY <2>2 DEF user_file_info, Items
  <2>6. CopyOK(o, x)
    BY <2>2, <2>4, <2>5 DEF CopyOK, TakerOK
  <2>. QED  BY <1>4, <2>3, <2>6
<1>6. CASE addFolderByShareDir_select(h)
  <2>1. f.fn = "addFolderByShareDir"
    BY <1>1, <1>6, ContentsSelect DEF Doing
  <2>2. PICK x \in FrameRecord : /\ Goes(h, x) /\ x.fn = "addFolderByShareDir" /\ x.step = "next" /\ x.dest = f.dest
                                 /\ x.dir = f.dir /\ x.rest = {r \in user_file_info : r.f_dir = f.dir}
    BY <1>1, <1>6, ContentsSelect
  <2>3. OnStack(h)' = {x} \cup Beneath(h)
    BY <2>2, GoesIs
  <2>4. \E q \in Items(o.link) : Inside(o, q, x)
    BY <1>3, <2>1, <2>2 DEF CopyOK, ContentsOK, Inside
  <2>5. x.rest \subseteq t_user_file /\ \A r \in x.rest : r.f_dir = x.dir
    BY <2>2 DEF user_file_info
  <2>6. CopyOK(o, x)
    BY <2>2, <2>4, <2>5 DEF CopyOK, ContentsOK
  <2>. QED  BY <1>4, <2>3, <2>6
<1>. QED  BY <1>5, <1>6

LEMMA FramesCopied ==
  ASSUME BaseInv, NEW h \in Slots, NEW fn \in Copiers, Doing(h, fn, "next"), CopiesRow(h, fn),
         NEW o, o = Rq(h), Fit(o), \A g \in OnStack(h) : CopyOK(o, g)
  PROVE  \A g \in OnStack(h)' : CopyOK(o, g)
<1>1. PICK f : f = Top(h)
  OBVIOUS
<1>2. run[h] # Idle /\ f.fn = fn /\ f.step = "next" /\ f.fn \in Copiers
  BY <1>1 DEF Doing
<1>3. CopyOK(o, f) /\ \A g \in Beneath(h) : CopyOK(o, g)
  BY <1>1, <1>2, Running
<1>4. PICK r \in f.rest, x, y \in FrameRecord :
        r = FirstOf(f.rest) /\ Copied(h, fn, r, x, y) /\ ((fn = "getShareByLink" /\ IsFolder(r.f_id)) \/ y.dest = f.dest)
  BY <1>1 DEF CopiesRow
<1>5. o \in Requests /\ o.dir \in Seq(STRING)
  BY <1>2, Running, RequestIs
<1>6. f.rest \subseteq Relation /\ t_user_file \subseteq Relation
  <2>1. f \in FrameRecord /\ f.fn \in RowFns
    BY <1>1, <1>2, Running DEF RowFns
  <2>. QED  BY <2>1, FrameIs, BaseIs DEF DbOK
<1>7. CopyOK(o, y) /\ (IsFolder(r.f_id) => CopyOK(o, x))
  BY <1>1, <1>2, <1>3, <1>4, <1>5, <1>6, CopiedFrames DEF Copied
<1>8. CASE IsFolder(r.f_id)
  <2>1. OnStack(h)' = {x, y} \cup Beneath(h)
    BY <1>4, <1>8, CallsIs DEF Copied
  <2>. QED  BY <1>3, <1>7, <1>8, <2>1
<1>9. CASE ~IsFolder(r.f_id)
  <2>1. OnStack(h)' = {y} \cup Beneath(h)
    BY <1>4, <1>9, GoesIs DEF Copied
  <2>. QED  BY <1>3, <1>7, <2>1
<1>. QED  BY <1>8, <1>9

LEMMA FramesCopier ==
  ASSUME BaseInv, NEW h \in Slots, getShareByLink(h) \/ addFolderByShareDir(h), run'[h] # Idle,
         NEW o, o = Rq(h), Fit(o), \A g \in OnStack(h) : CopyOK(o, g)
  PROVE  \A g \in OnStack(h)' : CopyOK(o, g)
<1>1. run[h] # Idle
  BY CopierIs
<1>2. Returns(h) => \A g \in OnStack(h)' : CopyOK(o, g)
  BY <1>1, FramesReturn
<1>3. CASE getShareByLink_select(h) \/ addFolderByShareDir_select(h)
  BY <1>3, FramesSelect
<1>4. CASE getShareByLink_reply(h)
  BY <1>4, LinkReply, EndedIs
<1>5. CASE addFolderByShareDir_end(h)
  BY <1>2, <1>5, ContentsEnd
<1>6. ASSUME NEW fn \in Copiers, Doing(h, fn, "next"), CopiesRow(h, fn) \/ Refused(h) PROVE \A g \in OnStack(h)' : CopyOK(o, g)
  <2>1. CASE CopiesRow(h, fn)
    BY <1>6, <2>1, FramesCopied
  <2>2. CASE Refused(h)
    BY <1>2, <2>2 DEF Refused
  <2>. QED  BY <1>6, <2>1, <2>2
<1>. QED  BY <1>3, <1>4, <1>5, <1>6, CopierIs

(* The invariant of the frames.                                             *)
LEMMA FramesHandler ==
  ASSUME BaseInv, WholeInv, FramesInv, NEW h \in Slots, Handler(h)
  PROVE  FramesInv'
<1>. SUFFICES ASSUME NEW s \in Slots, Taking(s)', Fit(Rq(s))' PROVE \A g \in OnStack(s)' : CopyOK(Rq(s), g)'
  BY DEF FramesInv
<1>1. /\ s = h /\ Taking(h) /\ Rq(h)' = Rq(h) /\ run'[h] # Idle
      /\ getShareByLink(h) \/ addFolderByShareDir(h)
  BY TakingIs
<1>2. PICK o : o = Rq(h)
  OBVIOUS
<1>3. Grows /\ t_user_file \subseteq t_user_file'
  BY <1>1, CopierAdds
<1>4. Fit(o)' => Fit(o)
  BY <1>3, RowsAdded
<1>5. \A g : CopyOK(o, g) => CopyOK(o, g)'
  BY <1>3, RowsAdded
<1>6. Fit(o)' /\ \A g : CopyOK(o, g)' => CopyOK(Rq(s), g)'
  BY <1>1, <1>2
<1>7. \A g \in OnStack(h) : CopyOK(o, g)
  BY <1>1, <1>2, <1>4, <1>6 DEF FramesInv
<1>8. \A g \in OnStack(h)' : CopyOK(o, g)
  BY <1>1, <1>2, <1>4, <1>6, <1>7, FramesCopier
<1>. QED  BY <1>1, <1>5, <1>6, <1>8

(* What the steps that no handler takes do to a copy: nothing, unless a     *)
(* call fails, or one begins.                                               *)
TakesOn(s) ==
  \/ Taking(s) /\ Rq(s)' = Rq(s) /\ OnStack(s)' = OnStack(s)
  \/ "call" \in faults'.seen /\ Taking(s) /\ Rq(s)' = Rq(s) /\ OnStack(s)' \subseteq OnStack(s)
  \/ \E r \in Requests, x \in FrameRecord :
       /\ Rq(s)' = r /\ reply[r].kind = "none" /\ OnStack(s)' = {x}
       /\ x.fn = "getShareByLink" /\ x.step = "select" /\ x.dest = r.dir
LEMMA OutsideIs ==
  ASSUME BaseInv, Outside
  PROVE  /\ Grows /\ t_user_file' = t_user_file /\ faults.seen \subseteq faults'.seen
         /\ \A r \in Requests : reply'[r].kind = "none" => reply[r].kind = "none"
         /\ \A s \in Slots : Taking(s)' => TakesOn(s)
<1>1. t_file' = t_file => Grows
  BY BaseIs, SameGrows DEF DbOK
<1>2. \A s \in Slots : run'[s] = run[s] /\ Taking(s)' => TakesOn(s)
  BY DEF TakesOn, Taking, Alone, Rq, OnStack
<1>3. ASSUME NEW s \in Slots, CallFails(s)
      PROVE  /\ t_file' = t_file /\ t_user_file' = t_user_file /\ faults.seen \subseteq faults'.seen
             /\ \A r \in Requests : reply'[r].kind = "none" => reply[r].kind = "none"
             /\ \A t \in Slots : Taking(t)' => TakesOn(t)
  <2>1. /\ t_file' = t_file /\ t_user_file' = t_user_file /\ run[s] # Idle /\ Returns(s)
        /\ "call" \in faults'.seen /\ faults.seen \subseteq faults'.seen
    BY <1>3, CallFailsIs
  <2>2. \A r \in Requests : reply'[r].kind = "none" => reply[r].kind = "none"
    BY <2>1, ReturnReplies DEF Replies
  <2>3. ASSUME Taking(s)' PROVE TakesOn(s)
    <3>1. OnStack(s)' \subseteq OnStack(s)
      BY <2>1, <2>3, FramesReturn DEF Taking, Alone
    <3>2. Rq(s)' = Rq(s) /\ Taking(s)
      BY <2>1, <2>3, ReturnsIs DEF Acts, Taking, Alone
    <3>. QED  BY <2>1, <3>1, <3>2 DEF TakesOn
  <2>4. ASSUME NEW t \in Slots, t # s, Taking(t)' PROVE TakesOn(t)
    <3>1. run'[t] = run[t]
      BY <2>1, <2>4, ReturnsIs, OtherIs DEF Acts
    <3>. QED  BY <1>2, <2>4, <3>1
  <2>. QED  BY <2>1, <2>2, <2>3, <2>4
<1>4. ASSUME NEW r \in Requests, Send(r)
      PROVE  /\ t_file' = t_file /\ t_user_file' = t_user_file /\ faults.seen \subseteq faults'.seen
             /\ \A o \in Requests : reply'[o].kind = "none" => reply[o].kind = "none"
             /\ \A t \in Slots : Taking(t)' => TakesOn(t)
  <2>1. t_file' = t_file /\ t_user_file' = t_user_file /\ faults.seen \subseteq faults'.seen
    BY <1>4, SendIs
  <2>2. PICK s \in Slots, x \in FrameRecord : Starts(r, s, x) /\ Begins(r, x)
    BY <1>4, SendIs
  <2>3. \A o \in Requests : reply'[o].kind = "none" => reply[o].kind = "none"
    BY <2>2 DEF Starts
  <2>4. \A t \in Slots : Taking(t)' => t = s
    BY <2>2 DEF Starts, Taking, Alone
  <2>5. ASSUME Taking(s)' PROVE TakesOn(s)
    <3>1. Rq(s)' = r /\ r.fn = "getShareByLink" /\ OnStack(s)' = {x} /\ reply[r].kind = "none"
      BY <2>2, <2>5 DEF Starts, Taking
    <3>2. x.fn = "getShareByLink" /\ x.step = "select" /\ x.dest = r.dir
      BY <2>2, <3>1 DEF Begins
    <3>. QED  BY <3>1, <3>2 DEF TakesOn
  <2>. QED  BY <2>1, <2>3, <2>4, <2>5
<1>5. ASSUME NEW r \in Requests, fileContentRq_update(r)
      PROVE  /\ Grows /\ t_user_file' = t_user_file /\ faults.seen \subseteq faults'.seen
             /\ \A o \in Requests : reply'[o].kind = "none" => reply[o].kind = "none"
             /\ \A t \in Slots : Taking(t)' => TakesOn(t)
  <2>1. LastBlock(r)
    BY <1>5, LastBlockIs
  <2>2. Grows
    BY <2>1, BaseIs, MarkIs DEF LastBlock, FromPath, DbOK
  <2>3. \A o \in Requests : reply'[o].kind = "none" => reply[o].kind = "none"
    BY <2>1 DEF LastBlock
  <2>. QED  BY <1>2, <2>1, <2>2, <2>3 DEF LastBlock
<1>6. CASE crash
  <2>1. t_file' = t_file /\ t_user_file' = t_user_file /\ Restart /\ faults.seen \subseteq faults'.seen /\ FaultsOK'
    BY <1>6, CrashIs DEF BaseInv, StateOK, FaultsOK
  <2>2. \A s \in Slots : ~Taking(s)'
    BY <2>1, RestartedIs DEF Taking, Alone
  <2>3. \A r \in Requests : reply'[r].kind = "none" => reply[r].kind = "none"
    BY <2>1, RestartIs
  <2>. QED  BY <1>1, <2>1, <2>2, <2>3
<1>7. CASE UNCHANGED vars
  BY <1>1, <1>2, <1>7 DEF vars, db
<1>. QED  BY <1>1, <1>3, <1>4, <1>5, <1>6, <1>7 DEF Outside

LEMMA FramesOutside ==
  ASSUME BaseInv, FramesInv, Outside
  PROVE  FramesInv'
<1>. SUFFICES ASSUME NEW s \in Slots, Taking(s)', Fit(Rq(s))' PROVE \A g \in OnStack(s)' : CopyOK(Rq(s), g)'
  BY DEF FramesInv
<1>1. Grows /\ t_user_file \subseteq t_user_file' /\ TakesOn(s)
  BY OutsideIs
<1>2. ASSUME Taking(s), Rq(s)' = Rq(s), OnStack(s)' \subseteq OnStack(s) PROVE \A g \in OnStack(s)' : CopyOK(Rq(s), g)'
  <2>. PICK o : o = Rq(s)
    OBVIOUS
  <2>1. /\ Fit(o)' => Fit(o)
        /\ \A g : CopyOK(o, g) => CopyOK(o, g)'
    BY <1>1, RowsAdded
  <2>2. Fit(o)' /\ \A g : CopyOK(o, g)' => CopyOK(Rq(s), g)'
    BY <1>2
  <2>. QED  BY <1>2, <2>1, <2>2 DEF FramesInv
<1>3. ASSUME NEW r \in Requests, NEW x, Rq(s)' = r, OnStack(s)' = {x}, x.fn = "getShareByLink", x.step = "select", x.dest = r.dir
      PROVE  \A g \in OnStack(s)' : CopyOK(Rq(s), g)'
  <2>1. CopyOK(r, x)'
    BY <1>3 DEF CopyOK, TakerOK
  <2>. QED  BY <1>3, <2>1
<1>. QED  BY <1>1, <1>2, <1>3 DEF TakesOn

LEMMA FramesStep ==
  ASSUME BaseInv, WholeInv, FramesInv, [Next]_vars
  PROVE  FramesInv'
BY NextIs, FramesHandler, FramesOutside

LEMMA NobodyTakes ==
  ASSUME Init
  PROVE  \A s \in Slots : ~Taking(s)
BY DEF Init, Taking, Alone

LEMMA FramesInit ==
  ASSUME Init
  PROVE  FramesInv
BY NobodyTakes DEF FramesInv

(* Who is further down has a folder above it, right in the directory.       *)
LEMMA StepDown ==
  ASSUME BaseInv, OrphanInv, ~Seen(Broken), NEW u, NEW d \in Seq(STRING),
         \A q \in t_user_file : q.u_id = u => \A s \in Slots : ~CoveredBy(s, q),
         NEW x \in t_user_file, x.u_id = u, IsBelow(x.f_dir, d), x.f_dir # d
  PROVE  \E p \in t_user_file : p.u_id = u /\ p.f_dir = d /\ IsFolder(p.f_id) /\ IsBelow(x.f_dir, Path(p))
<1>. DEFINE Rows == {p \in t_user_file : p.u_id = u /\ IsFolder(p.f_id) /\ IsBelow(p.f_dir, d) /\ IsBelow(x.f_dir, Path(p))}
            Depths == {Len(q.f_dir) : q \in Rows}
<1>1. \A q \in t_user_file : q \in Relation /\ q.f_dir \in Seq(STRING) /\ q.f_name \in STRING /\ Len(q.f_dir) \in Nat
                             /\ Path(q) \in Seq(STRING) /\ Len(Path(q)) = Len(q.f_dir) + 1 /\ IsBelow(Path(q), q.f_dir)
  BY RelationIs, PathOfRow
<1>2. ASSUME NEW y \in t_user_file, y.u_id = u, IsBelow(y.f_dir, d), y.f_dir # d
      PROVE  \E p \in t_user_file : p.u_id = u /\ Path(p) = y.f_dir /\ IsFolder(p.f_id) /\ IsBelow(p.f_dir, d)
  <2>1. y.f_dir # <<>> /\ y.f_dir \in Seq(STRING)
    <3>1. ASSUME y.f_dir = <<>> PROVE FALSE
      <4>1. Len(y.f_dir) = 0 /\ Len(d) \in Nat /\ Len(d) <= Len(y.f_dir)
        BY <1>2, <3>1, LenProperties DEF IsBelow
      <4>2. d = <<>>
        BY <4>1, EmptySeq
      <4>. QED  BY <1>2, <3>1, <4>2
    <3>. QED  BY <1>1, <1>2, <3>1
  <2>2. PICK p \in t_user_file : p.u_id = u /\ Append(p.f_dir, p.f_name) = y.f_dir /\ IsFolder(p.f_id)
    <3>1. Listed(u, y.f_dir)
      BY <1>2 DEF OrphanInv, Broken
    <3>. QED  BY <2>1, <3>1 DEF Listed
  <2>3. IsBelow(p.f_dir, d)
    <3>1. PICK a, n : a = p.f_dir /\ n = p.f_name /\ a \in Seq(STRING) /\ n \in STRING
      BY <1>1
    <3>2. IsBelow(Append(a, n), d) /\ Append(a, n) # d
      BY <1>2, <2>2, <3>1
    <3>3. IsBelow(a, d)
      BY <3>1, <3>2, BelowAbove
    <3>. QED  BY <3>1, <3>3
  <2>. QED  BY <2>2, <2>3 DEF Path
<1>3. Rows # {}
  <2>1. PICK p \in t_user_file : p.u_id = u /\ Path(p) = x.f_dir /\ IsFolder(p.f_id) /\ IsBelow(p.f_dir, d)
    BY <1>2
  <2>2. IsBelow(x.f_dir, Path(p))
    BY <1>1, <2>1, BelowItself
  <2>. QED  BY <2>1, <2>2
<1>4. Depths \subseteq Nat /\ Depths # {}
  BY <1>1, <1>3
<1>5. PICK q \in Rows : \A p \in Rows : Len(q.f_dir) <= Len(p.f_dir)
  <2>1. PICK m \in Depths : \A n \in Depths : m <= n
    BY <1>4, Least
  <2>. QED  BY <2>1
<1>6. CASE q.f_dir # d
  <2>1. PICK p \in t_user_file : p.u_id = u /\ Path(p) = q.f_dir /\ IsFolder(p.f_id) /\ IsBelow(p.f_dir, d)
    BY <1>2, <1>5, <1>6
  <2>2. IsBelow(x.f_dir, Path(p))
    <3>1. IsBelow(x.f_dir, Path(q)) /\ IsBelow(Path(q), Path(p))
      BY <1>1, <1>5, <2>1
    <3>. QED  BY <1>1, <1>5, <2>1, <3>1, BelowThrough
  <2>3. p \in Rows
    BY <2>1, <2>2
  <2>. QED  BY <1>1, <1>5, <2>1, <2>3
<1>. QED  BY <1>5, <1>6

(* While a copy runs, the share is what it was: nothing of the copy is in   *)
(* the folder shared.                                                       *)
Copying(h, o) ==
  /\ getShareByLink(h) \/ addFolderByShareDir(h)
  /\ o = Rq(h) /\ o \in Requests /\ o.fn = "getShareByLink"
  /\ run[h] # Idle /\ run'[h] # Idle
  /\ Fit(o) /\ \A g \in OnStack(h) : CopyOK(o, g)

LEMMA CopyAdds ==
  ASSUME BaseInv, NEW h \in Slots, NEW o, Copying(h, o)
  PROVE  \A z \in t_user_file' : z \in t_user_file \/ (z.s_link = 0 /\ <<z.f_id, z.f_dir>> \in Copies(o))
<1>1. CASE getShareByLink_select(h) \/ getShareByLink_reply(h) \/ addFolderByShareDir_select(h) \/ addFolderByShareDir_end(h)
  BY <1>1, LinkSelect, LinkReply, ContentsSelect, ContentsEnd DEF Still
<1>2. ASSUME NEW fn \in Copiers, Doing(h, fn, "next"), CopiesRow(h, fn), NEW z \in t_user_file', z \notin t_user_file
      PROVE  z.s_link = 0 /\ <<z.f_id, z.f_dir>> \in Copies(o)
  <2>1. PICK f : f = Top(h)
    OBVIOUS
  <2>2. f \in OnStack(h) /\ f.fn \in Copiers /\ f.step = "next"
    BY <1>2, <2>1, Running DEF Doing
  <2>3. PICK r \in f.rest, row \in Relation : InsertRelation(row) /\ row.f_id = r.f_id /\ row.f_dir = f.dest /\ row.s_link = 0
    BY <1>2, <2>1 DEF CopiesRow
  <2>4. z = row
    BY <1>2, <2>3 DEF InsertRelation
  <2>5. <<r.f_id, f.dest>> \in Copies(o)
    BY <2>2, InsertedCopy DEF Copying
  <2>. QED  BY <2>3, <2>4, <2>5
<1>3. Refused(h) => t_user_file' = t_user_file
  BY DEF Refused
<1>. QED  BY <1>1, <1>2, <1>3, CopierIs DEF Copying

LEMMA ShareStays ==
  ASSUME BaseInv, NEW h \in Slots, NEW o, Copying(h, o), Fit(o)'
  PROVE  Items(o.link)' = Items(o.link) /\ \A q \in Items(o.link) : Within(q)' = Within(q)
<1>1. Grows /\ t_user_file \subseteq t_user_file' /\ t_file' = t_file
  BY CopierAdds DEF Copying
<1>2. /\ Items(o.link) \subseteq Items(o.link)' /\ \A q \in t_user_file : Within(q) \subseteq Within(q)'
      /\ Copies(o) \subseteq Copies(o)' /\ \A q \in t_user_file : IsFolder(q.f_id)' <=> IsFolder(q.f_id)
  BY <1>1, RowsAdded
<1>3. o.link \in Links /\ o.link # 0
  BY RequestIs, ShareAssumption DEF Copying
<1>4. \A z \in t_user_file' : z \in t_user_file \/ (z.s_link = 0 /\ <<z.f_id, z.f_dir>> \in Copies(o))
  BY CopyAdds
<1>5. Items(o.link)' \subseteq Items(o.link)
  BY <1>3, <1>4 DEF Items
<1>6. ASSUME NEW q \in Items(o.link), NEW z \in Within(q)' PROVE z \in Within(q)
  <2>1. z \in t_user_file' /\ z.u_id = q.u_id /\ IsFolder(q.f_id)' /\ IsBelow(z.f_dir, Path(q)) /\ q \in Items(o.link)' /\ q \in t_user_file
    BY <1>2, <1>6 DEF Within, Items
  <2>2. <<z.f_id, z.f_dir>> \notin Copies(o)'
    BY <2>1 DEF Fit, OutsideItself
  <2>3. z \in t_user_file
    BY <1>2, <1>4, <2>1, <2>2
  <2>. QED  BY <1>2, <2>1, <2>3 DEF Within
<1>7. Items(o.link) \subseteq t_user_file
  BY DEF Items
<1>. QED  BY <1>2, <1>5, <1>6, <1>7

(* What waited still does, or has been copied.                              *)
Carried(h, o) ==
  \A q \in Items(o.link) :
    /\ ItemWaits(h, q) => \/ ItemWaits(h, q)'
                          \/ HasRow(o.u, o.dir, q.f_id)' /\ \A x \in Within(q) : RowWaits(h, x)'
    /\ \A x \in Within(q) : RowWaits(h, x) => RowWaits(h, x)' \/ HasRow(o.u, Target(o, q, x.f_dir), x.f_id)'

LEMMA CarriedIs ==
  ASSUME BaseInv, NEW h \in Slots, NEW o, Copying(h, o), Fit(o)', Rq(h)' = o, Pending(h, o), Carried(h, o)
  PROVE  Pending(h, Rq(h))'
<1>1. Items(o.link)' = Items(o.link) /\ \A q \in Items(o.link) : Within(q)' = Within(q)
  BY ShareStays
<1>2. t_user_file \subseteq t_user_file'
  BY CopierAdds DEF Copying
<1>3. \A u, d, f : HasRow(u, d, f) => HasRow(u, d, f)'
  BY <1>2 DEF HasRow
<1>4. ASSUME NEW q \in Items(o.link)
      PROVE  /\ HasRow(o.u, o.dir, q.f_id)' \/ ItemWaits(h, q)'
             /\ \A x \in Within(q) : HasRow(o.u, Target(o, q, x.f_dir), x.f_id)' \/ ItemWaits(h, q)' \/ RowWaits(h, x)'
  <2>1. /\ HasRow(o.u, o.dir, q.f_id) \/ ItemWaits(h, q)
        /\ \A x \in Within(q) : HasRow(o.u, Target(o, q, x.f_dir), x.f_id) \/ ItemWaits(h, q) \/ RowWaits(h, x)
    BY DEF Pending
  <2>. QED  BY <1>3, <2>1 DEF Carried
<1>5. Pending(h, o)'
  BY <1>1, <1>4 DEF Pending
<1>. QED  BY <1>5

LEMMA TopWaits ==
  ASSUME BaseInv, NEW h \in Slots, NEW o, Copying(h, o), NEW f, f = Top(h)
  PROVE  /\ OnStack(h) = {f} \cup Beneath(h) /\ CopyOK(o, f) /\ f \in FrameRecord /\ o.link \in Links /\ o.dir \in Seq(STRING)
         /\ f.fn = "getShareByLink" => OnStack(h) = {f} /\ \A x : ~RowWaits(h, x)
         /\ f.fn # "getShareByLink" /\ Beneath(h) \subseteq OnStack(h)' =>
              /\ \A q : ItemWaits(h, q) => ItemWaits(h, q)'
              /\ \A x : RowWaits(h, x) => RowWaits(h, x)' \/ Reaches(f, x)
<1>1. run[h] # Idle
  BY DEF Copying
<1>2. OnStack(h) = {f} \cup Beneath(h) /\ f \in FrameRecord /\ (f.fn \in Entries => Beneath(h) = {})
  BY <1>1, Running
<1>3. CopyOK(o, f) /\ o.link \in Links /\ o.dir \in Seq(STRING)
  BY <1>2, RequestIs DEF Copying
<1>4. ASSUME f.fn = "getShareByLink" PROVE OnStack(h) = {f} /\ \A x : ~RowWaits(h, x)
  BY <1>2, <1>4 DEF Entries, RowWaits, Reaches
<1>5. ASSUME f.fn # "getShareByLink", Beneath(h) \subseteq OnStack(h)'
      PROVE  /\ \A q : ItemWaits(h, q) => ItemWaits(h, q)'
             /\ \A x : RowWaits(h, x) => RowWaits(h, x)' \/ Reaches(f, x)
  <2>1. \A g, x : Reaches(g, x)' <=> Reaches(g, x)
    <3>1. t_file' = t_file
      BY CopierAdds DEF Copying
    <3>. QED  BY <3>1 DEF Reaches, IsFolder
  <2>. QED  BY <1>2, <1>5, <2>1 DEF ItemWaits, RowWaits
<1>. QED  BY <1>2, <1>3, <1>4, <1>5

LEMMA CarriedLink ==
  ASSUME SchemaKeys, BaseInv, NEW h \in Slots, NEW o, Copying(h, o), getShareByLink_select(h)
  PROVE  Carried(h, o)
<1>1. Top(h).fn = "getShareByLink" /\ ~EndsWith(h, "false", 0)
  BY LinkSelect, EndedIs DEF Doing, Copying
<1>2. PICK x \in FrameRecord : Goes(h, x) /\ x.fn = "getShareByLink" /\ x.step = "next" /\ x.rest = {r \in user_file_info : r.s_link = o.link}
  BY <1>1, LinkSelect DEF Copying
<1>3. x \in OnStack(h)'
  BY <1>2, GoesIs
<1>4. Items(o.link) \subseteq x.rest
  BY <1>2 DEF Items, user_file_info, BaseInv, TablesOK, KeysOK
<1>5. \A q \in Items(o.link) : ItemWaits(h, q)'
  BY <1>2, <1>3, <1>4 DEF ItemWaits
<1>6. \A z : ~RowWaits(h, z)
  BY <1>1, TopWaits
<1>. QED  BY <1>5, <1>6 DEF Carried

LEMMA CarriedContents ==
  ASSUME SchemaKeys, BaseInv, OrphanInv, WholeInv, ~Seen(Broken), NEW h \in Slots, Alone(h), NEW o, Copying(h, o),
         addFolderByShareDir_select(h)
  PROVE  Carried(h, o)
<1>1. PICK f : f = Top(h)
  OBVIOUS
<1>2. f.fn = "addFolderByShareDir" /\ f.step = "select"
  BY <1>1, ContentsSelect DEF Doing
<1>3. PICK g \in FrameRecord : /\ Goes(h, g) /\ g.fn = "addFolderByShareDir" /\ g.step = "next"
                               /\ g.rest = {r \in user_file_info : r.f_dir = f.dir}
  BY <1>1, ContentsSelect
<1>4. OnStack(h)' = {g} \cup Beneath(h)
  BY <1>3, GoesIs
<1>5. /\ f \in FrameRecord /\ CopyOK(o, f)
      /\ \A q : ItemWaits(h, q) => ItemWaits(h, q)'
      /\ \A x : RowWaits(h, x) => RowWaits(h, x)' \/ Reaches(f, x)
  BY <1>1, <1>2, <1>4, TopWaits
<1>6. \A s \in Slots : \A q : ~CoveredBy(s, q)
  <2>1. \A s \in Slots : run[s] # Idle => s = h
    BY DEF WholeInv
  <2>2. \A q : ~CoveredBy(h, q)
    BY OthersDelete DEF Copying
  <2>. QED  BY <2>1, <2>2 DEF CoveredBy
<1>7. ASSUME NEW x \in t_user_file, Reaches(f, x) PROVE RowWaits(h, x)'
  <2>1. IsBelow(x.f_dir, f.dir) /\ f.dir \in Seq(STRING)
    BY <1>2, <1>5, <1>7, FrameIs DEF Reaches
  <2>2. \A p \in t_user_file : p.f_dir = f.dir => p \in g.rest
    BY <1>3 DEF user_file_info, BaseInv, TablesOK, KeysOK
  <2>3. \E p \in g.rest : p = x \/ (IsFolder(p.f_id) /\ IsBelow(x.f_dir, Path(p)))
    <3>1. CASE x.f_dir = f.dir
      BY <2>2, <3>1
    <3>2. CASE x.f_dir # f.dir
      <4>1. PICK p \in t_user_file : p.f_dir = f.dir /\ IsFolder(p.f_id) /\ IsBelow(x.f_dir, Path(p))
        BY <1>6, <2>1, <3>2, StepDown
      <4>. QED  BY <2>2, <4>1
    <3>. QED  BY <3>1, <3>2
  <2>4. t_file' = t_file
    BY ContentsSelect DEF Still
  <2>5. Reaches(g, x)'
    BY <1>3, <2>3, <2>4 DEF Reaches, IsFolder
  <2>. QED  BY <1>4, <2>5 DEF RowWaits
<1>8. \A q : Within(q) \subseteq t_user_file
  BY DEF Within
<1>. QED  BY <1>5, <1>7, <1>8 DEF Carried

LEMMA CarriedReturn ==
  ASSUME BaseInv, NEW h \in Slots, NEW o, Copying(h, o), addFolderByShareDir_end(h)
  PROVE  Carried(h, o)
<1>1. PICK f : f = Top(h)
  OBVIOUS
<1>2. f.fn = "addFolderByShareDir" /\ f.step = "next" /\ f.rest = {} /\ Returns(h)
  BY <1>1, ContentsEnd DEF Doing
<1>3. OnStack(h)' = Beneath(h)
  BY <1>2, ReturnsIs DEF Copying
<1>4. \A x : ~Reaches(f, x)
  BY <1>2 DEF Reaches
<1>5. /\ \A q : ItemWaits(h, q) => ItemWaits(h, q)'
      /\ \A x : RowWaits(h, x) => RowWaits(h, x)' \/ Reaches(f, x)
  BY <1>1, <1>2, <1>3, TopWaits
<1>. QED  BY <1>4, <1>5 DEF Carried

(* A row is copied: what it led to, and itself.                             *)
LEMMA CarriedItem ==
  ASSUME BaseInv, NEW h \in Slots, NEW o, Copying(h, o), Doing(h, "getShareByLink", "next"), CopiesRow(h, "getShareByLink")
  PROVE  Carried(h, o)
<1>1. PICK f, fn : f = Top(h) /\ fn = "getShareByLink"
  OBVIOUS
<1>2. f.fn = "getShareByLink" /\ f.step = "next" /\ f.fn = fn
  BY <1>1 DEF Doing
<1>3. PICK r \in f.rest, row \in Relation, x, y \in FrameRecord :
        /\ InsertRelation(row) /\ row.u_id = o.u /\ row.f_id = r.f_id /\ row.f_dir = f.dest
        /\ Copied(h, fn, r, x, y)
  BY <1>1 DEF CopiesRow, Copying
<1>4. OnStack(h) = {f} /\ CopyOK(o, f) /\ \A z : ~RowWaits(h, z)
  BY <1>1, <1>2, TopWaits
<1>5. f.dest = o.dir
  BY <1>2, <1>3, <1>4 DEF CopyOK, TakerOK
<1>6. HasRow(o.u, o.dir, r.f_id)'
  BY <1>3, <1>5 DEF HasRow, Is, InsertRelation
<1>7. y \in OnStack(h)' /\ (IsFolder(r.f_id) => x \in OnStack(h)')
  <2>1. CASE IsFolder(r.f_id)
    BY <1>3, <2>1, CallsIs DEF Copied
  <2>2. CASE ~IsFolder(r.f_id)
    BY <1>3, <2>2, GoesIs DEF Copied
  <2>. QED  BY <2>1, <2>2
<1>8. ASSUME NEW q \in Items(o.link), ItemWaits(h, q), q # r PROVE ItemWaits(h, q)'
  <2>1. q \in y.rest
    BY <1>1, <1>2, <1>3, <1>4, <1>8 DEF ItemWaits, Copied
  <2>. QED  BY <1>1, <1>3, <1>7, <2>1 DEF ItemWaits, Copied
<1>9. ASSUME NEW z \in Within(r) PROVE RowWaits(h, z)'
  <2>1. IsFolder(r.f_id) /\ IsBelow(z.f_dir, Path(r))
    BY <1>9 DEF Within
  <2>2. Reaches(x, z)'
    BY <1>3, <2>1 DEF Copied, Reaches
  <2>. QED  BY <1>7, <2>1, <2>2 DEF RowWaits
<1>. QED  BY <1>4, <1>6, <1>8, <1>9 DEF Carried

LEMMA CarriedRow ==
  ASSUME BaseInv, NEW h \in Slots, NEW o, Copying(h, o), Doing(h, "addFolderByShareDir", "next"), CopiesRow(h, "addFolderByShareDir")
  PROVE  Carried(h, o)
<1>1. PICK f, fn : f = Top(h) /\ fn = "addFolderByShareDir"
  OBVIOUS
<1>2. f.fn = "addFolderByShareDir" /\ f.step = "next" /\ f.fn = fn
  BY <1>1 DEF Doing
<1>3. PICK r \in f.rest, row \in Relation, x, y \in FrameRecord :
        /\ InsertRelation(row) /\ row.u_id = o.u /\ row.f_id = r.f_id /\ row.f_dir = f.dest
        /\ Copied(h, fn, r, x, y)
  BY <1>1 DEF CopiesRow, Copying
<1>4. y \in OnStack(h)' /\ (IsFolder(r.f_id) => x \in OnStack(h)') /\ Beneath(h) \subseteq OnStack(h)'
  <2>1. CASE IsFolder(r.f_id)
    BY <1>3, <2>1, CallsIs DEF Copied
  <2>2. CASE ~IsFolder(r.f_id)
    BY <1>3, <2>2, GoesIs DEF Copied
  <2>. QED  BY <2>1, <2>2
<1>5. /\ CopyOK(o, f)
      /\ \A q : ItemWaits(h, q) => ItemWaits(h, q)'
      /\ \A z : RowWaits(h, z) => RowWaits(h, z)' \/ Reaches(f, z)
  BY <1>1, <1>2, <1>4, TopWaits
<1>6. t_file' = t_file
  BY CopierAdds DEF Copying
<1>7. ASSUME NEW q \in Items(o.link), NEW z \in Within(q), Reaches(f, z)
      PROVE  RowWaits(h, z)' \/ HasRow(o.u, Target(o, q, z.f_dir), z.f_id)'
  <2>1. PICK p \in f.rest : p = z \/ (IsFolder(p.f_id) /\ IsBelow(z.f_dir, Path(p)))
    BY <1>2, <1>7 DEF Reaches
  <2>2. CASE p # r
    <3>1. p \in y.rest
      BY <1>1, <1>3, <2>2 DEF Copied
    <3>2. Reaches(y, z)'
      BY <1>1, <1>3, <1>6, <2>1, <3>1 DEF Reaches, Copied, IsFolder
    <3>. QED  BY <1>4, <3>2 DEF RowWaits
  <2>3. CASE p = r /\ p # z
    <3>1. IsFolder(r.f_id) /\ IsBelow(z.f_dir, Path(r))
      BY <2>1, <2>3
    <3>2. Reaches(x, z)'
      BY <1>3, <3>1 DEF Reaches, Copied
    <3>. QED  BY <1>4, <3>1, <3>2 DEF RowWaits
  <2>4. CASE p = r /\ p = z
    <3>1. ContentsOK(o, f) /\ z.f_dir = f.dir
      BY <1>2, <1>3, <1>5, <2>4 DEF CopyOK, ContentsOK
    <3>2. PICK v \in Items(o.link) : Inside(o, v, f)
      BY <3>1 DEF ContentsOK
    <3>3. v = q
      <4>1. IsFolder(v.f_id) /\ IsFolder(q.f_id)
        BY <1>7, <3>2 DEF Inside, Within
      <4>2. v.f_id \in Nat /\ q.f_id \in Nat
        BY RelationIs DEF Items
      <4>3. v # q => v.f_id < q.f_id /\ q.f_id < v.f_id
        BY <4>1 DEF Copying, Fit, FolderLast
      <4>. QED  BY <4>2, <4>3
    <3>4. f.dest = Target(o, q, z.f_dir)
      BY <3>1, <3>2, <3>3 DEF Inside
    <3>. QED  BY <1>3, <2>4, <3>4 DEF HasRow, Is, InsertRelation
  <2>. QED  BY <2>2, <2>3, <2>4
<1>. QED  BY <1>5, <1>7 DEF Carried

LEMMA PendingHandler ==
  ASSUME SchemaKeys, BaseInv, OrphanInv, WholeInv, FramesInv, PendingInv, NEW h \in Slots, Handler(h)
  PROVE  PendingInv'
<1>. SUFFICES ASSUME ~Seen(Hindered)', NEW s \in Slots, Taking(s)', Fit(Rq(s))' PROVE Pending(s, Rq(s))'
  BY DEF PendingInv
<1>1. /\ s = h /\ Taking(h) /\ Rq(h)' = Rq(h) /\ run'[h] # Idle
      /\ getShareByLink(h) \/ addFolderByShareDir(h)
  BY TakingIs
<1>2. PICK o : o = Rq(h)
  OBVIOUS
<1>3. Grows /\ t_user_file \subseteq t_user_file' /\ faults.seen \subseteq faults'.seen
  BY <1>1, CopierAdds
<1>4. ~Seen(Hindered) /\ ~Seen(Broken)
  BY <1>3 DEF Seen, Hindered, Broken
<1>5. Fit(o)' /\ Fit(o)
  <2>1. Fit(o)'
    BY <1>1, <1>2
  <2>. QED  BY <1>3, <2>1, RowsAdded
<1>6. run[h] # Idle /\ Alone(h)
  BY <1>1 DEF Taking, Alone
<1>7. Copying(h, o)
  <2>1. o \in Requests /\ o.fn = "getShareByLink"
    BY <1>1, <1>2, <1>6, Running DEF Taking
  <2>2. \A g \in OnStack(h) : CopyOK(o, g)
    BY <1>1, <1>2, <1>5 DEF FramesInv
  <2>. QED  BY <1>1, <1>2, <1>5, <1>6, <2>1, <2>2 DEF Copying
<1>8. Pending(h, o)
  BY <1>1, <1>2, <1>4, <1>5 DEF PendingInv
<1>9. Carried(h, o)
  <2>1. CASE getShareByLink_select(h)
    BY <1>7, <2>1, CarriedLink
  <2>2. CASE addFolderByShareDir_select(h)
    BY <1>4, <1>6, <1>7, <2>2, CarriedContents
  <2>3. CASE addFolderByShareDir_end(h)
    BY <1>7, <2>3, CarriedReturn
  <2>4. ~getShareByLink_reply(h)
    BY <1>1, LinkReply, EndedIs
  <2>5. ~Refused(h)
    BY DEF Refused, Seen, Hindered
  <2>6. ASSUME NEW fn \in Copiers, Doing(h, fn, "next"), CopiesRow(h, fn) PROVE Carried(h, o)
    BY <1>7, <2>6, CarriedItem, CarriedRow DEF Copiers
  <2>. QED  BY <1>1, <2>1, <2>2, <2>3, <2>4, <2>5, <2>6, CopierIs
<1>. QED  BY <1>1, <1>2, <1>5, <1>7, <1>8, <1>9, CarriedIs

LEMMA PendingOutside ==
  ASSUME BaseInv, FramesInv, PendingInv, Outside
  PROVE  PendingInv'
<1>. SUFFICES ASSUME ~Seen(Hindered)', NEW s \in Slots, Taking(s)', Fit(Rq(s))' PROVE Pending(s, Rq(s))'
  BY DEF PendingInv
<1>1. Grows /\ t_user_file' = t_user_file /\ faults.seen \subseteq faults'.seen /\ TakesOn(s)
  BY OutsideIs
<1>2. ~Seen(Hindered) /\ "call" \notin faults'.seen
  BY <1>1 DEF Seen, Hindered
<1>3. ASSUME Taking(s), Rq(s)' = Rq(s), OnStack(s)' = OnStack(s) PROVE Pending(s, Rq(s))'
  <2>. PICK o : o = Rq(s)
    OBVIOUS
  <2>1. Fit(o)' => Fit(o)
    BY <1>1, RowsAdded
  <2>2. Fit(o)' /\ Fit(o)
    BY <1>3, <2>1
  <2>3. Pending(s, o) /\ \A g \in OnStack(s) : CopyOK(o, g)
    BY <1>2, <1>3, <2>2 DEF PendingInv, FramesInv
  <2>4. \A q \in t_user_file : IsFolder(q.f_id)' <=> IsFolder(q.f_id)
    BY <1>1, RowsAdded
  <2>5. Items(o.link)' = Items(o.link) /\ Items(o.link) \subseteq t_user_file
    BY <1>1 DEF Items
  <2>6. \A q \in Items(o.link) : Within(q)' = Within(q)
    BY <1>1, <2>4, <2>5 DEF Within
  <2>7. \A q : ItemWaits(s, q) => ItemWaits(s, q)'
    BY <1>3 DEF ItemWaits
  <2>8. \A x : RowWaits(s, x) => RowWaits(s, x)'
    <3>1. ASSUME NEW x, NEW g \in OnStack(s), Reaches(g, x) PROVE Reaches(g, x)'
      <4>1. g.step = "next" => g.rest \subseteq t_user_file
        BY <2>3, <3>1 DEF Reaches, CopyOK, ContentsOK
      <4>. QED  BY <2>4, <3>1, <4>1 DEF Reaches
    <3>. QED  BY <1>3, <3>1 DEF RowWaits
  <2>9. \A u, d, f : HasRow(u, d, f) => HasRow(u, d, f)'
    BY <1>1 DEF HasRow
  <2>10. ASSUME NEW q \in Items(o.link)
         PROVE  /\ HasRow(o.u, o.dir, q.f_id)' \/ ItemWaits(s, q)'
                /\ \A x \in Within(q) : HasRow(o.u, Target(o, q, x.f_dir), x.f_id)' \/ ItemWaits(s, q)' \/ RowWaits(s, x)'
    BY <2>3, <2>7, <2>8, <2>9 DEF Pending
  <2>11. Pending(s, o)'
    BY <2>5, <2>6, <2>10 DEF Pending
  <2>. QED  BY <1>3, <2>11
<1>4. ASSUME NEW r \in Requests, NEW x, Rq(s)' = r, OnStack(s)' = {x}, x.fn = "getShareByLink", x.step = "select"
      PROVE  Pending(s, Rq(s))'
  <2>1. \A q : ItemWaits(s, q)'
    BY <1>4 DEF ItemWaits
  <2>. QED  BY <2>1 DEF Pending
<1>. QED  BY <1>1, <1>2, <1>3, <1>4 DEF TakesOn

LEMMA PendingStep ==
  ASSUME SchemaKeys, BaseInv, OrphanInv, WholeInv, FramesInv, PendingInv, [Next]_vars
  PROVE  PendingInv'
BY NextIs, PendingHandler, PendingOutside

LEMMA PendingInit ==
  ASSUME Init
  PROVE  PendingInv
BY NobodyTakes DEF PendingInv

(* Where the rows are from.                                                 *)
LEMMA KeysCome ==
  ASSUME BaseInv, NEW h \in Slots, TablesStep(h), NEW z \in t_user_file'
  PROVE  z.u_id = Rq(h).u \/ \E p \in t_user_file : Is(p, z.u_id, z.f_id, z.f_dir)
<1>1. \A row : InsertRelation(row) => t_user_file' = t_user_file \cup {row}
  BY DEF InsertRelation
<1>2. \A fid, dir : DeleteDone(Rq(h).u, fid, dir) => t_user_file' \subseteq t_user_file
  BY DEF DeleteDone
<1>3. ASSUME NEW fid, NEW link \in Links, Renumber(Rq(h).u, fid, Rq(h).dir, link)
      PROVE  \E p \in t_user_file : Is(p, z.u_id, z.f_id, z.f_dir)
  <2>1. PICK p \in t_user_file : z = Numbered(p, Rq(h).u, fid, Rq(h).dir, link)
    BY <1>3 DEF Renumber
  <2>2. p \in Relation
    BY RelationIs
  <2>. QED  BY <2>1, <2>2, NumberedIs DEF Is
<1>4. z \in t_user_file => \E p \in t_user_file : Is(p, z.u_id, z.f_id, z.f_dir)
  BY DEF Is
<1>. QED  BY <1>1, <1>2, <1>3, <1>4 DEF TablesStep

LEMMA GivenStays ==
  ASSUME BaseInv, WholeInv, Outside \/ \E h \in Slots : Handler(h), NEW z, NEW o \in Requests, GivenBy(z, o)
  PROVE  GivenBy(z, o)'
<1>1. CASE Outside
  <2>1. /\ Grows /\ t_user_file \subseteq t_user_file'
        /\ \A r \in Requests : reply'[r].kind = "none" => reply[r].kind = "none"
        /\ \A s \in Slots : Taking(s)' => TakesOn(s)
    BY <1>1, OutsideIs
  <2>2. (Fit(o)' => Fit(o)) /\ Copies(o) \subseteq Copies(o)'
    BY <2>1, RowsAdded
  <2>3. ASSUME NEW s \in Slots, Taking(s)', Rq(s)' = o PROVE Taking(s) /\ Rq(s) = o
    BY <2>1, <2>3 DEF TakesOn, GivenBy
  <2>. QED  BY <2>1, <2>2, <2>3 DEF GivenBy
<1>2. ASSUME NEW h \in Slots, Handler(h) PROVE GivenBy(z, o)'
  <2>1. \A r \in Requests : reply'[r].kind = "none" => reply[r].kind = "none"
    BY <1>2, HandlerReplies DEF Replies
  <2>2. ASSUME NEW s \in Slots, Taking(s)', Rq(s)' = o, Fit(o)' PROVE <<z.f_id, z.f_dir>> \in Copies(o)'
    <3>1. s = h /\ Taking(h) /\ Rq(h) = o /\ (getShareByLink(h) \/ addFolderByShareDir(h))
      BY <1>2, <2>2, TakingIs
    <3>2. Grows /\ t_user_file \subseteq t_user_file'
      BY <3>1, CopierAdds
    <3>3. Fit(o) /\ Copies(o) \subseteq Copies(o)'
      BY <2>2, <3>2, RowsAdded
    <3>. QED  BY <3>1, <3>3 DEF GivenBy
  <2>. QED  BY <2>1, <2>2 DEF GivenBy
<1>. QED  BY <1>1, <1>2

LEMMA GivenNew ==
  ASSUME BaseInv, WholeInv, FramesInv, NEW h \in Slots, Handler(h), NEW z \in t_user_file', z \notin t_user_file,
         z.u_id = Rq(h).u, NEW o, o = Rq(h)
  PROVE  o \in Requests /\ GivenBy(z, o)'
<1>1. o \in Requests /\ reply[o].kind = "asked"
  BY HandlerIs, Running DEF HandlerStep
<1>2. reply'[o].kind # "none"
  BY <1>1, HandlerReplies DEF Replies
<1>3. ASSUME NEW s \in Slots, Taking(s)', Rq(s)' = o, Fit(o)' PROVE <<z.f_id, z.f_dir>> \in Copies(o)'
  <2>1. /\ s = h /\ Taking(h) /\ Rq(h)' = Rq(h) /\ run'[h] # Idle /\ (getShareByLink(h) \/ addFolderByShareDir(h))
    BY <1>3, TakingIs
  <2>2. Grows /\ t_user_file \subseteq t_user_file'
    BY <2>1, CopierAdds
  <2>3. Fit(o) /\ Copies(o) \subseteq Copies(o)'
    BY <1>3, <2>2, RowsAdded
  <2>4. \A g \in OnStack(h) : CopyOK(o, g)
    BY <2>1, <2>3 DEF FramesInv
  <2>5. Copying(h, o)
    BY <1>1, <2>1, <2>3, <2>4 DEF Copying, Taking, Alone
  <2>. QED  BY <2>3, <2>5, CopyAdds
<1>. QED  BY <1>1, <1>2, <1>3 DEF GivenBy

LEMMA GivenStep ==
  ASSUME BaseInv, WholeInv, FramesInv, GivenInv, [Next]_vars
  PROVE  GivenInv'
<1>. SUFFICES ASSUME NEW z \in t_user_file'
              PROVE  \/ \E p \in t_user_file_0 : Is(p, z.u_id, z.f_id, z.f_dir)
                     \/ \E o \in Requests : GivenBy(z, o)'
  BY DEF GivenInv
<1>1. ASSUME NEW y \in t_user_file, Is(y, z.u_id, z.f_id, z.f_dir)
      PROVE  \/ \E p \in t_user_file_0 : Is(p, z.u_id, z.f_id, z.f_dir)
             \/ \E o \in Requests : GivenBy(z, o)'
  <2>1. CASE \E p \in t_user_file_0 : Is(p, y.u_id, y.f_id, y.f_dir)
    BY <1>1, <2>1 DEF Is
  <2>2. ASSUME NEW o \in Requests, GivenBy(y, o) PROVE GivenBy(z, o)'
    <3>1. GivenBy(z, o)
      BY <1>1, <2>2 DEF GivenBy, Is
    <3>. QED  BY <3>1, NextIs, GivenStays
  <2>. QED  BY <2>1, <2>2 DEF GivenInv
<1>2. z \in t_user_file => Is(z, z.u_id, z.f_id, z.f_dir)
  BY DEF Is
<1>3. CASE Outside
  <2>1. z \in t_user_file
    BY <1>3, OutsideIs
  <2>. QED  BY <1>1, <1>2, <2>1
<1>4. ASSUME NEW h \in Slots, Handler(h), z \notin t_user_file
      PROVE  \/ \E p \in t_user_file_0 : Is(p, z.u_id, z.f_id, z.f_dir)
             \/ \E o \in Requests : GivenBy(z, o)'
  <2>1. z.u_id = Rq(h).u \/ \E p \in t_user_file : Is(p, z.u_id, z.f_id, z.f_dir)
    BY <1>4, HandlerTables, KeysCome
  <2>2. CASE z.u_id = Rq(h).u
    <3>. PICK o : o = Rq(h)
      OBVIOUS
    <3>1. o \in Requests /\ GivenBy(z, o)'
      BY <1>4, <2>2, GivenNew
    <3>. QED  BY <3>1
  <2>. QED  BY <1>1, <2>1, <2>2
<1>. QED  BY <1>1, <1>2, <1>3, <1>4, NextIs

LEMMA GivenInit ==
  ASSUME Init
  PROVE  GivenInv
BY DEF Init, GivenInv, Is

(* The only step that answers getShareByLink with success is its last.      *)
LEMMA TakeAnswerIs ==
  ASSUME BaseInv, [Next]_vars, NEW r \in Requests, r.fn = "getShareByLink", reply[r].kind = "asked", reply'[r].kind = "ok",
         NEW s \in Slots, run[s] # Idle, Rq(s) = r
  PROVE  getShareByLink_reply(s)
<1>1. getShareByLink(s) \/ addFolderByShareDir(s)
  BY AnswererIs, CopyingIs
<1>2. /\ Returns(s) => reply'[r].kind # "ok"
      /\ \A x : Goes(s, x) => reply' = reply
  BY ReturnsIs DEF EndsWith, Goes
<1>3. ~getShareByLink_select(s)
  BY <1>2, LinkSelect DEF EndsWith
<1>4. ~addFolderByShareDir_select(s) /\ ~addFolderByShareDir_end(s)
  BY <1>2, ContentsSelect, ContentsEnd
<1>5. \A fn : ~CopiesRow(s, fn) /\ ~Refused(s)
  BY <1>2 DEF CopiesRow, Refused
<1>. QED  BY <1>1, <1>3, <1>4, <1>5, CopierIs

(* When taking a share is answered and the request had the server to        *)
(* itself, the taker has all that the share brings, and in the directory    *)
(* nothing else is new; rows that an earlier deletion lost sight of are the *)
(* exception.                                                               *)
THEOREM CopyIsExactHolds == SchemaKeys => (Spec => CopyIsExact)
<1>. SUFFICES ASSUME SchemaKeys PROVE Spec => CopyIsExact
  OBVIOUS
<1>. DEFINE Inv == BaseInv /\ PrivateInv /\ OrphanInv /\ WholeInv /\ FramesInv /\ PendingInv /\ GivenInv
            Exact(r) == /\ r.fn = "getShareByLink" /\ Answered(r)
                        /\ FolderLast(r.link) /\ NoNamesake(r.link) /\ OutsideItself(r)
                        => (AllIsCopied(r) \/ Seen({"late", "crash"})) /\ OnlyThatIsCopied(r)
<1>1. Inv /\ [Next]_vars => Inv'
  BY BaseStep, BaseStays, PrivateStep, OrphanStep, WholeStep, FramesStep, PendingStep, GivenStep
<1>2. Init => Inv
  BY BaseInit, PrivateInit, OrphanInit, WholeInit, FramesInit, PendingInit, GivenInit
<1>3. ASSUME Inv, [Next]_vars, NEW r \in Requests PROVE Exact(r)
  <2>. SUFFICES ASSUME r.fn = "getShareByLink", Answered(r), Fit(r)
                PROVE  (AllIsCopied(r) \/ Seen({"late", "crash"})) /\ OnlyThatIsCopied(r)
    BY DEF Fit
  <2>1. PICK s \in Slots : run[s] # Idle /\ Rq(s) = r /\ run[s].alone
    BY DEF Answered
  <2>2. getShareByLink_reply(s)
    BY <1>3, <2>1, TakeAnswerIs DEF Answered
  <2>3. Top(s).fn = "getShareByLink" /\ Top(s).step = "next" /\ Top(s).rest = {} /\ OnStack(s) = {Top(s)}
    BY <1>3, <2>1, <2>2, LinkReply, Running DEF Doing, Entries
  <2>4. Taking(s)
    BY <2>1 DEF Taking, Alone
  <2>5. ASSUME ~Seen({"late", "crash"}) PROVE AllIsCopied(r)
    <3>1. ~Seen(Hindered)
      BY <2>5 DEF Answered, Seen, Hindered
    <3>2. Pending(s, r)
      BY <1>3, <2>1, <2>4, <3>1 DEF PendingInv
    <3>3. (\A q : ~ItemWaits(s, q)) /\ \A x : ~RowWaits(s, x)
      BY <2>3 DEF ItemWaits, RowWaits, Reaches
    <3>4. ASSUME NEW c \in Copies(r) PROVE HasRow(r.u, c[2], c[1])
      <4>1. PICK q \in Items(r.link) : c = <<q.f_id, r.dir>> \/ \E x \in Within(q) : c = <<x.f_id, Target(r, q, x.f_dir)>>
        BY InCopies
      <4>2. HasRow(r.u, r.dir, q.f_id) /\ \A x \in Within(q) : HasRow(r.u, Target(r, q, x.f_dir), x.f_id)
        BY <3>2, <3>3 DEF Pending
      <4>. QED  BY <4>1, <4>2
    <3>. QED  BY <3>4 DEF AllIsCopied, HasRow
  <2>6. OnlyThatIsCopied(r)
    <3>1. ASSUME NEW q \in t_user_file, q.u_id = r.u
          PROVE  \/ <<q.f_id, q.f_dir>> \in Copies(r)
                 \/ \E o \in Requests \ {r} : o.u = r.u /\ reply[o].kind # "none"
                 \/ \E z \in t_user_file_0 : Is(z, q.u_id, q.f_id, q.f_dir)
      BY <1>3, <2>1, <2>4, <3>1 DEF GivenInv, GivenBy
    <3>. QED  BY <3>1 DEF OnlyThatIsCopied
  <2>. QED  BY <2>5, <2>6
<1>4. Inv /\ [Next]_vars => [\A r \in Requests : Exact(r)]_vars
  BY <1>3
<1>. QED  BY <1>1, <1>2, <1>4, PTL DEF Spec, CopyIsExact
=============================================================================
