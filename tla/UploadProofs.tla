----------------------------- MODULE UploadProofs -----------------------------
(***************************************************************************)
(* Theorems about Upload, for every number of transfers, requests in the   *)
(* server, size of a file and of a block, and every number of faults.      *)
(*                                                                         *)
(* They are about transfers that share neither a key of the map nor a file *)
(* on the disk (Separate).  Of the keys UserTimeKey tells when that is so:  *)
(* for one user, for users whose ids are at most three apart, and against   *)
(* the timestamps for the first three users.  The paths differ unless a     *)
(* user sends the same contents twice into one directory.                   *)
(*                                                                         *)
(* The invariants stand on one another:                                    *)
(*   BaseInv     what every variable holds, and what a handler remembers    *)
(*   RequestInv  a client has one request on each of its connections        *)
(*   OwnInv      a FileInfo that the map or a handler leads to is open on    *)
(*               the file of that transfer                                  *)
(*   OpenInv, SingleInv   the map, and without reconnects every handler,    *)
(*               leads to a FileInfo that is open                           *)
(*   OffsetInv   what will be taken back from an offset is in it            *)
(*   PosInv      where each request is in its file                          *)
(*   DiskInv     what is on the disk, and where the descriptor is           *)
(*   ListInv     what the database says of a transfer                       *)
(* Each is shown to be kept by every step, from those before it.            *)
(***************************************************************************)
EXTENDS Upload, FiniteSetTheorems, SequenceTheorems, TLAPS

SeparateKeys ==
  /\ \A k, l \in Transfers : user_time[k] = user_time[l] => k = l
  /\ \A k, l \in Transfers : user_time[k] # timestamp[l]
SeparatePaths == \A k, l \in Transfers : path(k) = path(l) => k = l

-----------------------------------------------------------------------------
Md5s == {md5[k] : k \in Transfers}
Row == [md5 : Md5s, path : Paths, state : {0, 1}]
Relation == [user_dir : {user_dir[k] : k \in Transfers}, fid : Nat]
Content == [file : Md5s \cup {"none"}, at : Nat]
Session == [path : Paths, fid : Nat, pos : Nat, off : Int, alive : BOOLEAN]

Steps(fn) ==
  CASE fn = "uploadFile" -> {"start", "quick", "open", "insertFile", "selectId", "insertRel",
                             "reply", "replyQuick"}
    [] fn = "fileContentRq" -> {"start", "write", "failed", "written", "advance", "update",
                                "close", "reply"}
    [] fn = "continueUpload" -> {"start", "select", "reopen", "seek", "reply"}
AllSteps == {"start", "quick", "open", "insertFile", "selectId", "insertRel", "reply", "replyQuick",
             "write", "failed", "written", "advance", "update", "close", "select", "reopen", "seek"}
Handlers == {"uploadFile", "fileContentRq", "continueUpload"}
Handling ==
  [fn : Handlers, k : Transfers, epoch : Nat, step : AllSteps, fid : Nat,
   lo : Nat, hi : Nat, obj : Nat, n : Int]
Phases == {"new", "asked", "sending", "waiting", "resuming", "offline", "gone", "done"}
Peer == [phase : Phases, fid : Nat, pos : Nat, epoch : Nat]

(* What every variable holds.                                               *)
StateOK ==
  /\ t_file \in Seq(Row)
  /\ t_user_file \subseteq Relation /\ \A r \in t_user_file : r.fid \in 1..Len(t_file)
  /\ disk \in [Paths -> Seq(Content)]
  /\ info \in Seq(Session)
  /\ m_mapTimstampToFileinfo \in [Keys -> 0..Len(info)]
  /\ run \in [Slots -> Handling \cup {Idle}]
  /\ client \in [Transfers -> Peer]
  /\ faults \in [left : Nat, seen : SUBSET AllFaults]

(* The row of a transfer.                                                   *)
RowOf(k, i) == i \in 1..Len(t_file) /\ t_file[i].path = path(k) /\ t_file[i].md5 = md5[k]

(* A handler is at one of its steps, and what it remembers exists.          *)
HandlerOK(s) ==
  /\ run[s].step \in Steps(run[s].fn)
  /\ run[s].obj \in 0..Len(info)
  /\ run[s].fn = "uploadFile" =>
       /\ run[s].step \in {"insertFile", "selectId", "insertRel", "reply"} => run[s].obj # 0
       /\ run[s].step = "selectId" => \E i \in 1..Len(t_file) : RowOf(run[s].k, i)
       /\ run[s].step \in {"insertRel", "reply"} => RowOf(run[s].k, run[s].fid)
       /\ run[s].step \in {"quick", "replyQuick"} => run[s].fid \in Complete(md5[run[s].k])
  /\ run[s].fn = "fileContentRq" =>
       /\ run[s].step # "start" => run[s].obj # 0 /\ run[s].lo < run[s].hi
       /\ run[s].step \in {"written", "advance"} => run[s].n \in Nat
       /\ RowOf(run[s].k, run[s].fid)
  /\ run[s].fn = "continueUpload" =>
       /\ run[s].step \in {"seek", "reply"} => run[s].obj # 0
       /\ run[s].step = "reply" => run[s].n \in Nat
       /\ RowOf(run[s].k, run[s].fid)

(* A client that goes on with a transfer was given the id of its row.       *)
HasId == {"sending", "waiting", "resuming", "offline"}
ClientOK(k) ==
  /\ client[k].phase \in HasId => RowOf(k, client[k].fid)
  /\ client[k].phase \in {"new", "asked", "gone"} <=> client[k].fid = 0

BaseInv ==
  /\ StateOK
  /\ \A s \in Slots : run[s] # Idle => HandlerOK(s)
  /\ \A k \in Transfers : ClientOK(k)

-----------------------------------------------------------------------------
(* Who owns what: a FileInfo that the map or a handler leads to is open on  *)
(* the file of that transfer, and every file holds bytes of its own.        *)
Held(k) == m_mapTimstampToFileinfo[user_time[k]]
OwnBytes(p) == \A i \in 1..Len(disk[p]) : disk[p][i] = Hole \/ disk[p][i].file = p[2]
OwnInv ==
  /\ \A k \in Transfers : m_mapTimstampToFileinfo[timestamp[k]] = 0
  /\ \A k \in Transfers : Held(k) # 0 => info[Held(k)].path = path(k)
  /\ \A s \in Slots : run[s] # Idle /\ run[s].obj # 0 => info[run[s].obj].path = path(run[s].k)
  /\ \A p \in Paths : OwnBytes(p)

(* The map leads to open files.                                             *)
OpenInv == \A k \in Transfers : Held(k) # 0 => info[Held(k)].alive

-----------------------------------------------------------------------------
(* A client has one request under way on each of its connections, of the   *)
(* kind that it waits for, and asks for a transfer once.                    *)
PhaseOf(fn) == CASE fn = "uploadFile" -> "asked"
                 [] fn = "fileContentRq" -> "waiting"
                 [] fn = "continueUpload" -> "resuming"
Busy(s, k) == run[s] # Idle /\ run[s].k = k
Asking(s) == run[s] # Idle /\ run[s].fn = "uploadFile"
RequestOK(s, k) ==
  /\ run[s].epoch <= client[k].epoch
  /\ run[s].epoch = client[k].epoch => client[k].phase = PhaseOf(run[s].fn)
  /\ Asking(s) => client[k].phase \in {"asked", "gone"}
  /\ ~Asking(s) => client[k].fid # 0
RequestInv ==
  \A k \in Transfers :
    /\ \A s \in Slots : Busy(s, k) => RequestOK(s, k)
    /\ \A s, t \in Slots :
         Busy(s, k) /\ Busy(t, k) /\ (run[s].epoch = run[t].epoch \/ (Asking(s) /\ Asking(t))) => s = t

(* What the writers that will seek back have added to an offset is in it,   *)
(* and stored where the descriptor will be put at the end of the file.      *)
Owed(o) == {d \in Slots \X Nat : /\ run[d[1]] # Idle /\ run[d[1]].step = "failed"
                                 /\ run[d[1]].obj = o /\ d[2] \in 1..run[d[1]].n}
Covers(n, o) == IsFiniteSet(Owed(o)) /\ Cardinality(Owed(o)) <= n
Seeks(s) == run[s] # Idle /\ run[s].step = "seek"
OffsetInv ==
  /\ \A o \in 1..Len(info) : Covers(info[o].off, o)
  /\ \A s \in Slots : Seeks(s) => Covers(Len(disk[path(run[s].k)]), run[s].obj)

-----------------------------------------------------------------------------
(* Without a reconnect no request is older than its client's connection,   *)
(* and every request uses an open file.                                     *)
Steady == "reconnect" \notin faults.seen
UsingSteps == {"write", "failed", "written", "advance", "update", "close", "seek"}
Single(s) ==
  /\ run[s].epoch = client[run[s].k].epoch
  /\ run[s].step \in UsingSteps => info[run[s].obj].alive
SingleInv == Steady => \A s \in Slots : run[s] # Idle => Single(s)

-----------------------------------------------------------------------------
(* Where the session of a transfer is: its pos is that of the client, or    *)
(* that of the client after the block that is being written.                *)
Pos(k, n) == Held(k) # 0 /\ info[Held(k)].pos = n
Before == {"start", "quick", "open", "replyQuick"}
BlockEnd(lo) == IF lo + Block <= Size THEN lo + Block ELSE Size

PosOfHandler(s, k) ==
  /\ run[s].fn = "uploadFile" =>
       /\ run[s].step \in Before => Held(k) = 0
       /\ run[s].step \notin Before => Pos(k, 0) /\ Held(k) = run[s].obj
  /\ run[s].fn = "fileContentRq" =>
       /\ run[s].lo = client[k].pos /\ run[s].hi = BlockEnd(run[s].lo)
       /\ run[s].step \in {"start", "write", "failed", "written", "advance"} => Pos(k, run[s].lo)
       /\ run[s].step \in {"write", "failed", "written", "advance", "update", "close"}
            => Held(k) = run[s].obj
       /\ run[s].step = "written" => run[s].n = run[s].hi - run[s].lo
       /\ run[s].step = "advance" => run[s].n = run[s].hi
       /\ run[s].step \in {"update", "close"} => Pos(k, run[s].hi) /\ run[s].hi >= Size /\ run[s].n = 1
       /\ run[s].step = "reply" =>
            \/ run[s].n = 1 /\ run[s].hi < Size /\ Pos(k, run[s].hi)
            \/ run[s].n = 1 /\ run[s].hi >= Size /\ Held(k) = 0
            \/ run[s].n = 0 /\ Pos(k, run[s].lo)
  /\ run[s].fn = "continueUpload" =>
       /\ run[s].step \in {"start", "select", "reopen"} => Held(k) = 0
       /\ run[s].step = "seek" => Pos(k, 0) /\ Held(k) = run[s].obj
       /\ run[s].step = "reply" => Pos(k, run[s].n)
PosOfClient(k) ==
  /\ client[k].phase \in {"new", "offline", "gone"} => Held(k) = 0
  /\ client[k].phase = "sending" => Pos(k, client[k].pos)
PosInv ==
  Steady => /\ \A s \in Slots : run[s] # Idle => PosOfHandler(s, run[s].k)
            /\ \A k \in Transfers : PosOfClient(k)

-----------------------------------------------------------------------------
(* What is on the disk, as long as no write has failed with -1 either: the  *)
(* file from its first byte on, and the descriptor where pos is, except for *)
(* a block that has been written and not yet counted.                       *)
Stored(k) == Len(disk[path(k)])
Off(k) == info[Held(k)].off
Moved(s) ==
  IF run[s] = Idle THEN 0
  ELSE CASE run[s].step = "failed" -> run[s].n
         [] run[s].step \in {"written", "advance"} -> run[s].hi - run[s].lo
         [] OTHER -> 0
FileOK(k) ==
  /\ Stored(k) <= Size
  /\ \A i \in 1..Stored(k) : disk[path(k)][i] = Byte(md5[k], i)
SessionOK(k) ==
  Held(k) # 0 =>
    /\ Off(k) <= Stored(k)
    /\ Off(k) = info[Held(k)].pos \/ \E s \in Slots : run[s] # Idle /\ run[s].k = k /\ Moved(s) # 0
DiskOfHandler(s, k) ==
  /\ run[s].fn = "uploadFile" => Stored(k) = 0
  /\ run[s].step = "failed" => run[s].n \in 1..(run[s].hi - run[s].lo - 1)
  /\ Moved(s) # 0 => Off(k) = info[Held(k)].pos + Moved(s)
  /\ run[s].fn = "fileContentRq" /\ run[s].step \in {"update", "close", "reply"} /\ run[s].n = 1
       => run[s].hi <= Stored(k)
  /\ run[s].fn = "continueUpload" /\ run[s].step = "reply" => run[s].n <= Stored(k)
DiskInv ==
  Undisturbed =>
    /\ \A k \in Transfers : FileOK(k) /\ SessionOK(k)
    /\ \A k \in Transfers : client[k].phase = "new" => Stored(k) = 0
    /\ \A s \in Slots : run[s] # Idle => DiskOfHandler(s, run[s].k)
    /\ \A i \in 1..Len(t_file) : t_file[i].state = 1 => Len(disk[t_file[i].path]) = Size

-----------------------------------------------------------------------------
(* What the database says, as long as nothing but writes has failed.        *)
Calm == faults.seen \subseteq {"write"}
Related(k, fid) == [user_dir |-> user_dir[k], fid |-> fid] \in t_user_file
InList(k, fid) == Related(k, fid) /\ fid \in Complete(md5[k])
ListOfHandler(s, k) ==
  /\ run[s].fn # "continueUpload"
  /\ run[s].fn = "uploadFile" /\ run[s].step \in {"reply", "replyQuick"} => Related(k, run[s].fid)
  /\ run[s].fn = "fileContentRq" => Related(k, run[s].fid)
  /\ run[s].fn = "fileContentRq" /\ run[s].hi >= Size
     /\ (run[s].step = "close" \/ (run[s].step = "reply" /\ run[s].n = 1))
       => run[s].fid \in Complete(md5[k])
ListOfClient(k) ==
  /\ client[k].phase \notin {"offline", "resuming", "gone"}
  /\ client[k].phase \in {"sending", "waiting"} => Related(k, client[k].fid)
  /\ client[k].phase = "done" => \E fid \in Nat : InList(k, fid)
ListInv ==
  Calm => /\ \A s \in Slots : run[s] # Idle => ListOfHandler(s, run[s].k)
          /\ \A k \in Transfers : ListOfClient(k)

-----------------------------------------------------------------------------
LEMMA HandlingIsNotIdle == \A h \in Handling : h # Idle
<1>. SUFFICES ASSUME NEW h \in Handling PROVE h # Idle
  OBVIOUS
<1>1. "step" \in DOMAIN h /\ "step" \notin DOMAIN Idle
  BY DEF Handling, Idle
<1>. QED  BY <1>1

(* A set of natural numbers that is not empty has a first one.              *)
LEMMA FirstIsThere ==
  ASSUME NEW S \in SUBSET Nat, S # {}
  PROVE  FirstOf(S) \in S
<1>. DEFINE R == {ss \in Nat \X Nat : ss[1] < ss[2]}
<1>1. IsWellFoundedOn(R, Nat)
  BY NatLessThanWellFounded, SMT DEF OpToRel
<1>. HIDE DEF R
<1>2. PICK x \in S : \A y \in S : ~ (<<y, x>> \in R)
  BY <1>1, WFMin
<1>3. ASSUME NEW y \in S PROVE x <= y
  <2>1. x \in Nat /\ y \in Nat
    OBVIOUS
  <2>2. y < x => <<y, x>> \in R
    BY <2>1, SMT DEF R
  <2>. QED  BY <1>2, <2>1, <2>2
<1>4. \E i \in S : \A j \in S : i <= j
  BY <1>3
<1>. QED  BY <1>4 DEF FirstOf

LEMMA KeysAre == \A k \in Transfers : user_time[k] \in Keys /\ timestamp[k] \in Keys
BY DEF Keys

LEMMA PathsAre == \A k \in Transfers : path(k) \in Paths /\ md5[k] \in Md5s
BY DEF Paths, Md5s

-----------------------------------------------------------------------------
(* What each call of a handler does.  A handler goes on to a step, or ends. *)
Runs(s, fn, step) == run[s] \in Handling /\ run[s].fn = fn /\ run[s].step = step
OthersRun(s) == \A t \in Slots \ {s} : run'[t] = run[t]
GoesOn(s, step) ==
  /\ run' \in [Slots -> Handling \cup {Idle}] /\ run'[s] \in Handling
  /\ OthersRun(s)
  /\ run'[s].step = step
  /\ run'[s].fn = run[s].fn /\ run'[s].k = run[s].k /\ run'[s].epoch = run[s].epoch
  /\ run'[s].lo = run[s].lo /\ run'[s].hi = run[s].hi
Ends(s) ==
  /\ run' \in [Slots -> Handling \cup {Idle}] /\ run'[s] = Idle
  /\ OthersRun(s)

LEMMA AHandlerRuns ==
  ASSUME StateOK, NEW s \in Slots, run[s] # Idle
  PROVE  /\ run[s] \in Handling /\ run[s].k \in Transfers /\ run[s].fn \in Handlers
         /\ run[s].epoch \in Nat /\ run[s].step \in AllSteps /\ run[s].fid \in Nat
         /\ run[s].lo \in Nat /\ run[s].hi \in Nat /\ run[s].obj \in Nat /\ run[s].n \in Int
BY DEF StateOK, Handling

LEMMA GotoDoes ==
  ASSUME StateOK, NEW s \in Slots, run[s] # Idle, NEW step \in AllSteps, Goto(s, step)
  PROVE  GoesOn(s, step) /\ run'[s].fid = run[s].fid /\ run'[s].obj = run[s].obj /\ run'[s].n = run[s].n
<1>1. run[s] \in Handling
  BY AHandlerRuns
<1>2. [run[s] EXCEPT !.step = step] \in Handling
  BY <1>1 DEF Handling
<1>3. run' = [run EXCEPT ![s] = [run[s] EXCEPT !.step = step]]
  BY DEF Goto
<1>. QED  BY <1>1, <1>2, <1>3 DEF GoesOn, OthersRun, StateOK, Handling

LEMMA ReturnDoes ==
  ASSUME StateOK, NEW s \in Slots, Return(s)
  PROVE  Ends(s)
BY DEF Return, Ends, OthersRun, StateOK

(* One of the numbers that a handler remembers changes with its step.       *)
LEMMA GoesWithObj ==
  ASSUME StateOK, NEW s \in Slots, run[s] # Idle, NEW step \in AllSteps, NEW m \in Nat,
         run' = [run EXCEPT ![s].step = step, ![s].obj = m]
  PROVE  GoesOn(s, step) /\ run'[s].fid = run[s].fid /\ run'[s].obj = m /\ run'[s].n = run[s].n
<1>1. run[s] \in Handling
  BY AHandlerRuns
<1>2. [run[s] EXCEPT !.step = step, !.obj = m] \in Handling
  BY <1>1 DEF Handling
<1>3. run' = [run EXCEPT ![s] = [run[s] EXCEPT !.step = step, !.obj = m]]
  OBVIOUS
<1>. QED  BY <1>1, <1>2, <1>3 DEF GoesOn, OthersRun, StateOK, Handling

LEMMA GoesWithFid ==
  ASSUME StateOK, NEW s \in Slots, run[s] # Idle, NEW step \in AllSteps, NEW m \in Nat,
         run' = [run EXCEPT ![s].step = step, ![s].fid = m]
  PROVE  GoesOn(s, step) /\ run'[s].fid = m /\ run'[s].obj = run[s].obj /\ run'[s].n = run[s].n
<1>1. run[s] \in Handling
  BY AHandlerRuns
<1>2. [run[s] EXCEPT !.step = step, !.fid = m] \in Handling
  BY <1>1 DEF Handling
<1>3. run' = [run EXCEPT ![s] = [run[s] EXCEPT !.step = step, !.fid = m]]
  OBVIOUS
<1>. QED  BY <1>1, <1>2, <1>3 DEF GoesOn, OthersRun, StateOK, Handling

LEMMA GoesWithN ==
  ASSUME StateOK, NEW s \in Slots, run[s] # Idle, NEW step \in AllSteps, NEW m \in Int,
         run' = [run EXCEPT ![s].step = step, ![s].n = m]
  PROVE  GoesOn(s, step) /\ run'[s].fid = run[s].fid /\ run'[s].obj = run[s].obj /\ run'[s].n = m
<1>1. run[s] \in Handling
  BY AHandlerRuns
<1>2. [run[s] EXCEPT !.step = step, !.n = m] \in Handling
  BY <1>1 DEF Handling
<1>3. run' = [run EXCEPT ![s] = [run[s] EXCEPT !.step = step, !.n = m]]
  OBVIOUS
<1>. QED  BY <1>1, <1>2, <1>3 DEF GoesOn, OthersRun, StateOK, Handling

SameDb == UNCHANGED <<t_file, t_user_file>>
SameMemory == UNCHANGED <<m_mapTimstampToFileinfo, info>>

(* Sessions: one is opened, or the numbers of one change.                   *)
Opened(k, p, fid) ==
  /\ info' \in Seq(Session) /\ Len(info') = Len(info) + 1
  /\ \A o \in 1..Len(info) : info'[o] = info[o]
  /\ info'[Len(info) + 1] = FileInfo(p, fid)
  /\ m_mapTimstampToFileinfo' = [m_mapTimstampToFileinfo EXCEPT ![user_time[k]] = Len(info) + 1]
  /\ m_mapTimstampToFileinfo' \in [Keys -> 0..Len(info')]
Changed(o) ==
  /\ info' \in Seq(Session) /\ Len(info') = Len(info)
  /\ \A j \in (1..Len(info)) \ {o} : info'[j] = info[j]
  /\ info'[o].path = info[o].path

(* A session has its place in the list of all sessions.                     *)
LEMMA SessionIsThere ==
  ASSUME StateOK, NEW o \in 1..Len(info)
  PROVE  /\ info[o] \in Session /\ info[o].path \in Paths /\ info[o].fid \in Nat /\ info[o].pos \in Nat
         /\ info[o].off \in Int /\ info[o].alive \in BOOLEAN
<1>1. info \in Seq(Session)
  BY DEF StateOK
<1>2. info[o] \in Session
  BY <1>1
<1>. QED  BY <1>2 DEF Session

LEMMA OneChanges ==
  ASSUME StateOK, NEW o \in 1..Len(info), NEW x \in Session, info' = [info EXCEPT ![o] = x],
         x.path = info[o].path
  PROVE  Changed(o) /\ info'[o] = x
<1>1. info \in Seq(Session)
  BY DEF StateOK
<1>2. info' \in Seq(Session) /\ Len(info') = Len(info)
  BY <1>1
<1>. QED  BY <1>1, <1>2 DEF Changed

LEMMA OneOpens ==
  ASSUME StateOK, NEW s \in Slots, run[s] # Idle, NEW p \in Paths, NEW fid \in Nat, NewSession(s, p, fid)
  PROVE  Opened(run[s].k, p, fid)
<1>1. info \in Seq(Session) /\ FileInfo(p, fid) \in Session
  BY DEF StateOK, Session, FileInfo
<1>2. /\ info' \in Seq(Session) /\ Len(info') = Len(info) + 1 /\ info'[Len(info) + 1] = FileInfo(p, fid)
      /\ \A o \in 1..Len(info) : info'[o] = info[o]
  BY <1>1 DEF NewSession
<1>3. user_time[run[s].k] \in Keys
  BY AHandlerRuns, KeysAre
<1>4. m_mapTimstampToFileinfo' = [m_mapTimstampToFileinfo EXCEPT ![user_time[run[s].k]] = Len(info) + 1]
  BY DEF NewSession, Key
<1>5. m_mapTimstampToFileinfo' \in [Keys -> 0..Len(info')]
  <2>1. Len(info) \in Nat /\ 0..Len(info) \subseteq 0..Len(info') /\ Len(info) + 1 \in 0..Len(info')
    BY <1>1, <1>2
  <2>. QED  BY <1>3, <1>4, <2>1 DEF StateOK
<1>. QED  BY <1>2, <1>4, <1>5 DEF Opened

-----------------------------------------------------------------------------
LEMMA QuickDoes ==
  ASSUME StateOK, NEW s \in Slots, uploadFile_quick(s)
  PROVE  /\ Runs(s, "uploadFile", "start") /\ SameDb /\ SameMemory /\ UNCHANGED <<disk, client, faults>>
         /\ run'[s].obj = run[s].obj /\ run'[s].n = run[s].n
         /\ \/ GoesOn(s, "open")
            \/ GoesOn(s, "quick") /\ run'[s].fid \in Complete(md5[run[s].k])
<1>. DEFINE rows == Complete(md5[run[s].k])
<1>1. Doing(s, "uploadFile", "start") /\ UNCHANGED <<t_file, t_user_file, disk, m_mapTimstampToFileinfo, info, client, faults>>
  BY DEF uploadFile_quick, db, memory
<1>2. Runs(s, "uploadFile", "start") /\ run[s] # Idle
  BY <1>1, AHandlerRuns DEF Doing, Runs
<1>3. rows \in SUBSET Nat /\ (rows # {} => FirstOf(rows) \in rows)
  <2>1. rows \in SUBSET Nat
    BY DEF Complete
  <2>. HIDE DEF rows
  <2>. QED  BY <2>1, FirstIsThere
<1>4. CASE rows = {}
  <2>1. run' = [run EXCEPT ![s].step = "open", ![s].fid = 0]
    BY <1>4 DEF uploadFile_quick
  <2>2. GoesOn(s, "open") /\ run'[s].obj = run[s].obj /\ run'[s].n = run[s].n
    BY <1>2, <2>1, GoesWithFid DEF AllSteps
  <2>. QED  BY <1>1, <1>2, <2>2 DEF SameDb, SameMemory
<1>5. CASE rows # {}
  <2>1. PICK fid \in rows : fid = FirstOf(rows)
    BY <1>3, <1>5
  <2>2. run' = [run EXCEPT ![s].step = "quick", ![s].fid = fid]
    BY <1>5, <2>1 DEF uploadFile_quick
  <2>3. GoesOn(s, "quick") /\ run'[s].obj = run[s].obj /\ run'[s].n = run[s].n /\ run'[s].fid = fid
    BY <1>2, <1>3, <2>2, GoesWithFid DEF AllSteps
  <2>. QED  BY <1>1, <1>2, <2>1, <2>3 DEF SameDb, SameMemory
<1>. QED  BY <1>4, <1>5

Relates(s, fid) ==
  /\ t_user_file' = t_user_file \cup {[user_dir |-> user_dir[run[s].k], fid |-> fid]}
  /\ UNCHANGED t_file

LEMMA QuickInsertDoes ==
  ASSUME StateOK, NEW s \in Slots, uploadFile_quickInsert(s)
  PROVE  /\ Runs(s, "uploadFile", "quick") /\ Relates(s, run[s].fid) /\ SameMemory /\ UNCHANGED <<disk, client, faults>>
         /\ GoesOn(s, "replyQuick") /\ run'[s].fid = run[s].fid /\ run'[s].obj = run[s].obj /\ run'[s].n = run[s].n
<1>1. Doing(s, "uploadFile", "quick") /\ UNCHANGED <<t_file, disk, m_mapTimstampToFileinfo, info, client, faults>>
      /\ Goto(s, "replyQuick") /\ Relates(s, run[s].fid)
  BY DEF uploadFile_quickInsert, memory, Relates, Relate
<1>2. Runs(s, "uploadFile", "quick") /\ run[s] # Idle
  BY <1>1, AHandlerRuns DEF Doing, Runs
<1>. QED  BY <1>1, <1>2, GotoDoes DEF SameMemory, AllSteps

LEMMA OpenDoes ==
  ASSUME StateOK, NEW s \in Slots, uploadFile_open(s)
  PROVE  /\ Runs(s, "uploadFile", "open") /\ SameDb /\ UNCHANGED <<client, faults>>
         /\ disk' = [disk EXCEPT ![path(run[s].k)] = <<>>]
         /\ Opened(run[s].k, path(run[s].k), 0)
         /\ GoesOn(s, "insertFile") /\ run'[s].fid = run[s].fid /\ run'[s].obj = Len(info) + 1 /\ run'[s].n = run[s].n
<1>1. Doing(s, "uploadFile", "open") /\ UNCHANGED <<t_file, t_user_file, client, faults>>
      /\ disk' = [disk EXCEPT ![path(run[s].k)] = <<>>]
      /\ NewSession(s, path(run[s].k), 0)
      /\ run' = [run EXCEPT ![s].step = "insertFile", ![s].obj = Len(info) + 1]
  BY DEF uploadFile_open, db
<1>2. Runs(s, "uploadFile", "open") /\ run[s] # Idle
  BY <1>1, AHandlerRuns DEF Doing, Runs
<1>3. path(run[s].k) \in Paths /\ Len(info) + 1 \in Nat
  BY <1>2, AHandlerRuns, PathsAre DEF StateOK
<1>. QED  BY <1>1, <1>2, <1>3, OneOpens, GoesWithObj DEF SameDb, AllSteps

LEMMA InsertFileDoes ==
  ASSUME StateOK, NEW s \in Slots, uploadFile_insertFile(s)
  PROVE  /\ Runs(s, "uploadFile", "insertFile") /\ SameMemory /\ UNCHANGED <<t_user_file, disk, client, faults>>
         /\ t_file' \in Seq(Row) /\ Len(t_file') = Len(t_file) + 1
         /\ \A i \in 1..Len(t_file) : t_file'[i] = t_file[i]
         /\ t_file'[Len(t_file) + 1] = [md5 |-> md5[run[s].k], path |-> path(run[s].k), state |-> 0]
         /\ GoesOn(s, "selectId") /\ run'[s].fid = run[s].fid /\ run'[s].obj = run[s].obj /\ run'[s].n = run[s].n
<1>. DEFINE row == [md5 |-> md5[run[s].k], path |-> path(run[s].k), state |-> 0]
<1>1. Doing(s, "uploadFile", "insertFile") /\ UNCHANGED <<t_user_file, disk, m_mapTimstampToFileinfo, info, client, faults>>
      /\ t_file' = Append(t_file, row) /\ Goto(s, "selectId")
  BY DEF uploadFile_insertFile, memory
<1>2. Runs(s, "uploadFile", "insertFile") /\ run[s] # Idle
  BY <1>1, AHandlerRuns DEF Doing, Runs
<1>3. row \in Row /\ t_file \in Seq(Row)
  BY <1>2, AHandlerRuns, PathsAre DEF Row, StateOK
<1>. HIDE DEF row
<1>4. /\ t_file' \in Seq(Row) /\ Len(t_file') = Len(t_file) + 1 /\ t_file'[Len(t_file) + 1] = row
      /\ \A i \in 1..Len(t_file) : t_file'[i] = t_file[i]
  BY <1>1, <1>3
<1>. QED  BY <1>1, <1>2, <1>4, GotoDoes DEF SameMemory, AllSteps, row

LEMMA SelectIdDoes ==
  ASSUME BaseInv, NEW s \in Slots, uploadFile_selectId(s)
  PROVE  /\ Runs(s, "uploadFile", "selectId") /\ SameDb /\ UNCHANGED <<disk, m_mapTimstampToFileinfo, client, faults>>
         /\ run[s].obj \in 1..Len(info) /\ Changed(run[s].obj)
         /\ info'[run[s].obj].pos = info[run[s].obj].pos /\ info'[run[s].obj].off = info[run[s].obj].off
         /\ info'[run[s].obj].alive = info[run[s].obj].alive
         /\ GoesOn(s, "insertRel") /\ RowOf(run[s].k, run'[s].fid)
         /\ run'[s].obj = run[s].obj /\ run'[s].n = run[s].n
<1>. DEFINE k == run[s].k
            rows == {i \in 1..Len(t_file) : t_file[i].md5 = md5[k] /\ t_file[i].path = path(k)}
<1>1. Doing(s, "uploadFile", "selectId") /\ UNCHANGED <<t_file, t_user_file, disk, m_mapTimstampToFileinfo, client, faults>>
      /\ info' = [info EXCEPT ![run[s].obj].fid = FirstOf(rows)]
      /\ run' = [run EXCEPT ![s].step = "insertRel", ![s].fid = FirstOf(rows)]
  BY DEF uploadFile_selectId, db
<1>2. Runs(s, "uploadFile", "selectId") /\ run[s] # Idle /\ StateOK /\ HandlerOK(s)
  BY <1>1, AHandlerRuns DEF Doing, Runs, BaseInv
<1>3. \E i \in 1..Len(t_file) : RowOf(k, i)
  BY <1>2 DEF HandlerOK, Runs
<1>4. rows \in SUBSET Nat /\ rows # {}
  BY <1>3 DEF RowOf
<1>5. PICK fid \in rows : fid = FirstOf(rows)
  BY <1>4, FirstIsThere
<1>6. RowOf(k, fid) /\ fid \in Nat
  BY <1>5 DEF RowOf
<1>7. run[s].obj \in 1..Len(info)
  BY <1>2 DEF HandlerOK, Runs
<1>. HIDE DEF rows
<1>8. PICK x \in Session : x = [info[run[s].obj] EXCEPT !.fid = fid]
  BY <1>2, <1>6, <1>7, SessionIsThere DEF Session
<1>9. info' = [info EXCEPT ![run[s].obj] = x]
  BY <1>1, <1>5, <1>8
<1>10. x.path = info[run[s].obj].path /\ x.pos = info[run[s].obj].pos /\ x.off = info[run[s].obj].off
       /\ x.alive = info[run[s].obj].alive
  BY <1>2, <1>7, <1>8, SessionIsThere DEF Session
<1>11. Changed(run[s].obj) /\ info'[run[s].obj] = x
  BY <1>2, <1>7, <1>9, <1>10, OneChanges
<1>12. GoesOn(s, "insertRel") /\ run'[s].fid = fid /\ run'[s].obj = run[s].obj /\ run'[s].n = run[s].n
  BY <1>1, <1>2, <1>5, <1>6, GoesWithFid DEF AllSteps
<1>. QED  BY <1>1, <1>2, <1>6, <1>7, <1>10, <1>11, <1>12 DEF SameDb

LEMMA InsertRelDoes ==
  ASSUME StateOK, NEW s \in Slots, uploadFile_insertRel(s)
  PROVE  /\ Runs(s, "uploadFile", "insertRel") /\ Relates(s, run[s].fid) /\ SameMemory /\ UNCHANGED <<disk, client, faults>>
         /\ GoesOn(s, "reply") /\ run'[s].fid = run[s].fid /\ run'[s].obj = run[s].obj /\ run'[s].n = run[s].n
<1>1. Doing(s, "uploadFile", "insertRel") /\ UNCHANGED <<t_file, disk, m_mapTimstampToFileinfo, info, client, faults>>
      /\ Goto(s, "reply") /\ Relates(s, run[s].fid)
  BY DEF uploadFile_insertRel, memory, Relates, Relate
<1>2. Runs(s, "uploadFile", "insertRel") /\ run[s] # Idle
  BY <1>1, AHandlerRuns DEF Doing, Runs
<1>. QED  BY <1>1, <1>2, GotoDoes DEF SameMemory, AllSteps

-----------------------------------------------------------------------------
LEMMA FindDoes ==
  ASSUME StateOK, NEW s \in Slots, fileContentRq_find(s)
  PROVE  /\ Runs(s, "fileContentRq", "start") /\ SameDb /\ SameMemory /\ UNCHANGED <<disk, client, faults>>
         /\ \/ Ends(s) /\ (Held(run[s].k) = 0 \/ run[s].hi <= run[s].lo)
            \/ /\ GoesOn(s, "write") /\ run[s].lo < run[s].hi
               /\ run'[s].obj = Held(run[s].k) /\ Held(run[s].k) \in 1..Len(info)
               /\ run'[s].fid = run[s].fid /\ run'[s].n = run[s].n
<1>1. Doing(s, "fileContentRq", "start") /\ UNCHANGED <<t_file, t_user_file, disk, m_mapTimstampToFileinfo, info, client, faults>>
      /\ IF Held(run[s].k) = 0 \/ run[s].hi <= run[s].lo THEN Return(s)
         ELSE run' = [run EXCEPT ![s].step = "write", ![s].obj = Held(run[s].k)]
  BY DEF fileContentRq_find, db, memory, Held, Key
<1>2. Runs(s, "fileContentRq", "start") /\ run[s] # Idle
  BY <1>1, AHandlerRuns DEF Doing, Runs
<1>3. user_time[run[s].k] \in Keys /\ Held(run[s].k) \in 0..Len(info)
  BY <1>2, AHandlerRuns, KeysAre DEF StateOK, Held
<1>4. CASE Held(run[s].k) = 0 \/ run[s].hi <= run[s].lo
  BY <1>1, <1>2, <1>4, ReturnDoes DEF SameDb, SameMemory
<1>5. CASE ~(Held(run[s].k) = 0 \/ run[s].hi <= run[s].lo)
  <2>1. run[s].lo < run[s].hi /\ Held(run[s].k) \in 1..Len(info) /\ Held(run[s].k) \in Nat
    BY <1>2, <1>3, <1>5, AHandlerRuns
  <2>2. /\ GoesOn(s, "write") /\ run'[s].fid = run[s].fid /\ run'[s].obj = Held(run[s].k)
        /\ run'[s].n = run[s].n
    BY <1>1, <1>2, <1>5, <2>1, GoesWithObj DEF AllSteps
  <2>. QED  BY <1>1, <1>2, <2>1, <2>2 DEF SameDb, SameMemory
<1>. QED  BY <1>4, <1>5

(* What write stores behind an offset.                                      *)
LEMMA WrittenIs ==
  ASSUME NEW file \in Seq(Content), NEW off \in Int, NEW n \in Nat, NEW b \in [1..n -> Content], Hole \in Content
  PROVE  /\ Written(file, off, b) \in Seq(Content)
         /\ Len(Written(file, off, b)) = Longer(Len(file), off + n)
         /\ \A i \in 1..Longer(Len(file), off + n) :
              Written(file, off, b)[i] = IF off < i /\ i <= off + n THEN b[i - off]
                                         ELSE IF i <= Len(file) THEN file[i] ELSE Hole
<1>1. Len(b) = n /\ Len(file) \in Nat /\ Longer(Len(file), off + n) \in Nat
  BY DEF Longer
<1>. DEFINE m == Longer(Len(file), off + n)
            at(i) == IF off < i /\ i <= off + n THEN b[i - off] ELSE IF i <= Len(file) THEN file[i] ELSE Hole
<1>2. Written(file, off, b) = [i \in 1..m |-> at(i)]
  BY <1>1 DEF Written
<1>3. \A i \in 1..m : at(i) \in Content
  BY <1>1
<1>. HIDE DEF at, m
<1>4. Written(file, off, b) \in [1..m -> Content]
  BY <1>2, <1>3
<1>5. m \in Nat
  BY <1>1 DEF m
<1>6. Written(file, off, b) \in Seq(Content) /\ Len(Written(file, off, b)) = m
  BY <1>4, <1>5
<1>. QED  BY <1>2, <1>6 DEF m, at

(* A write stores n bytes of the block behind the offset.                   *)
Stores(p, off, k, lo, n) ==
  /\ disk' \in [Paths -> Seq(Content)]
  /\ \A q \in Paths \ {p} : disk'[q] = disk[q]
  /\ Len(disk'[p]) = Longer(Len(disk[p]), off + n)
  /\ \A i \in 1..Longer(Len(disk[p]), off + n) :
       disk'[p][i] = IF off < i /\ i <= off + n THEN Byte(md5[k], lo + (i - off))
                     ELSE IF i <= Len(disk[p]) THEN disk[p][i] ELSE Hole

LEMMA StoreDoes ==
  ASSUME StateOK, NEW p \in Paths, NEW off \in Int, NEW k \in Transfers, NEW lo \in Nat, NEW n \in Nat,
         disk' = [disk EXCEPT ![p] = Written(@, off, [i \in 1..n |-> Byte(md5[k], lo + i)])]
  PROVE  Stores(p, off, k, lo, n)
<1>. DEFINE b == [i \in 1..n |-> Byte(md5[k], lo + i)]
<1>1. Hole \in Content /\ b \in [1..n -> Content]
  BY PathsAre DEF Content, Hole, Byte
<1>2. disk \in [Paths -> Seq(Content)] /\ disk[p] \in Seq(Content)
  BY DEF StateOK
<1>. HIDE DEF b
<1>3. PICK file \in Seq(Content) : file = disk[p]
  BY <1>2
<1>4. PICK block \in [1..n -> Content] : block = b
  BY <1>1
<1>5. PICK w \in Seq(Content) :
        /\ w = Written(file, off, block)
        /\ Len(w) = Longer(Len(file), off + n)
        /\ \A i \in 1..Longer(Len(file), off + n) :
              w[i] = IF off < i /\ i <= off + n THEN block[i - off]
                     ELSE IF i <= Len(file) THEN file[i] ELSE Hole
  <2>1. /\ Written(file, off, block) \in Seq(Content)
        /\ Len(Written(file, off, block)) = Longer(Len(file), off + n)
        /\ \A i \in 1..Longer(Len(file), off + n) :
              Written(file, off, block)[i] = IF off < i /\ i <= off + n THEN block[i - off]
                                             ELSE IF i <= Len(file) THEN file[i] ELSE Hole
    BY <1>1, WrittenIs, Zenon
  <2>. QED  BY <2>1
<1>6. disk' = [disk EXCEPT ![p] = w]
  BY <1>3, <1>4, <1>5 DEF b
<1>7. disk' \in [Paths -> Seq(Content)] /\ disk'[p] = w /\ \A q \in Paths \ {p} : disk'[q] = disk[q]
  BY <1>2, <1>6
<1>8. \A i \in Int : off < i /\ i <= off + n => block[i - off] = Byte(md5[k], lo + (i - off))
  BY <1>4 DEF b
<1>9. \A i \in 1..Longer(Len(file), off + n) : i \in Int
  BY <1>3 DEF Longer
<1>. QED  BY <1>3, <1>5, <1>7, <1>8, <1>9 DEF Stores

LEMMA WriteDoes ==
  ASSUME BaseInv, NEW s \in Slots, fileContentRq_write(s)
  PROVE  /\ Runs(s, "fileContentRq", "write") /\ SameDb /\ UNCHANGED <<m_mapTimstampToFileinfo, client>>
         /\ run[s].obj \in 1..Len(info) /\ run'[s].fid = run[s].fid /\ run'[s].obj = run[s].obj
         /\ len(s) \in Nat \ {0}
         /\ \/ /\ run'[s].n \in 1..len(s) /\ info[run[s].obj].alive
               /\ Stores(info[run[s].obj].path, info[run[s].obj].off, run[s].k, run[s].lo, run'[s].n)
               /\ Changed(run[s].obj) /\ info'[run[s].obj].off = info[run[s].obj].off + run'[s].n
               /\ info'[run[s].obj].pos = info[run[s].obj].pos
               /\ info'[run[s].obj].alive = info[run[s].obj].alive
               /\ \/ run'[s].n = len(s) /\ GoesOn(s, "written")
                  \/ run'[s].n < len(s) /\ GoesOn(s, "failed")
               /\ UNCHANGED faults
            \/ /\ GoesOn(s, "failed") /\ run'[s].n = -1 /\ UNCHANGED <<disk, info>>
               /\ \/ Fault("write")
                  \/ ~info[run[s].obj].alive /\ UNCHANGED faults
<1>. DEFINE o == run[s].obj
            f == info[o]
<1>1. Doing(s, "fileContentRq", "write") /\ UNCHANGED <<t_file, t_user_file, m_mapTimstampToFileinfo, client>>
  BY DEF fileContentRq_write, db
<1>2. Runs(s, "fileContentRq", "write") /\ run[s] # Idle /\ StateOK /\ HandlerOK(s)
  BY <1>1, AHandlerRuns DEF Doing, Runs, BaseInv
<1>3. o \in 1..Len(info) /\ run[s].lo < run[s].hi /\ run[s].lo \in Nat /\ run[s].hi \in Nat
  BY <1>2, AHandlerRuns DEF HandlerOK, Runs
<1>4. len(s) \in Nat \ {0}
  BY <1>3 DEF len
<1>5. f \in Session /\ f.path \in Paths /\ f.off \in Int
  BY <1>2, <1>3, SessionIsThere
<1>6. CASE \E n \in IF ShortWrites THEN 1..len(s) ELSE {len(s)} :
              /\ f.alive
              /\ disk' = [disk EXCEPT ![f.path] = Written(@, f.off,
                            [i \in 1..n |-> Byte(md5[run[s].k], run[s].lo + i)])]
              /\ info' = [info EXCEPT ![o].off = @ + n]
              /\ run' = [run EXCEPT ![s].step = IF n = len(s) THEN "written" ELSE "failed",
                                    ![s].n = n]
              /\ UNCHANGED faults
  <2>1. PICK n \in 1..len(s) :
              /\ f.alive
              /\ disk' = [disk EXCEPT ![f.path] = Written(@, f.off,
                            [i \in 1..n |-> Byte(md5[run[s].k], run[s].lo + i)])]
              /\ info' = [info EXCEPT ![o].off = @ + n]
              /\ run' = [run EXCEPT ![s].step = IF n = len(s) THEN "written" ELSE "failed",
                                    ![s].n = n]
              /\ UNCHANGED faults
    <3>1. (IF ShortWrites THEN 1..len(s) ELSE {len(s)}) \subseteq 1..len(s)
      BY <1>4
    <3>. QED  BY <1>6, <3>1
  <2>2. n \in Nat /\ n \in Int
    BY <1>4
  <2>3. Stores(f.path, f.off, run[s].k, run[s].lo, n)
    BY <1>2, <1>3, <1>5, <2>1, <2>2, AHandlerRuns, StoreDoes
  <2>4. PICK x \in Session : x = [f EXCEPT !.off = f.off + n]
    <3>1. f.off + n \in Int
      BY <1>5, <2>2
    <3>2. [f EXCEPT !.off = f.off + n] \in Session
      BY <1>5, <3>1 DEF Session
    <3>. QED  BY <3>2
  <2>5. x.path = f.path /\ x.pos = f.pos /\ x.alive = f.alive /\ x.off = f.off + n
    BY <1>5, <2>4 DEF Session
  <2>6. info' = [info EXCEPT ![o] = x]
    BY <2>1, <2>4
  <2>7. Changed(o) /\ info'[o] = x
    BY <1>2, <1>3, <2>5, <2>6, OneChanges
  <2>8. PICK step \in {"written", "failed"} : step = IF n = len(s) THEN "written" ELSE "failed"
    OBVIOUS
  <2>9. run' = [run EXCEPT ![s].step = step, ![s].n = n] /\ step \in AllSteps
    BY <2>1, <2>8 DEF AllSteps
  <2>10. GoesOn(s, step) /\ run'[s].fid = run[s].fid /\ run'[s].obj = run[s].obj /\ run'[s].n = n
    BY <1>2, <2>2, <2>9, GoesWithN
  <2>11. (n = len(s) /\ GoesOn(s, "written")) \/ (n < len(s) /\ GoesOn(s, "failed"))
    BY <1>4, <2>8, <2>10
  <2>. QED  BY <1>1, <1>2, <1>3, <1>4, <2>1, <2>3, <2>5, <2>7, <2>10, <2>11 DEF SameDb
<1>7. CASE /\ IF f.alive THEN Fault("write") ELSE UNCHANGED faults
           /\ run' = [run EXCEPT ![s].step = "failed", ![s].n = -1]
           /\ UNCHANGED <<disk, info>>
  <2>1. GoesOn(s, "failed") /\ run'[s].fid = run[s].fid /\ run'[s].obj = run[s].obj /\ run'[s].n = -1
    <3>1. -1 \in Int /\ "failed" \in AllSteps
      BY DEF AllSteps
    <3>. QED  BY <1>2, <1>7, <3>1, GoesWithN
  <2>. QED  BY <1>1, <1>2, <1>3, <1>4, <1>7, <2>1 DEF SameDb
<1>. QED  BY <1>6, <1>7 DEF fileContentRq_write

LEMMA FailedDoes ==
  ASSUME BaseInv, NEW s \in Slots, fileContentRq_failed(s)
  PROVE  /\ Runs(s, "fileContentRq", "failed") /\ SameDb /\ UNCHANGED <<disk, m_mapTimstampToFileinfo, client, faults>>
         /\ run[s].obj \in 1..Len(info) /\ Changed(run[s].obj)
         /\ info'[run[s].obj].off = info[run[s].obj].off - run[s].n
         /\ info'[run[s].obj].pos = info[run[s].obj].pos /\ info'[run[s].obj].alive = info[run[s].obj].alive
         /\ GoesOn(s, "reply") /\ run'[s].fid = run[s].fid /\ run'[s].obj = run[s].obj /\ run'[s].n = 0
<1>. DEFINE o == run[s].obj
            f == info[o]
<1>1. Doing(s, "fileContentRq", "failed")
      /\ UNCHANGED <<t_file, t_user_file, disk, m_mapTimstampToFileinfo, client, faults>>
      /\ info' = [info EXCEPT ![o].off = f.off - run[s].n]
      /\ run' = [run EXCEPT ![s].step = "reply", ![s].n = 0]
  BY DEF fileContentRq_failed, SeekBack, db
<1>2. Runs(s, "fileContentRq", "failed") /\ run[s] # Idle /\ StateOK /\ HandlerOK(s)
  BY <1>1, AHandlerRuns DEF Doing, Runs, BaseInv
<1>3. o \in 1..Len(info)
  BY <1>2, AHandlerRuns DEF HandlerOK, Runs
<1>4. f \in Session /\ f.off \in Int /\ run[s].n \in Int
  BY <1>2, <1>3, SessionIsThere, AHandlerRuns
<1>5. PICK x \in Session : x = [f EXCEPT !.off = f.off - run[s].n]
  <2>1. f.off - run[s].n \in Int
    BY <1>4
  <2>2. [f EXCEPT !.off = f.off - run[s].n] \in Session
    BY <1>4, <2>1 DEF Session
  <2>. QED  BY <2>2
<1>6. x.path = f.path /\ x.pos = f.pos /\ x.alive = f.alive /\ x.off = f.off - run[s].n
  BY <1>4, <1>5 DEF Session
<1>7. Changed(o) /\ info'[o] = x
  BY <1>1, <1>2, <1>3, <1>5, <1>6, OneChanges
<1>8. GoesOn(s, "reply") /\ run'[s].fid = run[s].fid /\ run'[s].obj = run[s].obj /\ run'[s].n = 0
  <2>1. 0 \in Int /\ "reply" \in AllSteps
    BY DEF AllSteps
  <2>. QED  BY <1>1, <1>2, <2>1, GoesWithN
<1>. QED  BY <1>1, <1>2, <1>3, <1>6, <1>7, <1>8 DEF SameDb

LEMMA ReadDoes ==
  ASSUME BaseInv, NEW s \in Slots, fileContentRq_read(s)
  PROVE  /\ Runs(s, "fileContentRq", "written") /\ SameDb /\ SameMemory /\ UNCHANGED <<disk, client, faults>>
         /\ run[s].obj \in 1..Len(info)
         /\ GoesOn(s, "advance") /\ run'[s].fid = run[s].fid /\ run'[s].obj = run[s].obj
         /\ run'[s].n = info[run[s].obj].pos + run[s].n /\ run[s].n \in Nat
<1>1. Doing(s, "fileContentRq", "written")
      /\ UNCHANGED <<t_file, t_user_file, disk, m_mapTimstampToFileinfo, info, client, faults>>
      /\ run' = [run EXCEPT ![s].step = "advance", ![s].n = info[run[s].obj].pos + run[s].n]
  BY DEF fileContentRq_read, db, memory
<1>2. Runs(s, "fileContentRq", "written") /\ run[s] # Idle /\ StateOK /\ HandlerOK(s)
  BY <1>1, AHandlerRuns DEF Doing, Runs, BaseInv
<1>3. run[s].obj \in 1..Len(info) /\ run[s].n \in Nat
  BY <1>2, AHandlerRuns DEF HandlerOK, Runs
<1>4. info[run[s].obj].pos + run[s].n \in Int
  <2>. PICK o \in 1..Len(info), n \in Nat : o = run[s].obj /\ n = run[s].n
    BY <1>3
  <2>. PICK pos \in Nat : pos = info[o].pos
    BY <1>2, SessionIsThere
  <2>1. pos + n \in Int
    OBVIOUS
  <2>. QED  BY <2>1, Zenon
<1>5. GoesOn(s, "advance") /\ run'[s].fid = run[s].fid /\ run'[s].obj = run[s].obj
      /\ run'[s].n = info[run[s].obj].pos + run[s].n
  <2>. PICK next \in Int : next = info[run[s].obj].pos + run[s].n
    BY <1>4
  <2>1. StateOK /\ run[s] # Idle /\ "advance" \in AllSteps
        /\ run' = [run EXCEPT ![s].step = "advance", ![s].n = next]
    BY <1>1, <1>2 DEF AllSteps
  <2>2. GoesOn(s, "advance") /\ run'[s].fid = run[s].fid /\ run'[s].obj = run[s].obj /\ run'[s].n = next
    BY <2>1, GoesWithN
  <2>. QED  BY <2>2, Zenon
<1>. QED  BY <1>1, <1>2, <1>3, <1>5 DEF SameDb, SameMemory

LEMMA AdvanceDoes ==
  ASSUME BaseInv, NEW s \in Slots, fileContentRq_advance(s)
  PROVE  /\ Runs(s, "fileContentRq", "advance") /\ SameDb /\ UNCHANGED <<disk, m_mapTimstampToFileinfo, client, faults>>
         /\ run[s].obj \in 1..Len(info) /\ Changed(run[s].obj)
         /\ info'[run[s].obj].pos = run[s].n
         /\ info'[run[s].obj].off = info[run[s].obj].off /\ info'[run[s].obj].alive = info[run[s].obj].alive
         /\ run'[s].fid = run[s].fid /\ run'[s].obj = run[s].obj /\ run'[s].n = 1
         /\ \/ run[s].n >= Size /\ GoesOn(s, "update")
            \/ run[s].n < Size /\ GoesOn(s, "reply")
<1>. DEFINE o == run[s].obj
            f == info[o]
<1>1. Doing(s, "fileContentRq", "advance")
      /\ UNCHANGED <<t_file, t_user_file, disk, m_mapTimstampToFileinfo, client, faults>>
      /\ info' = [info EXCEPT ![o].pos = run[s].n]
      /\ run' = [run EXCEPT ![s].step = IF run[s].n >= Size THEN "update" ELSE "reply", ![s].n = 1]
  BY DEF fileContentRq_advance, AtEnd, db
<1>2. Runs(s, "fileContentRq", "advance") /\ run[s] # Idle /\ StateOK /\ HandlerOK(s)
  BY <1>1, AHandlerRuns DEF Doing, Runs, BaseInv
<1>3. o \in 1..Len(info) /\ run[s].n \in Nat
  BY <1>2, AHandlerRuns DEF HandlerOK, Runs
<1>4. f \in Session
  BY <1>2, <1>3, SessionIsThere
<1>5. PICK x \in Session : x = [f EXCEPT !.pos = run[s].n]
  BY <1>3, <1>4 DEF Session
<1>6. x.path = f.path /\ x.off = f.off /\ x.alive = f.alive /\ x.pos = run[s].n
  BY <1>4, <1>5 DEF Session
<1>7. Changed(o) /\ info'[o] = x
  BY <1>1, <1>2, <1>3, <1>5, <1>6, OneChanges
<1>8. PICK step \in {"update", "reply"} : step = IF run[s].n >= Size THEN "update" ELSE "reply"
  OBVIOUS
<1>9. run' = [run EXCEPT ![s].step = step, ![s].n = 1] /\ step \in AllSteps /\ 1 \in Int
  BY <1>1, <1>8 DEF AllSteps
<1>10. GoesOn(s, step) /\ run'[s].fid = run[s].fid /\ run'[s].obj = run[s].obj /\ run'[s].n = 1
  BY <1>2, <1>9, GoesWithN
<1>11. (run[s].n >= Size /\ GoesOn(s, "update")) \/ (run[s].n < Size /\ GoesOn(s, "reply"))
  BY <1>3, <1>8, <1>10, UploadAssumption
<1>. QED  BY <1>1, <1>2, <1>3, <1>6, <1>7, <1>10, <1>11 DEF SameDb

(* A row is called complete.                                                *)
Completes(fid) ==
  /\ t_file' \in Seq(Row) /\ Len(t_file') = Len(t_file)
  /\ \A i \in 1..Len(t_file) : /\ t_file'[i].md5 = t_file[i].md5 /\ t_file'[i].path = t_file[i].path
                               /\ t_file'[i].state = IF i = fid THEN 1 ELSE t_file[i].state

LEMMA RowIsThere ==
  ASSUME StateOK, NEW i \in 1..Len(t_file)
  PROVE  /\ t_file[i] \in Row /\ t_file[i].md5 \in Md5s /\ t_file[i].path \in Paths
         /\ t_file[i].state \in {0, 1}
<1>1. t_file \in Seq(Row)
  BY DEF StateOK
<1>2. t_file[i] \in Row
  BY <1>1
<1>. QED  BY <1>2 DEF Row

LEMMA UpdateDoes ==
  ASSUME BaseInv, NEW s \in Slots, fileContentRq_update(s)
  PROVE  /\ Runs(s, "fileContentRq", "update") /\ SameMemory /\ UNCHANGED <<t_user_file, disk, client>>
         /\ run[s].fid \in 1..Len(t_file)
         /\ \/ Completes(run[s].fid) /\ UNCHANGED faults
            \/ UNCHANGED t_file /\ Fault("call")
         /\ GoesOn(s, "close") /\ run'[s].fid = run[s].fid /\ run'[s].obj = run[s].obj /\ run'[s].n = run[s].n
<1>1. Doing(s, "fileContentRq", "update")
      /\ UNCHANGED <<t_user_file, disk, m_mapTimstampToFileinfo, info, client>> /\ Goto(s, "close")
  BY DEF fileContentRq_update, memory
<1>2. Runs(s, "fileContentRq", "update") /\ run[s] # Idle /\ StateOK /\ HandlerOK(s)
  BY <1>1, AHandlerRuns DEF Doing, Runs, BaseInv
<1>3. run[s].fid \in 1..Len(t_file)
  BY <1>2 DEF HandlerOK, Runs, RowOf
<1>4. ASSUME t_file' = [t_file EXCEPT ![run[s].fid].state = 1] PROVE Completes(run[s].fid)
  <2>1. PICK fid \in 1..Len(t_file) : fid = run[s].fid
    BY <1>3
  <2>2. t_file[fid] \in Row /\ t_file \in Seq(Row)
    BY <1>2, RowIsThere DEF StateOK
  <2>3. PICK x \in Row : x = [t_file[fid] EXCEPT !.state = 1]
    BY <2>2 DEF Row
  <2>4. x.md5 = t_file[fid].md5 /\ x.path = t_file[fid].path /\ x.state = 1
    BY <2>2, <2>3 DEF Row
  <2>5. t_file' = [t_file EXCEPT ![fid] = x]
    BY <1>4, <2>1, <2>3
  <2>6. /\ t_file' \in Seq(Row) /\ Len(t_file') = Len(t_file) /\ t_file'[fid] = x
        /\ \A i \in 1..Len(t_file) : i # fid => t_file'[i] = t_file[i]
    BY <2>2, <2>5
  <2>. QED  BY <2>1, <2>4, <2>6 DEF Completes
<1>5. (Completes(run[s].fid) /\ UNCHANGED faults) \/ (UNCHANGED t_file /\ Fault("call"))
  BY <1>3, <1>4 DEF fileContentRq_update
<1>. QED  BY <1>1, <1>2, <1>3, <1>5, GotoDoes DEF SameMemory, AllSteps

LEMMA CloseDoes ==
  ASSUME BaseInv, NEW s \in Slots, fileContentRq_close(s)
  PROVE  /\ Runs(s, "fileContentRq", "close") /\ SameDb /\ UNCHANGED <<disk, client, faults>>
         /\ run[s].obj \in 1..Len(info) /\ Changed(run[s].obj) /\ info'[run[s].obj].alive = FALSE
         /\ info'[run[s].obj].off = info[run[s].obj].off /\ info'[run[s].obj].pos = info[run[s].obj].pos
         /\ m_mapTimstampToFileinfo' = [m_mapTimstampToFileinfo EXCEPT ![user_time[run[s].k]] = 0]
         /\ m_mapTimstampToFileinfo' \in [Keys -> 0..Len(info')]
         /\ GoesOn(s, "reply") /\ run'[s].fid = run[s].fid /\ run'[s].obj = run[s].obj /\ run'[s].n = run[s].n
<1>. DEFINE o == run[s].obj
            f == info[o]
<1>1. Doing(s, "fileContentRq", "close") /\ UNCHANGED <<t_file, t_user_file, disk, client, faults>>
      /\ info' = [info EXCEPT ![o].alive = FALSE] /\ Goto(s, "reply")
      /\ m_mapTimstampToFileinfo' = [m_mapTimstampToFileinfo EXCEPT ![user_time[run[s].k]] = 0]
  BY DEF fileContentRq_close, db, Key
<1>2. Runs(s, "fileContentRq", "close") /\ run[s] # Idle /\ StateOK /\ HandlerOK(s)
  BY <1>1, AHandlerRuns DEF Doing, Runs, BaseInv
<1>3. o \in 1..Len(info)
  BY <1>2, AHandlerRuns DEF HandlerOK, Runs
<1>4. f \in Session
  BY <1>2, <1>3, SessionIsThere
<1>5. PICK x \in Session : x = [f EXCEPT !.alive = FALSE]
  BY <1>3, <1>4 DEF Session
<1>6. x.path = f.path /\ x.off = f.off /\ x.pos = f.pos /\ x.alive = FALSE
  BY <1>4, <1>5 DEF Session
<1>7. Changed(o) /\ info'[o] = x
  BY <1>1, <1>2, <1>3, <1>5, <1>6, OneChanges
<1>8. m_mapTimstampToFileinfo' \in [Keys -> 0..Len(info')]
  <2>1. Len(info') = Len(info) /\ 0 \in 0..Len(info) /\ m_mapTimstampToFileinfo \in [Keys -> 0..Len(info)]
    BY <1>2, <1>7 DEF StateOK, Changed
  <2>. QED  BY <1>1, <2>1
<1>. QED  BY <1>1, <1>2, <1>3, <1>6, <1>7, <1>8, GotoDoes DEF SameDb, AllSteps

-----------------------------------------------------------------------------
LEMMA ContinueFindDoes ==
  ASSUME StateOK, NEW s \in Slots, continueUpload_find(s)
  PROVE  /\ Runs(s, "continueUpload", "start") /\ SameDb /\ SameMemory /\ UNCHANGED <<disk, client, faults>>
         /\ run'[s].fid = run[s].fid /\ run'[s].n = run[s].n
         /\ run'[s].obj = m_mapTimstampToFileinfo[timestamp[run[s].k]]
         /\ run'[s].obj \in 0..Len(info)
         /\ \/ run'[s].obj = 0 /\ GoesOn(s, "select")
            \/ run'[s].obj # 0 /\ GoesOn(s, "seek")
<1>. DEFINE file == m_mapTimstampToFileinfo[timestamp[run[s].k]]
<1>1. Doing(s, "continueUpload", "start") /\ UNCHANGED <<t_file, t_user_file, disk, m_mapTimstampToFileinfo, info, client, faults>>
      /\ run' = [run EXCEPT ![s].step = IF file = 0 THEN "select" ELSE "seek", ![s].obj = file]
  BY DEF continueUpload_find, db, memory
<1>2. Runs(s, "continueUpload", "start") /\ run[s] # Idle
  BY <1>1, AHandlerRuns DEF Doing, Runs
<1>3. timestamp[run[s].k] \in Keys
  BY <1>2, AHandlerRuns, KeysAre
<1>4. file \in 0..Len(info)
  BY <1>3 DEF StateOK
<1>. HIDE DEF file
<1>5. PICK step \in {"select", "seek"} : step = IF file = 0 THEN "select" ELSE "seek"
  OBVIOUS
<1>6. run' = [run EXCEPT ![s].step = step, ![s].obj = file] /\ step \in AllSteps /\ file \in Nat
  BY <1>1, <1>4, <1>5 DEF AllSteps
<1>7. GoesOn(s, step) /\ run'[s].fid = run[s].fid /\ run'[s].obj = file /\ run'[s].n = run[s].n
  BY <1>2, <1>6, GoesWithObj
<1>. QED  BY <1>1, <1>2, <1>4, <1>5, <1>7 DEF SameDb, SameMemory, file

LEMMA ContinueSelectDoes ==
  ASSUME StateOK, NEW s \in Slots, continueUpload_select(s)
  PROVE  /\ Runs(s, "continueUpload", "select") /\ SameDb /\ SameMemory /\ UNCHANGED <<disk, client, faults>>
         /\ \/ Ends(s)
            \/ /\ GoesOn(s, "reopen") /\ run'[s].fid = run[s].fid /\ run'[s].obj = run[s].obj
               /\ run'[s].n = run[s].n
<1>1. Doing(s, "continueUpload", "select") /\ UNCHANGED <<t_file, t_user_file, disk, m_mapTimstampToFileinfo, info, client, faults>>
      /\ (Goto(s, "reopen") \/ Return(s))
  BY DEF continueUpload_select, db, memory
<1>2. Runs(s, "continueUpload", "select") /\ run[s] # Idle
  BY <1>1, AHandlerRuns DEF Doing, Runs
<1>. QED  BY <1>1, <1>2, GotoDoes, ReturnDoes DEF SameDb, SameMemory, AllSteps

LEMMA ReopenDoes ==
  ASSUME BaseInv, NEW s \in Slots, continueUpload_open(s)
  PROVE  /\ Runs(s, "continueUpload", "reopen") /\ SameDb /\ UNCHANGED <<disk, client, faults>>
         /\ Opened(run[s].k, path(run[s].k), run[s].fid)
         /\ GoesOn(s, "seek") /\ run'[s].fid = run[s].fid /\ run'[s].obj = Len(info) + 1 /\ run'[s].n = run[s].n
<1>1. Doing(s, "continueUpload", "reopen") /\ UNCHANGED <<t_file, t_user_file, disk, client, faults>>
      /\ NewSession(s, t_file[run[s].fid].path, run[s].fid)
      /\ run' = [run EXCEPT ![s].step = "seek", ![s].obj = Len(info) + 1]
  BY DEF continueUpload_open, db
<1>2. Runs(s, "continueUpload", "reopen") /\ run[s] # Idle /\ StateOK /\ HandlerOK(s)
  BY <1>1, AHandlerRuns DEF Doing, Runs, BaseInv
<1>3. RowOf(run[s].k, run[s].fid) /\ run[s].fid \in Nat
  BY <1>2, AHandlerRuns DEF HandlerOK, Runs
<1>4. NewSession(s, path(run[s].k), run[s].fid)
  BY <1>1, <1>3 DEF RowOf
<1>5. path(run[s].k) \in Paths /\ Len(info) + 1 \in Nat
  BY <1>2, AHandlerRuns, PathsAre DEF StateOK
<1>6. Opened(run[s].k, path(run[s].k), run[s].fid)
  BY <1>2, <1>3, <1>4, <1>5, OneOpens
<1>7. /\ GoesOn(s, "seek") /\ run'[s].fid = run[s].fid /\ run'[s].obj = Len(info) + 1
      /\ run'[s].n = run[s].n
  BY <1>1, <1>2, <1>5, GoesWithObj DEF AllSteps
<1>. QED  BY <1>1, <1>2, <1>6, <1>7 DEF SameDb

LEMMA SeekDoes ==
  ASSUME BaseInv, NEW s \in Slots, continueUpload_seek(s)
  PROVE  /\ Runs(s, "continueUpload", "seek") /\ SameDb /\ UNCHANGED <<disk, m_mapTimstampToFileinfo, client, faults>>
         /\ run[s].obj \in 1..Len(info) /\ Changed(run[s].obj)
         /\ run'[s].n \in Nat /\ run'[s].n = Len(disk[info[run[s].obj].path])
         /\ info'[run[s].obj].off = run'[s].n /\ info'[run[s].obj].pos = run'[s].n
         /\ info'[run[s].obj].alive = info[run[s].obj].alive
         /\ GoesOn(s, "reply") /\ run'[s].fid = run[s].fid /\ run'[s].obj = run[s].obj
<1>. DEFINE o == run[s].obj
            f == info[o]
            end == Len(disk[f.path])
<1>1. Doing(s, "continueUpload", "seek")
      /\ UNCHANGED <<t_file, t_user_file, disk, m_mapTimstampToFileinfo, client, faults>>
      /\ info' = [info EXCEPT ![o] = SeekEnd(f)]
      /\ run' = [run EXCEPT ![s].step = "reply", ![s].n = end]
  BY DEF continueUpload_seek, db
<1>2. Runs(s, "continueUpload", "seek") /\ run[s] # Idle /\ StateOK /\ HandlerOK(s)
  BY <1>1, AHandlerRuns DEF Doing, Runs, BaseInv
<1>3. o \in 1..Len(info)
  BY <1>2, AHandlerRuns DEF HandlerOK, Runs
<1>4. f \in Session /\ f.path \in Paths
  BY <1>2, <1>3, SessionIsThere
<1>5. end \in Nat
  <2>1. disk[f.path] \in Seq(Content)
    BY <1>2, <1>4 DEF StateOK
  <2>. QED  BY <2>1
<1>. HIDE DEF end
<1>6. PICK m \in Nat : m = end
  BY <1>5
<1>7. PICK x \in Session : x = [f EXCEPT !.pos = m, !.off = m]
  <2>1. m \in Int
    BY <1>6
  <2>2. [f EXCEPT !.pos = m, !.off = m] \in Session
    BY <1>4, <1>6, <2>1 DEF Session
  <2>. QED  BY <2>2
<1>8. x.path = f.path /\ x.off = m /\ x.pos = m /\ x.alive = f.alive
  BY <1>4, <1>7 DEF Session
<1>9. SeekEnd(f) = x
  BY <1>6, <1>7 DEF SeekEnd, end
<1>10. Changed(o) /\ info'[o] = x
  BY <1>1, <1>2, <1>3, <1>8, <1>9, OneChanges
<1>11. GoesOn(s, "reply") /\ run'[s].fid = run[s].fid /\ run'[s].obj = run[s].obj /\ run'[s].n = m
  <2>1. m \in Int /\ "reply" \in AllSteps
    BY <1>6 DEF AllSteps
  <2>2. run' = [run EXCEPT ![s].step = "reply", ![s].n = m]
    BY <1>1, <1>6
  <2>. QED  BY <1>2, <2>1, <2>2, GoesWithN
<1>. QED  BY <1>1, <1>2, <1>3, <1>6, <1>8, <1>10, <1>11 DEF SameDb, end

-----------------------------------------------------------------------------
(* The ends of a request: an answer, no answer, or never received.          *)
LEMMA CallFailsDoes ==
  ASSUME StateOK, NEW s \in Slots, CallFails(s)
  PROVE  /\ run[s] # Idle /\ run[s].fn \in {"uploadFile", "continueUpload"}
         /\ Ends(s) /\ Fault("call") /\ SameDb /\ SameMemory /\ UNCHANGED <<disk, client>>
         /\ run[s].fn = "continueUpload" => run[s].step \in {"select", "reopen"}
         /\ run[s].fn = "uploadFile" =>
              run[s].step \in {"start", "quick", "open", "insertFile", "selectId", "insertRel"}
BY ReturnDoes DEF CallFails, Doing, SameDb, SameMemory, db, memory

LEMMA LostDoes ==
  ASSUME StateOK, NEW s \in Slots, lost(s)
  PROVE  /\ run[s] # Idle /\ run[s].step = "start" /\ run[s].epoch # client[run[s].k].epoch
         /\ Ends(s) /\ SameDb /\ SameMemory /\ UNCHANGED <<disk, client, faults>>
BY ReturnDoes DEF lost, SameDb, SameMemory, db, memory

(* One client changes.                                                      *)
OthersClients(k) == \A l \in Transfers \ {k} : client'[l] = client[l]

LEMMA ClientIs ==
  ASSUME StateOK, NEW k \in Transfers
  PROVE  /\ client[k] \in Peer /\ client[k].phase \in Phases /\ client[k].fid \in Nat
         /\ client[k].pos \in Nat /\ client[k].epoch \in Nat
BY DEF StateOK, Peer

LEMMA OneClientChanges ==
  ASSUME StateOK, NEW k \in Transfers, NEW c \in Peer, client' = [client EXCEPT ![k] = c]
  PROVE  client' \in [Transfers -> Peer] /\ OthersClients(k) /\ client'[k] = c
BY DEF StateOK, OthersClients

(* What a client makes of an answer.                                        *)
AnswerTo(k, s) ==
  LET c == client[k]
      d == client'[k]
  IN  /\ d.epoch = c.epoch
      /\ run[s].fn = "uploadFile" /\ run[s].step = "replyQuick" =>
           d.phase = "done" /\ d.fid = run[s].fid /\ d.pos = c.pos
      /\ run[s].fn = "uploadFile" /\ run[s].step = "reply" =>
           d.phase = "sending" /\ d.fid = run[s].fid /\ d.pos = 0
      /\ run[s].fn = "fileContentRq" =>
           /\ d.fid = c.fid
           /\ run[s].n = 1 => d.phase = AllSent(run[s].hi) /\ d.pos = run[s].hi
           /\ run[s].n # 1 => d.phase = "sending" /\ d.pos = c.pos
      /\ run[s].fn = "continueUpload" =>
           d.fid = c.fid /\ d.phase = AllSent(run[s].n) /\ d.pos = run[s].n

LEMMA SendDataDoes ==
  ASSUME BaseInv, NEW s \in Slots, SendData(s)
  PROVE  /\ run[s] # Idle /\ run[s].step \in {"reply", "replyQuick"} /\ Ends(s)
         /\ run[s].step = "replyQuick" => run[s].fn = "uploadFile"
         /\ SameDb /\ SameMemory /\ UNCHANGED <<disk, faults>>
         /\ \/ UNCHANGED client /\ run[s].epoch # client[run[s].k].epoch
            \/ /\ client' \in [Transfers -> Peer] /\ OthersClients(run[s].k)
               /\ AnswerTo(run[s].k, s) /\ run[s].epoch = client[run[s].k].epoch
<1>1. run[s] # Idle /\ run[s].step \in {"reply", "replyQuick"} /\ StateOK /\ HandlerOK(s)
  BY DEF SendData, BaseInv
<1>2. Ends(s) /\ SameDb /\ SameMemory /\ UNCHANGED <<disk, faults>>
  BY <1>1, ReturnDoes DEF SendData, SameDb, SameMemory, db, memory
<1>3. run[s].step = "replyQuick" => run[s].fn = "uploadFile"
  BY <1>1, AHandlerRuns DEF HandlerOK, Steps, Handlers
<1>4. PICK k \in Transfers : k = run[s].k
  BY <1>1, AHandlerRuns
<1>5. CASE run[s].epoch # client[k].epoch
  <2>1. UNCHANGED client
    BY <1>4, <1>5 DEF SendData
  <2>. QED  BY <1>1, <1>2, <1>3, <1>4, <1>5, <2>1
<1>6. CASE run[s].epoch = client[k].epoch
  <2>1. client' = [client EXCEPT ![k] = Answered(client[k], run[s])]
    BY <1>4, <1>6 DEF SendData
  <2>2. /\ run[s].fn \in Handlers /\ run[s].fid \in Nat /\ run[s].hi \in Nat /\ run[s].n \in Int
        /\ run[s].fn = "continueUpload" => run[s].n \in Nat
    BY <1>1, <1>3, AHandlerRuns DEF HandlerOK, Handlers
  <2>3. client[k] \in Peer
    BY <1>1, ClientIs
  <2>4. \A n : AllSent(n) \in Phases
    BY DEF AllSent, Phases
  <2>5. CASE run[s].step = "replyQuick"
    <3>1. PICK c \in Peer : c = [client[k] EXCEPT !.phase = "done", !.fid = run[s].fid]
      BY <2>2, <2>3 DEF Peer, Phases
    <3>2. Answered(client[k], run[s]) = c
      BY <2>5, <3>1 DEF Answered
    <3>3. /\ c.phase = "done" /\ c.fid = run[s].fid /\ c.pos = client[k].pos /\ c.epoch = client[k].epoch
      BY <2>3, <3>1 DEF Peer
    <3>4. client' \in [Transfers -> Peer] /\ OthersClients(k) /\ client'[k] = c
      BY <1>1, <2>1, <3>2, OneClientChanges
    <3>5. AnswerTo(k, s)
      BY <1>3, <2>5, <3>3, <3>4 DEF AnswerTo
    <3>. QED  BY <1>1, <1>2, <1>3, <1>4, <1>6, <3>4, <3>5
  <2>6. CASE run[s].step = "reply" /\ run[s].fn = "uploadFile"
    <3>1. PICK c \in Peer : c = [client[k] EXCEPT !.phase = "sending", !.fid = run[s].fid, !.pos = 0]
      BY <2>2, <2>3 DEF Peer, Phases
    <3>2. Answered(client[k], run[s]) = c
      BY <2>6, <3>1 DEF Answered
    <3>3. /\ c.phase = "sending" /\ c.fid = run[s].fid /\ c.pos = 0 /\ c.epoch = client[k].epoch
      BY <2>3, <3>1 DEF Peer
    <3>4. client' \in [Transfers -> Peer] /\ OthersClients(k) /\ client'[k] = c
      BY <1>1, <2>1, <3>2, OneClientChanges
    <3>5. AnswerTo(k, s)
      BY <2>6, <3>3, <3>4 DEF AnswerTo
    <3>. QED  BY <1>1, <1>2, <1>3, <1>4, <1>6, <3>4, <3>5
  <2>7. CASE run[s].step = "reply" /\ run[s].fn = "fileContentRq" /\ run[s].n = 1
    <3>1. PICK c \in Peer : c = [client[k] EXCEPT !.phase = AllSent(run[s].hi), !.pos = run[s].hi]
      BY <2>2, <2>3, <2>4 DEF Peer
    <3>2. Answered(client[k], run[s]) = c
      BY <2>7, <3>1 DEF Answered
    <3>3. /\ c.phase = AllSent(run[s].hi) /\ c.fid = client[k].fid /\ c.pos = run[s].hi /\ c.epoch = client[k].epoch
      BY <2>3, <3>1 DEF Peer
    <3>4. client' \in [Transfers -> Peer] /\ OthersClients(k) /\ client'[k] = c
      BY <1>1, <2>1, <3>2, OneClientChanges
    <3>5. AnswerTo(k, s)
      BY <2>7, <3>3, <3>4 DEF AnswerTo
    <3>. QED  BY <1>1, <1>2, <1>3, <1>4, <1>6, <3>4, <3>5
  <2>8. CASE run[s].step = "reply" /\ run[s].fn = "fileContentRq" /\ run[s].n # 1
    <3>1. PICK c \in Peer : c = [client[k] EXCEPT !.phase = "sending"]
      BY <2>2, <2>3, <2>4 DEF Peer, Phases
    <3>2. Answered(client[k], run[s]) = c
      BY <2>8, <3>1 DEF Answered
    <3>3. /\ c.phase = "sending" /\ c.fid = client[k].fid /\ c.pos = client[k].pos /\ c.epoch = client[k].epoch
      BY <2>3, <3>1 DEF Peer
    <3>4. client' \in [Transfers -> Peer] /\ OthersClients(k) /\ client'[k] = c
      BY <1>1, <2>1, <3>2, OneClientChanges
    <3>5. AnswerTo(k, s)
      BY <2>8, <3>3, <3>4 DEF AnswerTo
    <3>. QED  BY <1>1, <1>2, <1>3, <1>4, <1>6, <3>4, <3>5
  <2>9. CASE run[s].step = "reply" /\ run[s].fn = "continueUpload"
    <3>1. PICK c \in Peer : c = [client[k] EXCEPT !.phase = AllSent(run[s].n), !.pos = run[s].n]
      BY <2>2, <2>3, <2>4, <2>9 DEF Peer
    <3>2. Answered(client[k], run[s]) = c
      BY <2>9, <3>1 DEF Answered
    <3>3. /\ c.phase = AllSent(run[s].n) /\ c.fid = client[k].fid /\ c.pos = run[s].n /\ c.epoch = client[k].epoch
      BY <2>3, <3>1 DEF Peer
    <3>4. client' \in [Transfers -> Peer] /\ OthersClients(k) /\ client'[k] = c
      BY <1>1, <2>1, <3>2, OneClientChanges
    <3>5. AnswerTo(k, s)
      BY <2>9, <3>3, <3>4 DEF AnswerTo
    <3>. QED  BY <1>1, <1>2, <1>3, <1>4, <1>6, <3>4, <3>5
  <2>. QED  BY <1>1, <2>2, <2>5, <2>6, <2>7, <2>8, <2>9 DEF Handlers
<1>. QED  BY <1>4, <1>5, <1>6

-----------------------------------------------------------------------------
(* Requests of a client, and connections that end.                          *)
Asks(k, s, fn, lo, hi) ==
  /\ run[s] = Idle /\ run' \in [Slots -> Handling \cup {Idle}] /\ run'[s] \in Handling /\ OthersRun(s)
  /\ run'[s].fn = fn /\ run'[s].k = k /\ run'[s].epoch = client[k].epoch /\ run'[s].step = "start"
  /\ run'[s].fid = client[k].fid /\ run'[s].lo = lo /\ run'[s].hi = hi /\ run'[s].obj = 0
  /\ run'[s].n = 0
Becomes(k, phase) ==
  /\ client' \in [Transfers -> Peer] /\ OthersClients(k) /\ client'[k].phase = phase
  /\ client'[k].fid = client[k].fid /\ client'[k].pos = client[k].pos
  /\ client'[k].epoch = client[k].epoch

LEMMA SubmitDoes ==
  ASSUME StateOK, NEW k \in Transfers, NEW fn \in Handlers, NEW lo \in Nat, NEW hi \in Nat,
         Submit(Request(fn, k, lo, hi))
  PROVE  \E s \in Slots : Asks(k, s, fn, lo, hi)
<1>1. PICK h \in Handling : h = Request(fn, k, lo, hi)
  <2>1. client[k].epoch \in Nat /\ client[k].fid \in Nat /\ "start" \in AllSteps /\ 0 \in Nat /\ 0 \in Int
    BY ClientIs DEF AllSteps
  <2>2. Request(fn, k, lo, hi) \in Handling
    BY <2>1 DEF Request, Handling
  <2>. QED  BY <2>2
<1>2. /\ h.fn = fn /\ h.k = k /\ h.epoch = client[k].epoch /\ h.step = "start"
      /\ h.fid = client[k].fid /\ h.lo = lo /\ h.hi = hi /\ h.obj = 0 /\ h.n = 0
  BY <1>1 DEF Request
<1>3. PICK s \in Slots : run[s] = Idle /\ run' = [run EXCEPT ![s] = h]
  BY <1>1 DEF Submit
<1>4. run' \in [Slots -> Handling \cup {Idle}] /\ run'[s] = h /\ OthersRun(s)
  BY <1>3 DEF StateOK, OthersRun
<1>. QED  BY <1>2, <1>3, <1>4 DEF Asks

LEMMA PhaseDoes ==
  ASSUME StateOK, NEW k \in Transfers, NEW phase \in Phases, client' = [client EXCEPT ![k].phase = phase]
  PROVE  Becomes(k, phase)
<1>1. client[k] \in Peer
  BY ClientIs
<1>2. PICK c \in Peer : c = [client[k] EXCEPT !.phase = phase]
  BY <1>1 DEF Peer
<1>3. c.phase = phase /\ c.fid = client[k].fid /\ c.pos = client[k].pos /\ c.epoch = client[k].epoch
  BY <1>1, <1>2 DEF Peer
<1>4. client' = [client EXCEPT ![k] = c]
  BY <1>2
<1>5. client' \in [Transfers -> Peer] /\ OthersClients(k) /\ client'[k] = c
  BY <1>4, OneClientChanges
<1>. QED  BY <1>3, <1>5 DEF Becomes

LEMMA SendUploadDoes ==
  ASSUME StateOK, NEW k \in Transfers, sendUpload(k)
  PROVE  /\ client[k].phase = "new" /\ Becomes(k, "asked")
         /\ SameDb /\ SameMemory /\ UNCHANGED <<disk, faults>>
         /\ \E s \in Slots : Asks(k, s, "uploadFile", 0, 0)
<1>1. /\ client[k].phase = "new" /\ client' = [client EXCEPT ![k].phase = "asked"]
      /\ Submit(Request("uploadFile", k, 0, 0))
      /\ SameDb /\ SameMemory /\ UNCHANGED <<disk, faults>>
  BY DEF sendUpload, SameDb, SameMemory, db, memory
<1>2. "asked" \in Phases /\ "uploadFile" \in Handlers /\ 0 \in Nat
  BY DEF Phases, Handlers
<1>3. Becomes(k, "asked")
  BY <1>1, <1>2, PhaseDoes
<1>4. \E s \in Slots : Asks(k, s, "uploadFile", 0, 0)
  BY <1>1, <1>2, SubmitDoes
<1>. QED  BY <1>1, <1>3, <1>4

LEMMA BlockEndIs == \A lo \in Nat : BlockEnd(lo) \in Nat /\ BlockEnd(lo) <= Size
BY UploadAssumption DEF BlockEnd

LEMMA SendBlockDoes ==
  ASSUME StateOK, NEW k \in Transfers, sendBlock(k)
  PROVE  /\ client[k].phase = "sending" /\ Becomes(k, "waiting")
         /\ SameDb /\ SameMemory /\ UNCHANGED <<disk, faults>>
         /\ client[k].pos \in Nat
         /\ \E s \in Slots : Asks(k, s, "fileContentRq", client[k].pos, BlockEnd(client[k].pos))
<1>1. /\ client[k].phase = "sending" /\ client' = [client EXCEPT ![k].phase = "waiting"]
      /\ Submit(Request("fileContentRq", k, client[k].pos, BlockEnd(client[k].pos)))
      /\ SameDb /\ SameMemory /\ UNCHANGED <<disk, faults>>
  BY DEF sendBlock, SameDb, SameMemory, db, memory, BlockEnd
<1>2. "waiting" \in Phases /\ "fileContentRq" \in Handlers /\ client[k].pos \in Nat
  BY ClientIs DEF Phases, Handlers
<1>3. Becomes(k, "waiting")
  BY <1>1, <1>2, PhaseDoes
<1>4. BlockEnd(client[k].pos) \in Nat
  BY <1>2, BlockEndIs
<1>5. \E s \in Slots : Asks(k, s, "fileContentRq", client[k].pos, BlockEnd(client[k].pos))
  BY <1>1, <1>2, <1>4, SubmitDoes
<1>. QED  BY <1>1, <1>2, <1>3, <1>5

LEMMA SendContinueDoes ==
  ASSUME StateOK, NEW k \in Transfers, sendContinue(k)
  PROVE  /\ client[k].phase = "offline" /\ Becomes(k, "resuming")
         /\ SameDb /\ SameMemory /\ UNCHANGED <<disk, faults>>
         /\ \E s \in Slots : Asks(k, s, "continueUpload", 0, 0)
<1>1. /\ client[k].phase = "offline" /\ client' = [client EXCEPT ![k].phase = "resuming"]
      /\ Submit(Request("continueUpload", k, 0, 0))
      /\ SameDb /\ SameMemory /\ UNCHANGED <<disk, faults>>
  BY DEF sendContinue, SameDb, SameMemory, db, memory
<1>2. "resuming" \in Phases /\ "continueUpload" \in Handlers /\ 0 \in Nat
  BY DEF Phases, Handlers
<1>3. Becomes(k, "resuming")
  BY <1>1, <1>2, PhaseDoes
<1>4. \E s \in Slots : Asks(k, s, "continueUpload", 0, 0)
  BY <1>1, <1>2, SubmitDoes
<1>. QED  BY <1>1, <1>3, <1>4

(* A client without its connection.                                         *)
GoesOffline(k) ==
  /\ client'[k] \in Peer /\ client'[k].fid = client[k].fid /\ client'[k].pos = client[k].pos
  /\ client'[k].epoch = client[k].epoch + 1
  /\ client'[k].phase = IF client[k].fid = 0 THEN "gone" ELSE "offline"

LEMMA OfflineIs ==
  ASSUME StateOK, NEW k \in Transfers, client'[k] = Offline(client[k])
  PROVE  GoesOffline(k)
<1>1. client[k] \in Peer /\ client[k].epoch + 1 \in Nat
  BY ClientIs
<1>2. PICK phase \in Phases : phase = IF client[k].fid = 0 THEN "gone" ELSE "offline"
  BY DEF Phases
<1>3. client'[k] = [client[k] EXCEPT !.epoch = client[k].epoch + 1, !.phase = phase]
  BY <1>2 DEF Offline
<1>. QED  BY <1>1, <1>2, <1>3 DEF Peer, GoesOffline

LEMMA DisconnectDoes ==
  ASSUME StateOK, NEW k \in Transfers, disconnect(k)
  PROVE  /\ client[k].phase \in Working /\ client' \in [Transfers -> Peer] /\ OthersClients(k)
         /\ GoesOffline(k) /\ Fault("reconnect")
         /\ SameDb /\ SameMemory /\ UNCHANGED <<disk, run>>
<1>1. /\ client[k].phase \in Working /\ client' = [client EXCEPT ![k] = Offline(client[k])] /\ Fault("reconnect")
      /\ SameDb /\ SameMemory /\ UNCHANGED <<disk, run>>
  BY DEF disconnect, SameDb, SameMemory, db, memory
<1>2. client'[k] = Offline(client[k]) /\ OthersClients(k)
  BY <1>1 DEF StateOK, OthersClients
<1>3. GoesOffline(k)
  BY <1>2, OfflineIs
<1>4. client' \in [Transfers -> Peer]
  BY <1>1, <1>2, <1>3 DEF StateOK, GoesOffline
<1>. QED  BY <1>1, <1>2, <1>3, <1>4

LEMMA CrashDoes ==
  ASSUME StateOK, crash
  PROVE  /\ Fault("crash") /\ SameDb /\ UNCHANGED disk
         /\ info' = <<>> /\ m_mapTimstampToFileinfo' = [key \in Keys |-> 0] /\ run' = [s \in Slots |-> Idle]
         /\ client' \in [Transfers -> Peer]
         /\ \A k \in Transfers : IF client[k].phase \in Working THEN GoesOffline(k) ELSE client'[k] = client[k]
<1>1. /\ Fault("crash") /\ SameDb /\ UNCHANGED disk
      /\ info' = <<>> /\ m_mapTimstampToFileinfo' = [key \in Keys |-> 0] /\ run' = [s \in Slots |-> Idle]
      /\ client' = [k \in Transfers |-> IF client[k].phase \in Working THEN Offline(client[k]) ELSE client[k]]
  BY DEF crash, SameDb, db
<1>2. ASSUME NEW k \in Transfers
      PROVE  /\ IF client[k].phase \in Working THEN GoesOffline(k) ELSE client'[k] = client[k]
             /\ client'[k] \in Peer
  <2>1. CASE client[k].phase \in Working
    <3>1. client'[k] = Offline(client[k])
      BY <1>1, <2>1
    <3>. QED  BY <2>1, <3>1, OfflineIs DEF GoesOffline
  <2>2. CASE client[k].phase \notin Working
    BY <1>1, <2>2, ClientIs
  <2>. QED  BY <2>1, <2>2
<1>3. client' \in [Transfers -> Peer]
  BY <1>1, <1>2
<1>. QED  BY <1>1, <1>2, <1>3

LEMMA FaultDoes ==
  ASSUME StateOK, NEW kind, Fault(kind)
  PROVE  /\ faults' \in [left : Nat, seen : SUBSET AllFaults]
         /\ faults'.seen = faults.seen \cup {kind} /\ kind \in AllFaults
<1>1. /\ faults.left \in Nat /\ faults.seen \in SUBSET AllFaults /\ faults.left > 0 /\ kind \in AllFaults
      /\ faults' = [left |-> faults.left - 1, seen |-> faults.seen \cup {kind}]
  BY UploadAssumption DEF StateOK, Fault
<1>2. faults.left - 1 \in Nat
  BY <1>1
<1>. QED  BY <1>1, <1>2

-----------------------------------------------------------------------------
(* BaseInv, step by step.                                                   *)
RowsKept ==
  /\ Len(t_file) <= Len(t_file')
  /\ \A i \in 1..Len(t_file) : /\ t_file'[i].md5 = t_file[i].md5 /\ t_file'[i].path = t_file[i].path
                               /\ t_file[i].state = 1 => t_file'[i].state = 1

LEMMA RowsStay ==
  ASSUME StateOK, StateOK', RowsKept
  PROVE  /\ \A k, i : RowOf(k, i) => RowOf(k, i)'
         /\ \A m, i : i \in Complete(m) => i \in Complete(m)'
<1>1. Len(t_file) \in Nat /\ Len(t_file') \in Nat /\ Len(t_file) <= Len(t_file')
  BY DEF StateOK, RowsKept
<1>2. \A i \in 1..Len(t_file) : i \in 1..Len(t_file')
  BY <1>1
<1>. QED  BY <1>2 DEF RowsKept, RowOf, Complete

LEMMA SameRows == SameDb => RowsKept
BY DEF SameDb, RowsKept

LEMMA BaseInvInit == Init => BaseInv
<1>. SUFFICES ASSUME Init PROVE BaseInv
  OBVIOUS
<1>1. StateOK
  <2>1. t_file \in Seq(Row) /\ info \in Seq(Session) /\ Len(info) = 0 /\ <<>> \in Seq(Content)
    BY DEF Init
  <2>2. disk \in [Paths -> Seq(Content)]
    BY <2>1 DEF Init
  <2>3. m_mapTimstampToFileinfo \in [Keys -> 0..Len(info)]
    BY <2>1 DEF Init
  <2>4. client \in [Transfers -> Peer]
    BY DEF Init, Peer, Phases
  <2>5. faults \in [left : Nat, seen : SUBSET AllFaults]
    BY UploadAssumption DEF Init
  <2>. QED  BY <2>1, <2>2, <2>3, <2>4, <2>5 DEF Init, StateOK
<1>2. \A k \in Transfers : ClientOK(k)
  BY DEF Init, ClientOK, HasId
<1>. QED  BY <1>1, <1>2 DEF Init, BaseInv

LEMMA HandlerStays ==
  ASSUME StateOK, StateOK', RowsKept, Len(info) <= Len(info'), NEW t \in Slots, run[t] # Idle, HandlerOK(t),
         run'[t] = run[t]
  PROVE  HandlerOK(t)'
<1>1. run[t].obj \in 0..Len(info')
  <2>1. Len(info) \in Nat /\ Len(info') \in Nat
    BY DEF StateOK
  <2>. QED  BY <2>1 DEF HandlerOK
<1>2. /\ \A k, i : RowOf(k, i) => RowOf(k, i)'
      /\ \A m, i : i \in Complete(m) => i \in Complete(m)'
  BY RowsStay
<1>3. (\E i \in 1..Len(t_file) : RowOf(run[t].k, i)) => (\E i \in 1..Len(t_file) : RowOf(run[t].k, i))'
  BY <1>2 DEF RowOf
<1>4. run[t].fn = "uploadFile" \/ run[t].fn = "fileContentRq" \/ run[t].fn = "continueUpload"
  BY AHandlerRuns DEF Handlers
<1>5. CASE run[t].fn = "uploadFile"
  BY <1>1, <1>2, <1>3, <1>5 DEF HandlerOK
<1>6. CASE run[t].fn = "fileContentRq"
  BY <1>1, <1>2, <1>6 DEF HandlerOK
<1>7. CASE run[t].fn = "continueUpload"
  BY <1>1, <1>2, <1>7 DEF HandlerOK
<1>. QED  BY <1>4, <1>5, <1>6, <1>7

LEMMA BaseMoves ==
  ASSUME BaseInv, StateOK', RowsKept, Len(info) <= Len(info'),
         \A t \in Slots : run'[t] = run[t] \/ run'[t] = Idle \/ HandlerOK(t)',
         \A k \in Transfers : (client'[k].phase = client[k].phase /\ client'[k].fid = client[k].fid) \/ ClientOK(k)'
  PROVE  BaseInv'
<1>1. ASSUME NEW t \in Slots, run'[t] # Idle PROVE HandlerOK(t)'
  BY <1>1, HandlerStays DEF BaseInv
<1>2. ASSUME NEW k \in Transfers PROVE ClientOK(k)'
  BY RowsStay DEF BaseInv, ClientOK
<1>. QED  BY <1>1, <1>2 DEF BaseInv

(* A handler goes on; client and database are as before.                    *)
LEMMA BaseGoes ==
  ASSUME BaseInv, NEW s \in Slots, StateOK', RowsKept, Len(info) <= Len(info'), UNCHANGED client, OthersRun(s),
         run'[s] = Idle \/ HandlerOK(s)'
  PROVE  BaseInv'
<1>1. \A t \in Slots : run'[t] = run[t] \/ run'[t] = Idle \/ HandlerOK(t)'
  BY DEF OthersRun
<1>. QED  BY <1>1, BaseMoves

LEMMA BaseQuick ==
  ASSUME BaseInv, NEW s \in Slots, uploadFile_quick(s) PROVE BaseInv'
<1>1. StateOK
  BY DEF BaseInv
<1>2. /\ Runs(s, "uploadFile", "start") /\ SameDb /\ SameMemory /\ UNCHANGED <<disk, client, faults>>
      /\ run'[s].obj = run[s].obj /\ run'[s].n = run[s].n
      /\ \/ GoesOn(s, "open")
         \/ GoesOn(s, "quick") /\ run'[s].fid \in Complete(md5[run[s].k])
  BY <1>1, QuickDoes
<1>3. StateOK' /\ OthersRun(s)
  BY <1>1, <1>2 DEF GoesOn, StateOK, SameDb, SameMemory
<1>4. HandlerOK(s)
  BY <1>2, HandlingIsNotIdle DEF BaseInv, Runs
<1>5. HandlerOK(s)'
  BY <1>2, <1>4 DEF HandlerOK, GoesOn, Runs, SameDb, SameMemory, Complete, Steps
<1>. QED  BY <1>2, <1>3, <1>5, SameRows, BaseGoes DEF SameMemory

LEMMA BaseQuickInsert ==
  ASSUME BaseInv, NEW s \in Slots, uploadFile_quickInsert(s) PROVE BaseInv'
<1>1. StateOK
  BY DEF BaseInv
<1>2. /\ Runs(s, "uploadFile", "quick") /\ Relates(s, run[s].fid) /\ SameMemory /\ UNCHANGED <<disk, client, faults>>
      /\ GoesOn(s, "replyQuick") /\ run'[s].fid = run[s].fid /\ run'[s].obj = run[s].obj /\ run'[s].n = run[s].n
  BY <1>1, QuickInsertDoes
<1>3. HandlerOK(s) /\ run[s].k \in Transfers /\ run[s].fid \in Nat
  BY <1>1, <1>2, HandlingIsNotIdle, AHandlerRuns DEF BaseInv, Runs
<1>4. run[s].fid \in Complete(md5[run[s].k])
  BY <1>2, <1>3 DEF HandlerOK, Runs
<1>5. [user_dir |-> user_dir[run[s].k], fid |-> run[s].fid] \in Relation /\ run[s].fid \in 1..Len(t_file)
  BY <1>3, <1>4 DEF Relation, Complete
<1>6. t_user_file' \subseteq Relation /\ (\A r \in t_user_file' : r.fid \in 1..Len(t_file'))
  BY <1>1, <1>2, <1>5 DEF StateOK, Relates
<1>7. StateOK' /\ OthersRun(s) /\ RowsKept
  BY <1>1, <1>2, <1>6 DEF GoesOn, StateOK, SameMemory, Relates, RowsKept
<1>8. HandlerOK(s)'
  BY <1>2, <1>3, <1>4 DEF HandlerOK, GoesOn, Runs, Relates, SameMemory, Complete, Steps
<1>. QED  BY <1>2, <1>7, <1>8, BaseGoes DEF SameMemory

LEMMA BaseOpen ==
  ASSUME BaseInv, NEW s \in Slots, uploadFile_open(s) PROVE BaseInv'
<1>1. StateOK
  BY DEF BaseInv
<1>2. /\ Runs(s, "uploadFile", "open") /\ SameDb /\ UNCHANGED <<client, faults>>
      /\ disk' = [disk EXCEPT ![path(run[s].k)] = <<>>]
      /\ Opened(run[s].k, path(run[s].k), 0)
      /\ GoesOn(s, "insertFile") /\ run'[s].fid = run[s].fid /\ run'[s].obj = Len(info) + 1 /\ run'[s].n = run[s].n
  BY <1>1, OpenDoes
<1>3. HandlerOK(s)
  BY <1>2, HandlingIsNotIdle DEF BaseInv, Runs
<1>4. disk' \in [Paths -> Seq(Content)]
  <2>1. <<>> \in Seq(Content)
    OBVIOUS
  <2>. QED  BY <1>1, <1>2, <2>1 DEF StateOK
<1>5. StateOK' /\ OthersRun(s)
  BY <1>1, <1>2, <1>4 DEF GoesOn, StateOK, SameDb, Opened
<1>6. Len(info) \in Nat /\ Len(info') = Len(info) + 1
  BY <1>1, <1>2 DEF StateOK, Opened
<1>7. HandlerOK(s)'
  BY <1>2, <1>6 DEF HandlerOK, GoesOn, Runs, Steps
<1>. QED  BY <1>2, <1>5, <1>6, <1>7, SameRows, BaseGoes

LEMMA BaseInsertFile ==
  ASSUME BaseInv, NEW s \in Slots, uploadFile_insertFile(s) PROVE BaseInv'
<1>. DEFINE row == [md5 |-> md5[run[s].k], path |-> path(run[s].k), state |-> 0]
<1>1. StateOK
  BY DEF BaseInv
<1>2. /\ Runs(s, "uploadFile", "insertFile") /\ SameMemory /\ UNCHANGED <<t_user_file, disk, client, faults>>
      /\ t_file' \in Seq(Row) /\ Len(t_file') = Len(t_file) + 1
      /\ \A i \in 1..Len(t_file) : t_file'[i] = t_file[i]
      /\ t_file'[Len(t_file) + 1] = row
      /\ GoesOn(s, "selectId") /\ run'[s].fid = run[s].fid /\ run'[s].obj = run[s].obj /\ run'[s].n = run[s].n
  BY <1>1, InsertFileDoes
<1>3. HandlerOK(s)
  BY <1>2, HandlingIsNotIdle DEF BaseInv, Runs
<1>4. Len(t_file) \in Nat
  BY <1>1 DEF StateOK
<1>5. \A r \in t_user_file' : r.fid \in 1..Len(t_file')
  BY <1>1, <1>2, <1>4 DEF StateOK
<1>6. StateOK' /\ OthersRun(s)
  BY <1>1, <1>2, <1>5 DEF GoesOn, StateOK, SameMemory
<1>7. RowsKept
  BY <1>2, <1>4 DEF RowsKept
<1>8. PICK k, new : k = run[s].k /\ new = Len(t_file) + 1
  OBVIOUS
<1>9. RowOf(k, new)'
  <2>1. row.md5 = md5[run[s].k] /\ row.path = path(run[s].k)
    OBVIOUS
  <2>. HIDE DEF row
  <2>. QED  BY <1>2, <1>4, <1>8, <2>1 DEF RowOf, path
<1>10. (\E i \in 1..Len(t_file) : RowOf(run[s].k, i))'
  BY <1>2, <1>8, <1>9 DEF RowOf, GoesOn
<1>. HIDE DEF row
<1>11. HandlerOK(s)'
  BY <1>2, <1>3, <1>10 DEF HandlerOK, GoesOn, Runs, SameMemory, Steps
<1>. QED  BY <1>2, <1>6, <1>7, <1>11, BaseGoes DEF SameMemory

LEMMA BaseSelectId ==
  ASSUME BaseInv, NEW s \in Slots, uploadFile_selectId(s) PROVE BaseInv'
<1>1. StateOK
  BY DEF BaseInv
<1>2. /\ Runs(s, "uploadFile", "selectId") /\ SameDb /\ UNCHANGED <<disk, m_mapTimstampToFileinfo, client, faults>>
      /\ run[s].obj \in 1..Len(info) /\ Changed(run[s].obj)
      /\ GoesOn(s, "insertRel") /\ RowOf(run[s].k, run'[s].fid)
      /\ run'[s].obj = run[s].obj /\ run'[s].n = run[s].n
  BY SelectIdDoes
<1>3. StateOK' /\ OthersRun(s) /\ Len(info) <= Len(info') /\ Len(info') = Len(info)
  BY <1>1, <1>2 DEF GoesOn, StateOK, SameDb, Changed
<1>4. RowOf(run[s].k, run[s].fid)'
  BY <1>2 DEF RowOf, SameDb, GoesOn, path
<1>5. HandlerOK(s)'
  BY <1>2, <1>3, <1>4 DEF HandlerOK, GoesOn, Runs, Steps
<1>. QED  BY <1>2, <1>3, <1>5, SameRows, BaseGoes

LEMMA BaseInsertRel ==
  ASSUME BaseInv, NEW s \in Slots, uploadFile_insertRel(s) PROVE BaseInv'
<1>1. StateOK
  BY DEF BaseInv
<1>2. /\ Runs(s, "uploadFile", "insertRel") /\ Relates(s, run[s].fid) /\ SameMemory /\ UNCHANGED <<disk, client, faults>>
      /\ GoesOn(s, "reply") /\ run'[s].fid = run[s].fid /\ run'[s].obj = run[s].obj /\ run'[s].n = run[s].n
  BY <1>1, InsertRelDoes
<1>3. HandlerOK(s) /\ run[s].k \in Transfers /\ run[s].fid \in Nat
  BY <1>1, <1>2, HandlingIsNotIdle, AHandlerRuns DEF BaseInv, Runs
<1>4. RowOf(run[s].k, run[s].fid)
  BY <1>2, <1>3 DEF HandlerOK, Runs
<1>5. [user_dir |-> user_dir[run[s].k], fid |-> run[s].fid] \in Relation /\ run[s].fid \in 1..Len(t_file)
  BY <1>3, <1>4 DEF Relation, RowOf
<1>6. t_user_file' \subseteq Relation /\ (\A r \in t_user_file' : r.fid \in 1..Len(t_file'))
  BY <1>1, <1>2, <1>5 DEF StateOK, Relates
<1>7. StateOK' /\ OthersRun(s) /\ RowsKept
  BY <1>1, <1>2, <1>6 DEF GoesOn, StateOK, SameMemory, Relates, RowsKept
<1>8. HandlerOK(s)'
  BY <1>2, <1>3, <1>4 DEF HandlerOK, GoesOn, Runs, Relates, SameMemory, RowOf, path, Steps
<1>. QED  BY <1>2, <1>7, <1>8, BaseGoes DEF SameMemory

LEMMA BaseFind ==
  ASSUME BaseInv, NEW s \in Slots, fileContentRq_find(s) PROVE BaseInv'
<1>1. StateOK
  BY DEF BaseInv
<1>2. /\ Runs(s, "fileContentRq", "start") /\ SameDb /\ SameMemory /\ UNCHANGED <<disk, client, faults>>
      /\ \/ Ends(s) /\ (Held(run[s].k) = 0 \/ run[s].hi <= run[s].lo)
         \/ /\ GoesOn(s, "write") /\ run[s].lo < run[s].hi
            /\ run'[s].obj = Held(run[s].k) /\ Held(run[s].k) \in 1..Len(info)
            /\ run'[s].fid = run[s].fid /\ run'[s].n = run[s].n
  BY <1>1, FindDoes
<1>3. StateOK' /\ OthersRun(s)
  BY <1>1, <1>2 DEF GoesOn, Ends, StateOK, SameDb, SameMemory
<1>4. HandlerOK(s) /\ Len(info) \in Nat
  BY <1>1, <1>2, HandlingIsNotIdle DEF BaseInv, Runs, StateOK
<1>5. run'[s] = Idle \/ HandlerOK(s)'
  BY <1>2, <1>4 DEF HandlerOK, GoesOn, Ends, Runs, SameDb, SameMemory, RowOf, path, Steps
<1>. QED  BY <1>2, <1>3, <1>5, SameRows, BaseGoes DEF SameMemory

LEMMA BaseWrite ==
  ASSUME BaseInv, NEW s \in Slots, fileContentRq_write(s) PROVE BaseInv'
<1>1. StateOK
  BY DEF BaseInv
<1>2. /\ Runs(s, "fileContentRq", "write") /\ SameDb /\ UNCHANGED <<m_mapTimstampToFileinfo, client>>
      /\ run[s].obj \in 1..Len(info) /\ run'[s].fid = run[s].fid /\ run'[s].obj = run[s].obj
      /\ len(s) \in Nat \ {0}
  BY WriteDoes
<1>3. \/ /\ run'[s].n \in 1..len(s) /\ (GoesOn(s, "written") \/ GoesOn(s, "failed"))
         /\ disk' \in [Paths -> Seq(Content)] /\ info' \in Seq(Session) /\ Len(info') = Len(info)
         /\ UNCHANGED faults
      \/ GoesOn(s, "failed") /\ UNCHANGED <<disk, info>> /\ (Fault("write") \/ UNCHANGED faults)
  BY WriteDoes DEF Stores, Changed
<1>4. StateOK' /\ OthersRun(s) /\ Len(info') = Len(info)
  BY <1>1, <1>2, <1>3, FaultDoes DEF GoesOn, StateOK, SameDb
<1>5. HandlerOK(s) /\ Len(info) \in Nat
  BY <1>1, <1>2, HandlingIsNotIdle DEF BaseInv, Runs, StateOK
<1>6. HandlerOK(s)'
  BY <1>2, <1>3, <1>4, <1>5 DEF HandlerOK, GoesOn, Runs, SameDb, RowOf, path, Steps
<1>. QED  BY <1>2, <1>4, <1>5, <1>6, SameRows, BaseGoes

LEMMA BaseFailed ==
  ASSUME BaseInv, NEW s \in Slots, fileContentRq_failed(s) PROVE BaseInv'
<1>1. StateOK
  BY DEF BaseInv
<1>2. /\ Runs(s, "fileContentRq", "failed") /\ SameDb /\ UNCHANGED <<disk, m_mapTimstampToFileinfo, client, faults>>
      /\ run[s].obj \in 1..Len(info) /\ Changed(run[s].obj)
      /\ GoesOn(s, "reply") /\ run'[s].fid = run[s].fid /\ run'[s].obj = run[s].obj /\ run'[s].n = 0
  BY FailedDoes
<1>3. StateOK' /\ OthersRun(s) /\ Len(info') = Len(info)
  BY <1>1, <1>2 DEF GoesOn, StateOK, SameDb, Changed
<1>4. HandlerOK(s) /\ Len(info) \in Nat
  BY <1>1, <1>2, HandlingIsNotIdle DEF BaseInv, Runs, StateOK
<1>5. HandlerOK(s)'
  BY <1>2, <1>3, <1>4 DEF HandlerOK, GoesOn, Runs, SameDb, RowOf, path, Steps
<1>. QED  BY <1>2, <1>3, <1>4, <1>5, SameRows, BaseGoes

LEMMA BaseRead ==
  ASSUME BaseInv, NEW s \in Slots, fileContentRq_read(s) PROVE BaseInv'
<1>1. StateOK
  BY DEF BaseInv
<1>2. /\ Runs(s, "fileContentRq", "written") /\ SameDb /\ SameMemory /\ UNCHANGED <<disk, client, faults>>
      /\ run[s].obj \in 1..Len(info)
      /\ GoesOn(s, "advance") /\ run'[s].fid = run[s].fid /\ run'[s].obj = run[s].obj
      /\ run'[s].n = info[run[s].obj].pos + run[s].n /\ run[s].n \in Nat
  BY ReadDoes
<1>3. StateOK' /\ OthersRun(s)
  BY <1>1, <1>2 DEF GoesOn, StateOK, SameDb, SameMemory
<1>4. HandlerOK(s) /\ Len(info) \in Nat /\ info[run[s].obj].pos + run[s].n \in Nat
  BY <1>1, <1>2, HandlingIsNotIdle, SessionIsThere DEF BaseInv, Runs, StateOK
<1>5. HandlerOK(s)'
  BY <1>2, <1>4 DEF HandlerOK, GoesOn, Runs, SameDb, SameMemory, RowOf, path, Steps
<1>. QED  BY <1>2, <1>3, <1>4, <1>5, SameRows, BaseGoes DEF SameMemory

LEMMA BaseAdvance ==
  ASSUME BaseInv, NEW s \in Slots, fileContentRq_advance(s) PROVE BaseInv'
<1>1. StateOK
  BY DEF BaseInv
<1>2. /\ Runs(s, "fileContentRq", "advance") /\ SameDb /\ UNCHANGED <<disk, m_mapTimstampToFileinfo, client, faults>>
      /\ run[s].obj \in 1..Len(info) /\ Changed(run[s].obj)
      /\ run'[s].fid = run[s].fid /\ run'[s].obj = run[s].obj /\ run'[s].n = 1
      /\ GoesOn(s, "update") \/ GoesOn(s, "reply")
  BY AdvanceDoes
<1>3. StateOK' /\ OthersRun(s) /\ Len(info') = Len(info)
  BY <1>1, <1>2 DEF GoesOn, StateOK, SameDb, Changed
<1>4. HandlerOK(s) /\ Len(info) \in Nat
  BY <1>1, <1>2, HandlingIsNotIdle DEF BaseInv, Runs, StateOK
<1>5. HandlerOK(s)'
  BY <1>2, <1>3, <1>4 DEF HandlerOK, GoesOn, Runs, SameDb, RowOf, path, Steps
<1>. QED  BY <1>2, <1>3, <1>4, <1>5, SameRows, BaseGoes

LEMMA BaseUpdate ==
  ASSUME BaseInv, NEW s \in Slots, fileContentRq_update(s) PROVE BaseInv'
<1>1. StateOK
  BY DEF BaseInv
<1>2. /\ Runs(s, "fileContentRq", "update") /\ SameMemory /\ UNCHANGED <<t_user_file, disk, client>>
      /\ run[s].fid \in 1..Len(t_file)
      /\ (Completes(run[s].fid) /\ UNCHANGED faults) \/ (UNCHANGED t_file /\ Fault("call"))
      /\ GoesOn(s, "close") /\ run'[s].fid = run[s].fid /\ run'[s].obj = run[s].obj /\ run'[s].n = run[s].n
  BY UpdateDoes
<1>3. RowsKept /\ Len(t_file') = Len(t_file) /\ t_file' \in Seq(Row)
  BY <1>1, <1>2 DEF RowsKept, Completes, StateOK
<1>4. StateOK' /\ OthersRun(s)
  BY <1>1, <1>2, <1>3, FaultDoes DEF GoesOn, StateOK, SameMemory
<1>5. HandlerOK(s) /\ Len(info) \in Nat
  BY <1>1, <1>2, HandlingIsNotIdle DEF BaseInv, Runs, StateOK
<1>6. RowOf(run[s].k, run[s].fid)'
  BY <1>1, <1>2, <1>4, <1>3, <1>5, RowsStay DEF HandlerOK, Runs, GoesOn
<1>7. HandlerOK(s)'
  BY <1>2, <1>5, <1>6 DEF HandlerOK, GoesOn, Runs, SameMemory, Steps
<1>. QED  BY <1>2, <1>3, <1>4, <1>5, <1>7, BaseGoes DEF SameMemory

LEMMA BaseClose ==
  ASSUME BaseInv, NEW s \in Slots, fileContentRq_close(s) PROVE BaseInv'
<1>1. StateOK
  BY DEF BaseInv
<1>2. /\ Runs(s, "fileContentRq", "close") /\ SameDb /\ UNCHANGED <<disk, client, faults>>
      /\ run[s].obj \in 1..Len(info) /\ Changed(run[s].obj)
      /\ m_mapTimstampToFileinfo' \in [Keys -> 0..Len(info')]
      /\ GoesOn(s, "reply") /\ run'[s].fid = run[s].fid /\ run'[s].obj = run[s].obj /\ run'[s].n = run[s].n
  BY CloseDoes
<1>3. StateOK' /\ OthersRun(s) /\ Len(info') = Len(info)
  BY <1>1, <1>2 DEF GoesOn, StateOK, SameDb, Changed
<1>4. HandlerOK(s) /\ Len(info) \in Nat
  BY <1>1, <1>2, HandlingIsNotIdle DEF BaseInv, Runs, StateOK
<1>5. HandlerOK(s)'
  BY <1>2, <1>3, <1>4 DEF HandlerOK, GoesOn, Runs, SameDb, RowOf, path, Steps
<1>. QED  BY <1>2, <1>3, <1>4, <1>5, SameRows, BaseGoes

LEMMA BaseContinueFind ==
  ASSUME BaseInv, NEW s \in Slots, continueUpload_find(s) PROVE BaseInv'
<1>1. StateOK
  BY DEF BaseInv
<1>2. /\ Runs(s, "continueUpload", "start") /\ SameDb /\ SameMemory /\ UNCHANGED <<disk, client, faults>>
      /\ run'[s].fid = run[s].fid /\ run'[s].n = run[s].n /\ run'[s].obj \in 0..Len(info)
      /\ \/ run'[s].obj = 0 /\ GoesOn(s, "select")
         \/ run'[s].obj # 0 /\ GoesOn(s, "seek")
  BY <1>1, ContinueFindDoes
<1>3. StateOK' /\ OthersRun(s)
  BY <1>1, <1>2 DEF GoesOn, StateOK, SameDb, SameMemory
<1>4. HandlerOK(s)
  BY <1>2, HandlingIsNotIdle DEF BaseInv, Runs
<1>5. HandlerOK(s)'
  BY <1>2, <1>4 DEF HandlerOK, GoesOn, Runs, SameDb, SameMemory, RowOf, path, Steps
<1>. QED  BY <1>2, <1>3, <1>5, SameRows, BaseGoes DEF SameMemory

LEMMA BaseContinueSelect ==
  ASSUME BaseInv, NEW s \in Slots, continueUpload_select(s) PROVE BaseInv'
<1>1. StateOK
  BY DEF BaseInv
<1>2. /\ Runs(s, "continueUpload", "select") /\ SameDb /\ SameMemory /\ UNCHANGED <<disk, client, faults>>
      /\ \/ Ends(s)
         \/ /\ GoesOn(s, "reopen") /\ run'[s].fid = run[s].fid /\ run'[s].obj = run[s].obj
            /\ run'[s].n = run[s].n
  BY <1>1, ContinueSelectDoes
<1>3. StateOK' /\ OthersRun(s)
  BY <1>1, <1>2 DEF GoesOn, Ends, StateOK, SameDb, SameMemory
<1>4. HandlerOK(s)
  BY <1>2, HandlingIsNotIdle DEF BaseInv, Runs
<1>5. run'[s] = Idle \/ HandlerOK(s)'
  BY <1>2, <1>4 DEF HandlerOK, GoesOn, Ends, Runs, SameDb, SameMemory, RowOf, path, Steps
<1>. QED  BY <1>2, <1>3, <1>5, SameRows, BaseGoes DEF SameMemory

LEMMA BaseReopen ==
  ASSUME BaseInv, NEW s \in Slots, continueUpload_open(s) PROVE BaseInv'
<1>1. StateOK
  BY DEF BaseInv
<1>2. /\ Runs(s, "continueUpload", "reopen") /\ SameDb /\ UNCHANGED <<disk, client, faults>>
      /\ Opened(run[s].k, path(run[s].k), run[s].fid)
      /\ GoesOn(s, "seek") /\ run'[s].fid = run[s].fid /\ run'[s].obj = Len(info) + 1 /\ run'[s].n = run[s].n
  BY ReopenDoes
<1>3. StateOK' /\ OthersRun(s)
  BY <1>1, <1>2 DEF GoesOn, StateOK, SameDb, Opened
<1>4. HandlerOK(s) /\ Len(info) \in Nat /\ Len(info') = Len(info) + 1
  BY <1>1, <1>2, HandlingIsNotIdle DEF BaseInv, Runs, StateOK, Opened
<1>5. HandlerOK(s)'
  BY <1>2, <1>4 DEF HandlerOK, GoesOn, Runs, SameDb, RowOf, path, Steps
<1>. QED  BY <1>2, <1>3, <1>4, <1>5, SameRows, BaseGoes

LEMMA BaseSeek ==
  ASSUME BaseInv, NEW s \in Slots, continueUpload_seek(s) PROVE BaseInv'
<1>1. StateOK
  BY DEF BaseInv
<1>2. /\ Runs(s, "continueUpload", "seek") /\ SameDb /\ UNCHANGED <<disk, m_mapTimstampToFileinfo, client, faults>>
      /\ run[s].obj \in 1..Len(info) /\ Changed(run[s].obj) /\ run'[s].n \in Nat
      /\ GoesOn(s, "reply") /\ run'[s].fid = run[s].fid /\ run'[s].obj = run[s].obj
  BY SeekDoes
<1>3. StateOK' /\ OthersRun(s) /\ Len(info') = Len(info)
  BY <1>1, <1>2 DEF GoesOn, StateOK, SameDb, Changed
<1>4. HandlerOK(s) /\ Len(info) \in Nat
  BY <1>1, <1>2, HandlingIsNotIdle DEF BaseInv, Runs, StateOK
<1>5. HandlerOK(s)'
  BY <1>2, <1>3, <1>4 DEF HandlerOK, GoesOn, Runs, SameDb, RowOf, path, Steps
<1>. QED  BY <1>2, <1>3, <1>4, <1>5, SameRows, BaseGoes

-----------------------------------------------------------------------------
LEMMA BaseCallFails ==
  ASSUME BaseInv, NEW s \in Slots, CallFails(s) PROVE BaseInv'
<1>1. StateOK
  BY DEF BaseInv
<1>2. Ends(s) /\ Fault("call") /\ SameDb /\ SameMemory /\ UNCHANGED <<disk, client>>
  BY <1>1, CallFailsDoes
<1>3. StateOK' /\ OthersRun(s)
  BY <1>1, <1>2, FaultDoes DEF Ends, StateOK, SameDb, SameMemory
<1>4. run'[s] = Idle /\ Len(info) <= Len(info')
  BY <1>1, <1>2 DEF Ends, StateOK, SameMemory
<1>. QED  BY <1>2, <1>3, <1>4, SameRows, BaseGoes

LEMMA BaseLost ==
  ASSUME BaseInv, NEW s \in Slots, lost(s) PROVE BaseInv'
<1>1. StateOK
  BY DEF BaseInv
<1>2. Ends(s) /\ SameDb /\ SameMemory /\ UNCHANGED <<disk, client, faults>>
  BY <1>1, LostDoes
<1>3. StateOK' /\ OthersRun(s)
  BY <1>1, <1>2 DEF Ends, StateOK, SameDb, SameMemory
<1>4. run'[s] = Idle /\ Len(info) <= Len(info')
  BY <1>1, <1>2 DEF Ends, StateOK, SameMemory
<1>. QED  BY <1>2, <1>3, <1>4, SameRows, BaseGoes

LEMMA BaseSendData ==
  ASSUME BaseInv, RequestInv, NEW s \in Slots, SendData(s) PROVE BaseInv'
<1>1. StateOK
  BY DEF BaseInv
<1>2. /\ run[s] # Idle /\ run[s].step \in {"reply", "replyQuick"} /\ Ends(s)
      /\ run[s].step = "replyQuick" => run[s].fn = "uploadFile"
      /\ SameDb /\ SameMemory /\ UNCHANGED <<disk, faults>>
      /\ \/ UNCHANGED client
         \/ /\ client' \in [Transfers -> Peer] /\ OthersClients(run[s].k)
            /\ AnswerTo(run[s].k, s) /\ run[s].epoch = client[run[s].k].epoch
  BY SendDataDoes
<1>3. StateOK' /\ OthersRun(s)
  BY <1>1, <1>2 DEF Ends, StateOK, SameDb, SameMemory
<1>4. PICK k \in Transfers : k = run[s].k
  BY <1>1, <1>2, AHandlerRuns
<1>5. HandlerOK(s) /\ ClientOK(k)
  BY <1>2 DEF BaseInv
<1>6. \A i : RowOf(k, i) => RowOf(k, i)' /\ i # 0
  BY <1>2 DEF RowOf, path, SameDb
<1>7. ASSUME OthersClients(k), AnswerTo(k, s), run[s].epoch = client[k].epoch
      PROVE  \A l \in Transfers : (client'[l].phase = client[l].phase /\ client'[l].fid = client[l].fid) \/ ClientOK(l)'
  <2>1. \A l \in Transfers \ {k} : client'[l] = client[l]
    BY <1>7 DEF OthersClients
  <2>2. AllSent(run[s].hi) \in {"sending", "done"} /\ AllSent(run[s].n) \in {"sending", "done"}
    BY DEF AllSent
  <2>3. CASE run[s].fn = "uploadFile" /\ run[s].step = "replyQuick"
    <3>1. client'[k].phase = "done" /\ client'[k].fid = run[s].fid
      BY <1>7, <2>3 DEF AnswerTo
    <3>2. run[s].fid # 0
      BY <1>4, <1>5, <2>3 DEF HandlerOK, Complete
    <3>3. ClientOK(k)'
      BY <3>1, <3>2 DEF ClientOK, HasId
    <3>. QED  BY <2>1, <3>3
  <2>4. CASE run[s].fn = "uploadFile" /\ run[s].step = "reply"
    <3>1. client'[k].phase = "sending" /\ client'[k].fid = run[s].fid
      BY <1>7, <2>4 DEF AnswerTo
    <3>2. RowOf(k, run[s].fid)
      BY <1>4, <1>5, <2>4 DEF HandlerOK
    <3>3. PICK i : i = run[s].fid
      OBVIOUS
    <3>4. RowOf(k, i)' /\ i # 0 /\ (client[k].fid)' = i
      BY <1>6, <3>1, <3>2, <3>3
    <3>5. ClientOK(k)'
      BY <3>1, <3>4 DEF ClientOK, HasId
    <3>. QED  BY <2>1, <3>5
  <2>5. CASE run[s].fn \in {"fileContentRq", "continueUpload"}
    <3>1. client'[k].phase \in {"sending", "done"} /\ client'[k].fid = client[k].fid
      BY <1>7, <2>2, <2>5 DEF AnswerTo
    <3>2. RequestOK(s, k)
      BY <1>2, <1>4 DEF RequestInv, Busy
    <3>3. client[k].phase \in HasId
      BY <1>7, <2>5, <3>2 DEF RequestOK, PhaseOf, HasId
    <3>4. PICK i : i = client[k].fid
      OBVIOUS
    <3>5. RowOf(k, i)' /\ i # 0 /\ (client[k].fid)' = i
      BY <1>5, <1>6, <3>1, <3>3, <3>4 DEF ClientOK
    <3>6. ClientOK(k)'
      BY <3>1, <3>5 DEF ClientOK, HasId
    <3>. QED  BY <2>1, <3>6
  <2>. QED  BY <1>1, <1>2, <2>3, <2>4, <2>5, AHandlerRuns DEF Handlers
<1>8. \A l \in Transfers : (client'[l].phase = client[l].phase /\ client'[l].fid = client[l].fid) \/ ClientOK(l)'
  BY <1>2, <1>4, <1>7
<1>9. Len(info) <= Len(info') /\ (\A t \in Slots : run'[t] = run[t] \/ run'[t] = Idle)
  BY <1>1, <1>2, <1>3 DEF SameMemory, StateOK, OthersRun, Ends
<1>. QED  BY <1>2, <1>3, <1>8, <1>9, SameRows, BaseMoves

(* A client asks, with the handler of its request at the start.             *)
LEMMA BaseAsks ==
  ASSUME BaseInv, NEW k \in Transfers, NEW s \in Slots, NEW fn \in Handlers, NEW phase \in Phases,
         NEW lo \in Nat, NEW hi \in Nat, Asks(k, s, fn, lo, hi), Becomes(k, phase),
         SameDb, SameMemory, UNCHANGED <<disk, faults>>,
         \/ client[k].phase = "new" /\ fn = "uploadFile" /\ phase = "asked"
         \/ client[k].phase \in HasId /\ fn # "uploadFile" /\ phase \in HasId
  PROVE  BaseInv'
<1>1. StateOK /\ ClientOK(k)
  BY DEF BaseInv
<1>2. StateOK'
  BY <1>1 DEF StateOK, SameDb, SameMemory, Asks, Becomes
<1>3. \A i : RowOf(k, i) => RowOf(k, i)' /\ i # 0
  BY DEF RowOf, path, SameDb
<1>4. PICK i : i = client[k].fid
  OBVIOUS
<1>5. HandlerOK(s)'
  <2>1. run'[s].step = "start" /\ run'[s].k = k /\ run'[s].fid = i /\ run'[s].obj = 0 /\ run'[s].fn = fn
    BY <1>4 DEF Asks
  <2>2. 0 \in 0..Len(info') /\ "start" \in Steps(fn)
    BY <1>2 DEF StateOK, Steps, Handlers
  <2>3. fn # "uploadFile" => RowOf(k, i)'
    BY <1>1, <1>3, <1>4 DEF ClientOK, HasId
  <2>. QED  BY <2>1, <2>2, <2>3 DEF HandlerOK
<1>6. ClientOK(k)'
  <2>1. client'[k].phase = phase /\ client'[k].fid = i
    BY <1>4 DEF Becomes
  <2>2. phase \in HasId => RowOf(k, i)'
    BY <1>1, <1>3, <1>4 DEF ClientOK, HasId
  <2>3. phase \in {"new", "asked", "gone"} <=> i = 0
    BY <1>1, <1>3, <1>4 DEF ClientOK, HasId
  <2>. QED  BY <2>1, <2>2, <2>3 DEF ClientOK
<1>7. /\ \A t \in Slots : run'[t] = run[t] \/ run'[t] = Idle \/ HandlerOK(t)'
      /\ \A l \in Transfers : (client'[l].phase = client[l].phase /\ client'[l].fid = client[l].fid) \/ ClientOK(l)'
  BY <1>5, <1>6 DEF Asks, Becomes, OthersRun, OthersClients
<1>8. Len(info) <= Len(info')
  BY <1>1 DEF StateOK, SameMemory
<1>. QED  BY <1>2, <1>7, <1>8, SameRows, BaseMoves

LEMMA BaseClient ==
  ASSUME BaseInv, NEW k \in Transfers, Client(k) PROVE BaseInv'
<1>1. StateOK
  BY DEF BaseInv
<1>2. "asked" \in Phases /\ "waiting" \in Phases /\ "resuming" \in Phases /\ Handlers = {"uploadFile", "fileContentRq", "continueUpload"}
  BY DEF Phases, Handlers
<1>3. CASE sendUpload(k)
  <2>1. PICK s \in Slots : Asks(k, s, "uploadFile", 0, 0)
    BY <1>1, <1>3, SendUploadDoes
  <2>2. client[k].phase = "new" /\ Becomes(k, "asked") /\ SameDb /\ SameMemory /\ UNCHANGED <<disk, faults>>
    BY <1>1, <1>3, SendUploadDoes
  <2>. QED  BY <1>2, <2>1, <2>2, BaseAsks
<1>4. CASE sendBlock(k)
  <2>1. PICK lo \in Nat, hi \in Nat : lo = client[k].pos /\ hi = BlockEnd(client[k].pos)
    BY <1>1, <1>4, SendBlockDoes, BlockEndIs
  <2>2. PICK s \in Slots : Asks(k, s, "fileContentRq", lo, hi)
    BY <1>1, <1>4, <2>1, SendBlockDoes
  <2>3. client[k].phase = "sending" /\ Becomes(k, "waiting") /\ SameDb /\ SameMemory /\ UNCHANGED <<disk, faults>>
    BY <1>1, <1>4, SendBlockDoes
  <2>. QED  BY <1>2, <2>2, <2>3, BaseAsks DEF HasId
<1>5. CASE sendContinue(k)
  <2>1. PICK s \in Slots : Asks(k, s, "continueUpload", 0, 0)
    BY <1>1, <1>5, SendContinueDoes
  <2>2. client[k].phase = "offline" /\ Becomes(k, "resuming") /\ SameDb /\ SameMemory /\ UNCHANGED <<disk, faults>>
    BY <1>1, <1>5, SendContinueDoes
  <2>. QED  BY <1>2, <2>1, <2>2, BaseAsks DEF HasId
<1>. QED  BY <1>3, <1>4, <1>5 DEF Client

LEMMA OfflineClientOK ==
  ASSUME BaseInv, NEW k \in Transfers, client[k].phase \in Working, GoesOffline(k), SameDb
  PROVE  ClientOK(k)'
<1>1. ClientOK(k)
  BY DEF BaseInv
<1>2. PICK i : i = client[k].fid
  OBVIOUS
<1>3. RowOf(k, i) => RowOf(k, i)'
  BY DEF RowOf, path, SameDb
<1>4. client[k].phase \in HasId \/ i = 0
  BY <1>1, <1>2 DEF ClientOK, Working, HasId
<1>5. (client[k].fid)' = i /\ (client[k].phase)' = IF i = 0 THEN "gone" ELSE "offline"
  BY <1>2 DEF GoesOffline
<1>6. i # 0 => RowOf(k, i)'
  BY <1>1, <1>2, <1>3, <1>4 DEF ClientOK
<1>. QED  BY <1>5, <1>6 DEF ClientOK, HasId

LEMMA BaseDisconnect ==
  ASSUME BaseInv, NEW k \in Transfers, disconnect(k) PROVE BaseInv'
<1>1. StateOK
  BY DEF BaseInv
<1>2. /\ client[k].phase \in Working /\ client' \in [Transfers -> Peer] /\ OthersClients(k)
      /\ GoesOffline(k) /\ Fault("reconnect")
      /\ SameDb /\ SameMemory /\ UNCHANGED <<disk, run>>
  BY <1>1, DisconnectDoes
<1>3. StateOK'
  BY <1>1, <1>2, FaultDoes DEF StateOK, SameDb, SameMemory
<1>4. ClientOK(k)'
  BY <1>2, OfflineClientOK
<1>5. /\ \A t \in Slots : run'[t] = run[t] \/ run'[t] = Idle \/ HandlerOK(t)'
      /\ \A l \in Transfers : (client'[l].phase = client[l].phase /\ client'[l].fid = client[l].fid) \/ ClientOK(l)'
  BY <1>2, <1>4 DEF OthersClients
<1>6. Len(info) <= Len(info')
  BY <1>1, <1>2 DEF StateOK, SameMemory
<1>. QED  BY <1>2, <1>3, <1>5, <1>6, SameRows, BaseMoves

LEMMA BaseCrash ==
  ASSUME BaseInv, crash PROVE BaseInv'
<1>1. StateOK
  BY DEF BaseInv
<1>2. /\ Fault("crash") /\ SameDb /\ UNCHANGED disk
      /\ info' = <<>> /\ m_mapTimstampToFileinfo' = [key \in Keys |-> 0] /\ run' = [s \in Slots |-> Idle]
      /\ client' \in [Transfers -> Peer]
      /\ \A k \in Transfers : IF client[k].phase \in Working THEN GoesOffline(k) ELSE client'[k] = client[k]
  BY <1>1, CrashDoes
<1>3. StateOK'
  <2>1. info' \in Seq(Session) /\ Len(info') = 0
    BY <1>2
  <2>2. m_mapTimstampToFileinfo' \in [Keys -> 0..Len(info')]
    BY <1>2, <2>1
  <2>3. run' \in [Slots -> Handling \cup {Idle}]
    BY <1>2
  <2>. QED  BY <1>1, <1>2, <2>1, <2>2, <2>3, FaultDoes DEF StateOK, SameDb
<1>4. ASSUME NEW k \in Transfers PROVE ClientOK(k)'
  <2>1. CASE client[k].phase \in Working
    BY <1>2, <2>1, OfflineClientOK
  <2>2. CASE client[k].phase \notin Working
    <3>1. client'[k] = client[k] /\ ClientOK(k)
      BY <1>2, <2>2 DEF BaseInv
    <3>2. \A i : RowOf(k, i) => RowOf(k, i)'
      BY <1>2 DEF RowOf, path, SameDb
    <3>. QED  BY <3>1, <3>2 DEF ClientOK
  <2>. QED  BY <2>1, <2>2
<1>. QED  BY <1>2, <1>3, <1>4 DEF BaseInv

-----------------------------------------------------------------------------
(* The steps that a handler takes, all others, and none.                    *)
LEMMA BaseInvStep == BaseInv /\ RequestInv /\ [Next]_vars => BaseInv'
<1>. SUFFICES ASSUME BaseInv, RequestInv, [Next]_vars PROVE BaseInv'
  OBVIOUS
<1>1. ASSUME NEW s \in Slots, uploadFile(s) PROVE BaseInv'
  BY <1>1, BaseQuick, BaseQuickInsert, BaseOpen, BaseInsertFile, BaseSelectId, BaseInsertRel DEF uploadFile
<1>2. ASSUME NEW s \in Slots, fileContentRq(s) PROVE BaseInv'
  BY <1>2, BaseFind, BaseWrite, BaseFailed, BaseRead, BaseAdvance, BaseUpdate, BaseClose DEF fileContentRq
<1>3. ASSUME NEW s \in Slots, continueUpload(s) PROVE BaseInv'
  BY <1>3, BaseContinueFind, BaseContinueSelect, BaseReopen, BaseSeek DEF continueUpload
<1>4. ASSUME NEW s \in Slots, SendData(s) \/ CallFails(s) \/ lost(s) PROVE BaseInv'
  BY <1>4, BaseSendData, BaseCallFails, BaseLost
<1>5. ASSUME NEW k \in Transfers, Client(k) \/ disconnect(k) PROVE BaseInv'
  BY <1>5, BaseClient, BaseDisconnect
<1>6. CASE crash
  BY <1>6, BaseCrash
<1>7. CASE UNCHANGED vars
  <2>1. SameDb /\ SameMemory /\ UNCHANGED <<disk, run, client, faults>>
    BY <1>7 DEF vars, db, memory, SameDb, SameMemory
  <2>2. StateOK' /\ Len(info) <= Len(info')
    BY <2>1 DEF BaseInv, StateOK, SameDb, SameMemory
  <2>3. /\ \A t \in Slots : run'[t] = run[t] \/ run'[t] = Idle \/ HandlerOK(t)'
        /\ \A l \in Transfers : (client'[l].phase = client[l].phase /\ client'[l].fid = client[l].fid) \/ ClientOK(l)'
    BY <2>1
  <2>. QED  BY <2>1, <2>2, <2>3, SameRows, BaseMoves
<1>. QED  BY <1>1, <1>2, <1>3, <1>4, <1>5, <1>6, <1>7 DEF Next, Handler

-----------------------------------------------------------------------------
(* RequestInv, step by step.                                                *)
SameRequest(t) ==
  run[t] # Idle /\ run'[t].fn = run[t].fn /\ run'[t].k = run[t].k /\ run'[t].epoch = run[t].epoch

(* Whatever call a handler makes, it goes on with its request or ends.      *)
LEMMA HandlerMoves ==
  ASSUME BaseInv, NEW s \in Slots, uploadFile(s) \/ fileContentRq(s) \/ continueUpload(s)
  PROVE  run[s] # Idle /\ OthersRun(s) /\ UNCHANGED client /\ (run'[s] = Idle \/ SameRequest(s))
         /\ (UNCHANGED faults \/ Fault("write") \/ Fault("call"))
<1>1. StateOK
  BY DEF BaseInv
<1>2. ASSUME run[s] \in Handling, Ends(s) \/ (\E step \in AllSteps : GoesOn(s, step))
      PROVE  run[s] # Idle /\ OthersRun(s) /\ (run'[s] = Idle \/ SameRequest(s))
  <2>1. run[s] # Idle
    BY <1>2, HandlingIsNotIdle
  <2>2. CASE Ends(s)
    BY <2>1, <2>2 DEF Ends
  <2>3. CASE \E step \in AllSteps : GoesOn(s, step)
    BY <2>1, <2>3 DEF GoesOn, SameRequest
  <2>. QED  BY <1>2, <2>2, <2>3
<1>3. ASSUME uploadFile_quick(s) \/ uploadFile_quickInsert(s) \/ uploadFile_open(s)
      PROVE  /\ run[s] \in Handling /\ UNCHANGED client /\ UNCHANGED faults
             /\ \E step \in AllSteps : GoesOn(s, step)
  <2>1. "open" \in AllSteps /\ "quick" \in AllSteps /\ "replyQuick" \in AllSteps /\ "insertFile" \in AllSteps
    BY DEF AllSteps
  <2>. QED  BY <1>1, <1>3, <2>1, QuickDoes, QuickInsertDoes, OpenDoes DEF Runs
<1>4. ASSUME uploadFile_insertFile(s) \/ uploadFile_selectId(s) \/ uploadFile_insertRel(s)
      PROVE  /\ run[s] \in Handling /\ UNCHANGED client /\ UNCHANGED faults
             /\ \E step \in AllSteps : GoesOn(s, step)
  <2>1. "selectId" \in AllSteps /\ "insertRel" \in AllSteps /\ "reply" \in AllSteps
    BY DEF AllSteps
  <2>. QED  BY <1>1, <1>4, <2>1, InsertFileDoes, SelectIdDoes, InsertRelDoes DEF Runs
<1>5. ASSUME fileContentRq_find(s) \/ fileContentRq_write(s)
      PROVE  /\ run[s] \in Handling /\ UNCHANGED client /\ (UNCHANGED faults \/ Fault("write"))
             /\ Ends(s) \/ (\E step \in AllSteps : GoesOn(s, step))
  <2>1. "write" \in AllSteps /\ "written" \in AllSteps /\ "failed" \in AllSteps
    BY DEF AllSteps
  <2>. QED  BY <1>1, <1>5, <2>1, FindDoes, WriteDoes DEF Runs
<1>6. ASSUME fileContentRq_failed(s) \/ fileContentRq_read(s) \/ fileContentRq_advance(s)
      PROVE  /\ run[s] \in Handling /\ UNCHANGED client /\ UNCHANGED faults
             /\ \E step \in AllSteps : GoesOn(s, step)
  <2>1. "reply" \in AllSteps /\ "advance" \in AllSteps /\ "update" \in AllSteps
    BY DEF AllSteps
  <2>. QED  BY <1>1, <1>6, <2>1, FailedDoes, ReadDoes, AdvanceDoes DEF Runs
<1>7. ASSUME fileContentRq_update(s) \/ fileContentRq_close(s)
      PROVE  /\ run[s] \in Handling /\ UNCHANGED client /\ (UNCHANGED faults \/ Fault("call"))
             /\ \E step \in AllSteps : GoesOn(s, step)
  <2>1. "close" \in AllSteps /\ "reply" \in AllSteps
    BY DEF AllSteps
  <2>. QED  BY <1>1, <1>7, <2>1, UpdateDoes, CloseDoes DEF Runs
<1>8. ASSUME continueUpload(s)
      PROVE  /\ run[s] \in Handling /\ UNCHANGED client /\ UNCHANGED faults
             /\ Ends(s) \/ (\E step \in AllSteps : GoesOn(s, step))
  <2>1. "select" \in AllSteps /\ "seek" \in AllSteps /\ "reopen" \in AllSteps /\ "reply" \in AllSteps
    BY DEF AllSteps
  <2>. QED  BY <1>1, <1>8, <2>1, ContinueFindDoes, ContinueSelectDoes, ReopenDoes, SeekDoes DEF Runs, continueUpload
<1>9. /\ run[s] \in Handling /\ UNCHANGED client /\ (UNCHANGED faults \/ Fault("write") \/ Fault("call"))
      /\ Ends(s) \/ (\E step \in AllSteps : GoesOn(s, step))
  BY <1>3, <1>4, <1>5, <1>6, <1>7, <1>8 DEF uploadFile, fileContentRq
<1>. QED  BY <1>2, <1>9

LEMMA RequestInvInit == Init => RequestInv
BY DEF Init, RequestInv, Busy

LEMMA RequestKept ==
  ASSUME RequestInv, UNCHANGED client, \A t \in Slots : run'[t] = run[t] \/ run'[t] = Idle \/ SameRequest(t)
  PROVE  RequestInv'
<1>1. ASSUME NEW t \in Slots, NEW k \in Transfers, Busy(t, k)'
      PROVE  /\ Busy(t, k) /\ run'[t].epoch = run[t].epoch /\ run'[t].fn = run[t].fn
             /\ (Asking(t)' <=> Asking(t))
  BY <1>1 DEF Busy, SameRequest, Asking
<1>2. ASSUME NEW t \in Slots, NEW k \in Transfers, Busy(t, k)'
      PROVE  RequestOK(t, k)'
  BY <1>1, <1>2 DEF RequestInv, RequestOK
<1>3. ASSUME NEW k \in Transfers, NEW s \in Slots, NEW t \in Slots, Busy(s, k)', Busy(t, k)',
             (run[s].epoch = run[t].epoch \/ (Asking(s) /\ Asking(t)))'
      PROVE  s = t
  <2>1. Busy(s, k) /\ Busy(t, k) /\ (run[s].epoch = run[t].epoch \/ (Asking(s) /\ Asking(t)))
    BY <1>1, <1>3
  <2>. QED  BY <2>1 DEF RequestInv
<1>. QED  BY <1>2, <1>3 DEF RequestInv

(* The client of one request changes, and no request is new.                *)
LEMMA RequestChanges ==
  ASSUME RequestInv, NEW k \in Transfers, OthersClients(k),
         \A t \in Slots : run'[t] = run[t] \/ run'[t] = Idle,
         \A t \in Slots : Busy(t, k)' => RequestOK(t, k)'
  PROVE  RequestInv'
<1>1. ASSUME NEW t \in Slots, NEW l \in Transfers, Busy(t, l)'
      PROVE  Busy(t, l) /\ run'[t] = run[t] /\ (Asking(t)' <=> Asking(t))
  BY <1>1 DEF Busy, Asking
<1>2. ASSUME NEW t \in Slots, NEW l \in Transfers, Busy(t, l)'
      PROVE  RequestOK(t, l)'
  <2>1. CASE l = k
    BY <1>2, <2>1
  <2>2. CASE l # k
    BY <1>1, <1>2, <2>2 DEF RequestInv, RequestOK, OthersClients
  <2>. QED  BY <2>1, <2>2
<1>3. ASSUME NEW l \in Transfers, NEW s \in Slots, NEW t \in Slots, Busy(s, l)', Busy(t, l)',
             (run[s].epoch = run[t].epoch \/ (Asking(s) /\ Asking(t)))'
      PROVE  s = t
  <2>1. Busy(s, l) /\ Busy(t, l) /\ (run[s].epoch = run[t].epoch \/ (Asking(s) /\ Asking(t)))
    BY <1>1, <1>3
  <2>. QED  BY <2>1 DEF RequestInv
<1>. QED  BY <1>2, <1>3 DEF RequestInv

LEMMA RequestSendData ==
  ASSUME BaseInv, RequestInv, NEW s \in Slots, SendData(s) PROVE RequestInv'
<1>1. /\ run[s] # Idle /\ run[s].step \in {"reply", "replyQuick"} /\ Ends(s)
      /\ run[s].step = "replyQuick" => run[s].fn = "uploadFile"
      /\ SameDb /\ SameMemory /\ UNCHANGED <<disk, faults>>
      /\ \/ UNCHANGED client
         \/ /\ client' \in [Transfers -> Peer] /\ OthersClients(run[s].k)
            /\ AnswerTo(run[s].k, s) /\ run[s].epoch = client[run[s].k].epoch
  BY SendDataDoes
<1>. PICK k \in Transfers : k = run[s].k
  BY <1>1, AHandlerRuns DEF BaseInv
<1>2. Busy(s, k) /\ run[s].fn \in Handlers /\ StateOK
  BY <1>1, AHandlerRuns DEF BaseInv, Busy
<1>3. \A t \in Slots : run'[t] = run[t] \/ run'[t] = Idle
  BY <1>1 DEF Ends, OthersRun
<1>4. CASE UNCHANGED client
  BY <1>3, <1>4, RequestKept
<1>5. CASE /\ client' \in [Transfers -> Peer] /\ OthersClients(k)
           /\ AnswerTo(k, s) /\ run[s].epoch = client[k].epoch
  <2>1. RequestOK(s, k) /\ ClientOK(k)
    BY <1>2 DEF RequestInv, BaseInv
  <2>2. ASSUME NEW t \in Slots, Busy(t, k)' PROVE RequestOK(t, k)'
    <3>1. t # s /\ run'[t] = run[t] /\ Busy(t, k)
      BY <1>1, <2>2 DEF Busy, Ends, OthersRun
    <3>2. RequestOK(t, k) /\ run[t].epoch # run[s].epoch /\ ~(Asking(s) /\ Asking(t))
      BY <1>2, <3>1 DEF RequestInv
    <3>3. client'[k].epoch = client[k].epoch
      BY <1>5 DEF AnswerTo
    <3>4. client[k].phase = PhaseOf(run[s].fn)
      BY <1>5, <2>1 DEF RequestOK
    <3>5. ~Asking(t)
      <4>1. run[s].fn # "uploadFile" => client[k].phase \notin {"asked", "gone"}
        BY <1>2, <3>4 DEF PhaseOf, Handlers
      <4>. QED  BY <1>1, <3>2, <4>1 DEF RequestOK, Asking
    <3>6. run[s].fn # "uploadFile" /\ client[k].fid # 0
      <4>1. client[k].fid # 0
        BY <3>2, <3>5 DEF RequestOK
      <4>. QED  BY <2>1, <3>4, <4>1 DEF ClientOK, PhaseOf
    <3>7. client'[k].fid # 0
      BY <1>1, <1>2, <1>5, <3>6 DEF AnswerTo, Handlers
    <3>. QED  BY <1>5, <3>1, <3>2, <3>3, <3>5, <3>7 DEF RequestOK, Asking
  <2>. QED  BY <1>2, <1>3, <1>5, <2>2, RequestChanges
<1>. QED  BY <1>1, <1>4, <1>5

(* A client has no other request under way when it asks.                    *)
LEMMA NoneAsks ==
  ASSUME BaseInv, RequestInv, NEW k \in Transfers, client[k].phase \in {"new", "sending", "offline"},
         NEW t \in Slots, Busy(t, k)
  PROVE  run[t].epoch < client[k].epoch /\ ~Asking(t) /\ client[k].fid # 0
<1>1. StateOK /\ RequestOK(t, k) /\ run[t] # Idle
  BY DEF RequestInv, BaseInv, Busy
<1>2. run[t].fn \in Handlers /\ run[t].epoch \in Nat /\ client[k].epoch \in Nat
  BY <1>1, AHandlerRuns, ClientIs
<1>3. run[t].epoch # client[k].epoch
  BY <1>1, <1>2 DEF RequestOK, PhaseOf, Handlers
<1>. QED  BY <1>1, <1>2, <1>3 DEF RequestOK

LEMMA RequestAsks ==
  ASSUME BaseInv, RequestInv, NEW k \in Transfers, NEW s \in Slots, NEW fn \in Handlers, NEW lo, NEW hi,
         Asks(k, s, fn, lo, hi), client[k].phase \in {"new", "sending", "offline"}, Becomes(k, PhaseOf(fn)),
         fn = "uploadFile" <=> client[k].phase = "new"
  PROVE  RequestInv'
<1>1. ClientOK(k) /\ StateOK
  BY DEF BaseInv
<1>2. /\ client'[k].epoch = client[k].epoch /\ client'[k].fid = client[k].fid /\ client'[k].phase = PhaseOf(fn)
      /\ client[k].epoch \in Nat /\ OthersClients(k)
  BY <1>1, ClientIs DEF Becomes
<1>3. /\ run[s] = Idle /\ run'[s] # Idle /\ run'[s].k = k /\ run'[s].epoch = client[k].epoch /\ run'[s].fn = fn
      /\ OthersRun(s)
  BY HandlingIsNotIdle DEF Asks
<1>4. RequestOK(s, k)'
  BY <1>1, <1>2, <1>3 DEF RequestOK, Asking, PhaseOf, ClientOK
<1>5. ASSUME NEW t \in Slots \ {s}, NEW l \in Transfers, Busy(t, l)'
      PROVE  Busy(t, l) /\ run'[t] = run[t] /\ RequestOK(t, l)'
  <2>1. Busy(t, l) /\ run'[t] = run[t]
    BY <1>3, <1>5 DEF Busy, OthersRun
  <2>2. CASE l = k
    <3>1. run[t].epoch < client[k].epoch /\ ~Asking(t) /\ client[k].fid # 0 /\ run[t].epoch \in Nat
      BY <1>1, <2>1, <2>2, NoneAsks, AHandlerRuns DEF Busy
    <3>. QED  BY <1>2, <2>1, <2>2, <3>1 DEF RequestOK, Asking
  <2>3. CASE l # k
    BY <1>2, <2>1, <2>3 DEF RequestInv, RequestOK, OthersClients, Asking
  <2>. QED  BY <2>1, <2>2, <2>3
<1>6. ASSUME NEW t \in Slots, NEW l \in Transfers, Busy(t, l)'
      PROVE  RequestOK(t, l)'
  BY <1>3, <1>4, <1>5, <1>6 DEF Busy
<1>7. ASSUME NEW t \in Slots \ {s}, Busy(t, k)'
      PROVE  run'[t].epoch # run'[s].epoch /\ ~Asking(t)'
  <2>1. run'[t] = run[t] /\ run[t].epoch < client[k].epoch /\ ~Asking(t) /\ run[t].epoch \in Nat
    BY <1>1, <1>5, <1>7, NoneAsks, AHandlerRuns DEF Busy
  <2>. QED  BY <1>2, <1>3, <2>1 DEF Asking
<1>8. ASSUME NEW l \in Transfers, NEW t \in Slots, NEW u \in Slots, Busy(t, l)', Busy(u, l)',
             (run[t].epoch = run[u].epoch \/ (Asking(t) /\ Asking(u)))'
      PROVE  t = u
  <2>1. CASE t = s \/ u = s
    <3>1. l = k
      BY <1>3, <1>8, <2>1 DEF Busy
    <3>. QED  BY <1>7, <1>8, <2>1, <3>1
  <2>2. CASE t # s /\ u # s
    BY <1>5, <1>8, <2>2 DEF RequestInv, Asking
  <2>. QED  BY <2>1, <2>2
<1>. QED  BY <1>6, <1>8 DEF RequestInv

LEMMA RequestClient ==
  ASSUME BaseInv, RequestInv, NEW k \in Transfers, Client(k) PROVE RequestInv'
<1>1. StateOK
  BY DEF BaseInv
<1>2. "uploadFile" \in Handlers /\ "fileContentRq" \in Handlers /\ "continueUpload" \in Handlers
  BY DEF Handlers
<1>3. PhaseOf("uploadFile") = "asked" /\ PhaseOf("fileContentRq") = "waiting" /\ PhaseOf("continueUpload") = "resuming"
  BY DEF PhaseOf
<1>4. CASE sendUpload(k)
  <2>1. PICK s \in Slots : Asks(k, s, "uploadFile", 0, 0)
    BY <1>1, <1>4, SendUploadDoes
  <2>2. client[k].phase = "new" /\ Becomes(k, "asked")
    BY <1>1, <1>4, SendUploadDoes
  <2>. QED  BY <1>2, <1>3, <2>1, <2>2, RequestAsks
<1>5. CASE sendBlock(k)
  <2>1. PICK s \in Slots : Asks(k, s, "fileContentRq", client[k].pos, BlockEnd(client[k].pos))
    BY <1>1, <1>5, SendBlockDoes
  <2>2. client[k].phase = "sending" /\ Becomes(k, "waiting")
    BY <1>1, <1>5, SendBlockDoes
  <2>. QED  BY <1>2, <1>3, <2>1, <2>2, RequestAsks
<1>6. CASE sendContinue(k)
  <2>1. PICK s \in Slots : Asks(k, s, "continueUpload", 0, 0)
    BY <1>1, <1>6, SendContinueDoes
  <2>2. client[k].phase = "offline" /\ Becomes(k, "resuming")
    BY <1>1, <1>6, SendContinueDoes
  <2>. QED  BY <1>2, <1>3, <2>1, <2>2, RequestAsks
<1>. QED  BY <1>4, <1>5, <1>6 DEF Client

LEMMA RequestDisconnect ==
  ASSUME BaseInv, RequestInv, NEW k \in Transfers, disconnect(k) PROVE RequestInv'
<1>1. StateOK /\ ClientOK(k)
  BY DEF BaseInv
<1>2. /\ client[k].phase \in Working /\ OthersClients(k) /\ UNCHANGED run
      /\ client'[k].fid = client[k].fid /\ client'[k].epoch = client[k].epoch + 1
      /\ client'[k].phase = IF client[k].fid = 0 THEN "gone" ELSE "offline"
  BY <1>1, DisconnectDoes DEF GoesOffline
<1>3. ASSUME NEW t \in Slots, Busy(t, k)' PROVE RequestOK(t, k)'
  <2>1. run'[t] = run[t] /\ Busy(t, k) /\ RequestOK(t, k)
    BY <1>2, <1>3 DEF RequestInv, Busy
  <2>2. run[t].epoch \in Nat /\ client[k].epoch \in Nat /\ run[t].epoch <= client[k].epoch
    BY <1>1, <2>1, AHandlerRuns, ClientIs DEF Busy, RequestOK
  <2>3. Asking(t) => client[k].fid = 0
    BY <1>1, <2>1 DEF RequestOK, ClientOK
  <2>4. run[t].epoch <= client[k].epoch + 1 /\ run[t].epoch # client[k].epoch + 1
    BY <2>2
  <2>. QED  BY <1>2, <2>1, <2>3, <2>4 DEF RequestOK, Asking
<1>. QED  BY <1>2, <1>3, RequestChanges

LEMMA RequestInvStep == BaseInv /\ RequestInv /\ [Next]_vars => RequestInv'
<1>. SUFFICES ASSUME BaseInv, RequestInv, [Next]_vars PROVE RequestInv'
  OBVIOUS
<1>1. StateOK
  BY DEF BaseInv
<1>2. ASSUME NEW s \in Slots, uploadFile(s) \/ fileContentRq(s) \/ continueUpload(s) PROVE RequestInv'
  BY <1>2, HandlerMoves, RequestKept DEF OthersRun
<1>3. ASSUME NEW s \in Slots, CallFails(s) \/ lost(s) PROVE RequestInv'
  BY <1>1, <1>3, CallFailsDoes, LostDoes, RequestKept DEF Ends, OthersRun
<1>4. ASSUME NEW s \in Slots, SendData(s) PROVE RequestInv'
  BY <1>4, RequestSendData
<1>5. ASSUME NEW k \in Transfers, Client(k) \/ disconnect(k) PROVE RequestInv'
  BY <1>5, RequestClient, RequestDisconnect
<1>6. CASE crash
  <2>1. run' = [s \in Slots |-> Idle]
    BY <1>1, <1>6, CrashDoes
  <2>. QED  BY <2>1 DEF RequestInv, Busy
<1>7. CASE UNCHANGED vars
  BY <1>7, RequestKept DEF vars
<1>. QED  BY <1>2, <1>3, <1>4, <1>5, <1>6, <1>7 DEF Next, Handler

-----------------------------------------------------------------------------
(* OwnInv, step by step.                                                    *)
LEMMA CoreHolds == Spec => [](BaseInv /\ RequestInv)
<1>1. Init => BaseInv /\ RequestInv
  BY BaseInvInit, RequestInvInit
<1>2. BaseInv /\ RequestInv /\ [Next]_vars => (BaseInv /\ RequestInv)'
  BY BaseInvStep, RequestInvStep
<1>. QED  BY <1>1, <1>2, PTL DEF Spec

LEMMA ObjIsThere ==
  ASSUME BaseInv, NEW s \in Slots, run[s] # Idle, run[s].obj # 0
  PROVE  run[s].obj \in 1..Len(info) /\ run[s].k \in Transfers
BY AHandlerRuns DEF BaseInv, HandlerOK, StateOK

LEMMA HeldIsThere ==
  ASSUME StateOK, NEW k \in Transfers
  PROVE  Held(k) \in 0..Len(info) /\ Len(info) \in Nat /\ (Held(k) # 0 => Held(k) \in 1..Len(info))
BY KeysAre DEF StateOK, Held

(* A session is opened for one transfer, or taken from it.                  *)
LEMMA OpenedFor ==
  ASSUME StateOK, SeparateKeys, NEW k \in Transfers, NEW p, NEW fid, Opened(k, p, fid)
  PROVE  /\ Held(k)' = Len(info) + 1 /\ info'[Len(info) + 1] = FileInfo(p, fid)
         /\ \A l \in Transfers \ {k} : Held(l)' = Held(l)
         /\ \A l \in Transfers : m_mapTimstampToFileinfo'[timestamp[l]] = m_mapTimstampToFileinfo[timestamp[l]]
BY KeysAre DEF StateOK, SeparateKeys, Opened, Held

LEMMA ClosedFor ==
  ASSUME StateOK, SeparateKeys, NEW k \in Transfers,
         m_mapTimstampToFileinfo' = [m_mapTimstampToFileinfo EXCEPT ![user_time[k]] = 0]
  PROVE  /\ Held(k)' = 0
         /\ \A l \in Transfers \ {k} : Held(l)' = Held(l)
         /\ \A l \in Transfers : m_mapTimstampToFileinfo'[timestamp[l]] = m_mapTimstampToFileinfo[timestamp[l]]
BY KeysAre DEF StateOK, SeparateKeys, Held

PathsStay ==
  Len(info) <= Len(info') /\ \A o \in 1..Len(info) : info'[o].path = info[o].path
TimestampsStay ==
  \A k \in Transfers : m_mapTimstampToFileinfo'[timestamp[k]] = m_mapTimstampToFileinfo[timestamp[k]]

LEMMA OwnMoves ==
  ASSUME BaseInv, OwnInv, PathsStay, TimestampsStay,
         \A k \in Transfers : \/ Held(k)' = Held(k) \/ Held(k)' = 0
                              \/ (info[Held(k)].path = path(k))',
         \A t \in Slots : \/ run'[t] = run[t] \/ run'[t] = Idle \/ run'[t].obj = 0
                          \/ run[t] # Idle /\ run'[t].k = run[t].k /\ run'[t].obj = run[t].obj
                          \/ info'[run'[t].obj].path = path(run'[t].k),
         \A p \in Paths : OwnBytes(p)'
  PROVE  OwnInv'
<1>1. StateOK
  BY DEF BaseInv
<1>2. \A k \in Transfers : m_mapTimstampToFileinfo'[timestamp[k]] = 0
  BY DEF OwnInv, TimestampsStay
<1>3. ASSUME NEW k \in Transfers, Held(k)' # 0 PROVE (info[Held(k)].path = path(k))'
  <2>1. CASE Held(k)' = Held(k)
    <3>1. PICK o \in 1..Len(info) : o = Held(k)
      BY <1>1, <1>3, <2>1, HeldIsThere
    <3>2. info[o].path = path(k) /\ info'[o].path = info[o].path
      BY <1>3, <2>1, <3>1 DEF OwnInv, PathsStay
    <3>3. Held(k)' = o
      BY <2>1, <3>1
    <3>. QED  BY <3>2, <3>3 DEF path
  <2>. QED  BY <1>3, <2>1
<1>4. ASSUME NEW t \in Slots, run'[t] # Idle, run'[t].obj # 0
      PROVE  info'[run'[t].obj].path = path(run'[t].k)
  <2>1. CASE run[t] # Idle /\ run'[t].k = run[t].k /\ run'[t].obj = run[t].obj
    <3>1. run[t].obj \in 1..Len(info) /\ run[t].k \in Transfers
      BY <1>4, <2>1, ObjIsThere
    <3>. QED  BY <1>4, <2>1, <3>1 DEF OwnInv, PathsStay
  <2>2. CASE run'[t] = run[t]
    BY <1>4, <2>1, <2>2
  <2>. QED  BY <1>4, <2>1, <2>2
<1>5. \A t \in Slots : (run[t] # Idle /\ run[t].obj # 0)' => (info[run[t].obj].path = path(run[t].k))'
  BY <1>4 DEF path
<1>. QED  BY <1>2, <1>3, <1>5 DEF OwnInv

LEMMA SamePaths == SameMemory /\ StateOK => PathsStay /\ TimestampsStay /\ \A k \in Transfers : Held(k)' = Held(k)
BY DEF SameMemory, StateOK, PathsStay, TimestampsStay, Held

LEMMA ChangedPaths ==
  ASSUME StateOK, NEW o \in 1..Len(info), Changed(o)
  PROVE  PathsStay
BY DEF StateOK, Changed, PathsStay

LEMMA OpenedPaths ==
  ASSUME StateOK, NEW k \in Transfers, NEW p, NEW fid, Opened(k, p, fid)
  PROVE  PathsStay
BY DEF StateOK, Opened, PathsStay

LEMMA SameBytes ==
  ASSUME OwnInv, UNCHANGED disk
  PROVE  \A p \in Paths : OwnBytes(p)'
BY DEF OwnInv, OwnBytes, Hole

(* Steps that leave the sessions and the files alone.                       *)
LEMMA OwnStays ==
  ASSUME BaseInv, OwnInv, SameMemory, UNCHANGED disk,
         \A t \in Slots : \/ run'[t] = run[t] \/ run'[t] = Idle \/ run'[t].obj = 0
                          \/ run[t] # Idle /\ run'[t].k = run[t].k /\ run'[t].obj = run[t].obj
                          \/ info[run'[t].obj].path = path(run'[t].k)
  PROVE  OwnInv'
<1>1. info' = info /\ PathsStay /\ TimestampsStay /\ \A k \in Transfers : Held(k)' = Held(k)
  BY SamePaths DEF BaseInv, SameMemory
<1>2. \A t \in Slots : \/ run'[t] = run[t] \/ run'[t] = Idle \/ run'[t].obj = 0
                       \/ run[t] # Idle /\ run'[t].k = run[t].k /\ run'[t].obj = run[t].obj
                       \/ info'[run'[t].obj].path = path(run'[t].k)
  BY <1>1
<1>. QED  BY <1>1, <1>2, SameBytes, OwnMoves

(* A handler changes its session.                                           *)
LEMMA OwnChanges ==
  ASSUME BaseInv, OwnInv, NEW s \in Slots, run[s].obj \in 1..Len(info), Changed(run[s].obj), run[s] # Idle,
         UNCHANGED m_mapTimstampToFileinfo, OthersRun(s), run'[s].k = run[s].k, run'[s].obj = run[s].obj,
         \A p \in Paths : OwnBytes(p)'
  PROVE  OwnInv'
<1>1. PathsStay
  BY ChangedPaths DEF BaseInv
<1>2. TimestampsStay /\ \A k \in Transfers : Held(k)' = Held(k)
  BY DEF TimestampsStay, Held
<1>3. \A t \in Slots : \/ run'[t] = run[t] \/ run'[t] = Idle \/ run'[t].obj = 0
                       \/ run[t] # Idle /\ run'[t].k = run[t].k /\ run'[t].obj = run[t].obj
                       \/ info'[run'[t].obj].path = path(run'[t].k)
  BY DEF OthersRun
<1>. QED  BY <1>1, <1>2, <1>3, OwnMoves

(* A handler opens a session.                                               *)
LEMMA OwnOpens ==
  ASSUME BaseInv, OwnInv, SeparateKeys, NEW s \in Slots, run[s] # Idle, NEW fid \in Nat,
         Opened(run[s].k, path(run[s].k), fid), OthersRun(s), run'[s].k = run[s].k, run'[s].obj = Len(info) + 1,
         \A p \in Paths : OwnBytes(p)'
  PROVE  OwnInv'
<1>. PICK k \in Transfers : k = run[s].k
  BY AHandlerRuns DEF BaseInv
<1>1. PathsStay
  BY OpenedPaths DEF BaseInv
<1>2. /\ Held(k)' = Len(info) + 1 /\ info'[Len(info) + 1] = FileInfo(path(k), fid)
      /\ \A l \in Transfers \ {k} : Held(l)' = Held(l)
      /\ TimestampsStay
  BY OpenedFor DEF BaseInv, TimestampsStay
<1>3. info'[Len(info) + 1].path = path(k)
  BY <1>2 DEF FileInfo
<1>4. (info[Held(k)].path = path(k))'
  BY <1>2, <1>3 DEF path
<1>5. \A t \in Slots : \/ run'[t] = run[t] \/ run'[t] = Idle \/ run'[t].obj = 0
                       \/ run[t] # Idle /\ run'[t].k = run[t].k /\ run'[t].obj = run[t].obj
                       \/ info'[run'[t].obj].path = path(run'[t].k)
  BY <1>3 DEF OthersRun
<1>6. \A l \in Transfers : \/ Held(l)' = Held(l) \/ Held(l)' = 0
                           \/ (info[Held(l)].path = path(l))'
  BY <1>2, <1>4
<1>. QED  BY <1>1, <1>2, <1>5, <1>6, OwnMoves

LEMMA OwnWrite ==
  ASSUME BaseInv, OwnInv, NEW s \in Slots, fileContentRq_write(s) PROVE OwnInv'
<1>1. /\ Runs(s, "fileContentRq", "write") /\ UNCHANGED m_mapTimstampToFileinfo
      /\ run[s].obj \in 1..Len(info) /\ run'[s].obj = run[s].obj
      /\ len(s) \in Nat \ {0}
  BY WriteDoes
<1>2. \/ /\ run'[s].n \in 1..len(s)
         /\ Stores(info[run[s].obj].path, info[run[s].obj].off, run[s].k, run[s].lo, run'[s].n)
         /\ Changed(run[s].obj)
         /\ GoesOn(s, "written") \/ GoesOn(s, "failed")
      \/ GoesOn(s, "failed") /\ UNCHANGED <<disk, info>>
  BY WriteDoes
<1>3. run[s] # Idle /\ OthersRun(s) /\ run'[s].k = run[s].k /\ StateOK /\ run[s].lo \in Nat
  BY <1>1, <1>2, HandlingIsNotIdle, AHandlerRuns DEF Runs, GoesOn, BaseInv
<1>4. CASE UNCHANGED <<disk, info>>
  BY <1>1, <1>3, <1>4, OwnStays DEF OthersRun, SameMemory
<1>5. CASE /\ run'[s].n \in 1..len(s)
           /\ Stores(info[run[s].obj].path, info[run[s].obj].off, run[s].k, run[s].lo, run'[s].n)
           /\ Changed(run[s].obj)
  <2>. PICK k \in Transfers, p \in Paths, off \in Int, n \in Nat, lo \in Nat :
         k = run[s].k /\ p = info[run[s].obj].path /\ off = info[run[s].obj].off /\ n = run'[s].n /\ lo = run[s].lo
    <3>1. run'[s].n \in Nat
      BY <1>1, <1>5
    <3>. QED  BY <1>1, <1>3, <3>1, AHandlerRuns, SessionIsThere
  <2>1. p = path(k) /\ p[2] = md5[k]
    BY <1>1, <1>3 DEF OwnInv, path
  <2>2. Stores(p, off, k, lo, n) /\ Len(disk[p]) \in Nat
    BY <1>3, <1>5 DEF StateOK
  <2>3. OwnBytes(p)'
    <3>1. ASSUME NEW i \in 1..Len(disk'[p]) PROVE disk'[p][i] = Hole \/ disk'[p][i].file = p[2]
      <4>1. i \in 1..Longer(Len(disk[p]), off + n) /\ i \in Nat
        BY <2>2, <3>1 DEF Stores, Longer
      <4>2. disk'[p][i] = IF off < i /\ i <= off + n THEN Byte(md5[k], lo + (i - off))
                          ELSE IF i <= Len(disk[p]) THEN disk[p][i] ELSE Hole
        BY <2>2, <4>1 DEF Stores
      <4>3. i <= Len(disk[p]) => disk[p][i] = Hole \/ disk[p][i].file = p[2]
        BY <2>2, <4>1 DEF OwnInv, OwnBytes
      <4>. QED  BY <2>1, <4>2, <4>3 DEF Byte
    <3>. QED  BY <3>1 DEF OwnBytes, Hole
  <2>4. ASSUME NEW q \in Paths PROVE OwnBytes(q)'
    <3>1. q # p => disk'[q] = disk[q]
      BY <2>2 DEF Stores
    <3>. QED  BY <2>3, <3>1 DEF OwnInv, OwnBytes, Hole
  <2>. QED  BY <1>1, <1>3, <1>5, <2>4, OwnChanges
<1>. QED  BY <1>2, <1>4, <1>5

LEMMA OwnInvInit == Init => OwnInv
<1>. SUFFICES ASSUME Init PROVE OwnInv
  OBVIOUS
<1>1. \A p \in Paths : disk[p] = <<>>
  BY DEF Init
<1>. QED  BY <1>1, KeysAre DEF Init, OwnInv, OwnBytes, Held

LEMMA OwnInvStep == SeparateKeys /\ BaseInv /\ OwnInv /\ [Next]_vars => OwnInv'
<1>. SUFFICES ASSUME SeparateKeys, BaseInv, OwnInv, [Next]_vars PROVE OwnInv'
  OBVIOUS
<1>1. StateOK
  BY DEF BaseInv
<1>2. ASSUME NEW s \in Slots, uploadFile_quick(s) \/ uploadFile_quickInsert(s) \/ uploadFile_insertFile(s)
                              \/ uploadFile_insertRel(s)
      PROVE  OwnInv'
  <2>1. /\ run[s] \in Handling /\ SameMemory /\ UNCHANGED disk /\ run'[s].obj = run[s].obj
        /\ \E step \in AllSteps : GoesOn(s, step)
    <3>1. "open" \in AllSteps /\ "quick" \in AllSteps /\ "replyQuick" \in AllSteps /\ "selectId" \in AllSteps
          /\ "reply" \in AllSteps
      BY DEF AllSteps
    <3>. QED  BY <1>1, <1>2, <3>1, QuickDoes, QuickInsertDoes, InsertFileDoes, InsertRelDoes DEF Runs
  <2>. QED  BY <2>1, HandlingIsNotIdle, OwnStays DEF GoesOn, OthersRun
<1>3. ASSUME NEW s \in Slots, uploadFile_open(s) PROVE OwnInv'
  <2>1. /\ Runs(s, "uploadFile", "open")
        /\ disk' = [disk EXCEPT ![path(run[s].k)] = <<>>]
        /\ Opened(run[s].k, path(run[s].k), 0) /\ run'[s].k = run[s].k /\ OthersRun(s)
        /\ run'[s].obj = Len(info) + 1
    BY <1>1, <1>3, OpenDoes DEF GoesOn
  <2>2. \A p \in Paths : OwnBytes(p)'
    <3>1. \A p \in Paths : disk'[p] = <<>> \/ disk'[p] = disk[p]
      BY <1>1, <2>1 DEF StateOK
    <3>. QED  BY <3>1 DEF OwnInv, OwnBytes, Hole
  <2>3. run[s] # Idle /\ 0 \in Nat
    BY <2>1, HandlingIsNotIdle DEF Runs
  <2>. QED  BY <2>1, <2>2, <2>3, OwnOpens
<1>4. ASSUME NEW s \in Slots, uploadFile_selectId(s) \/ fileContentRq_failed(s) \/ fileContentRq_advance(s)
                              \/ continueUpload_seek(s)
      PROVE  OwnInv'
  <2>1. /\ run[s] \in Handling /\ UNCHANGED <<disk, m_mapTimstampToFileinfo>> /\ run'[s].obj = run[s].obj
        /\ run[s].obj \in 1..Len(info) /\ Changed(run[s].obj)
        /\ OthersRun(s) /\ run'[s].k = run[s].k
    BY <1>4, SelectIdDoes, FailedDoes, AdvanceDoes, SeekDoes DEF Runs, GoesOn
  <2>. QED  BY <2>1, HandlingIsNotIdle, SameBytes, OwnChanges
<1>5. ASSUME NEW s \in Slots, fileContentRq_find(s) PROVE OwnInv'
  <2>1. /\ run[s] \in Handling /\ SameMemory /\ UNCHANGED disk /\ OthersRun(s)
        /\ run'[s] = Idle \/ (run'[s].k = run[s].k /\ run'[s].obj = Held(run[s].k))
    BY <1>1, <1>5, FindDoes DEF Runs, GoesOn, Ends
  <2>2. run[s].k \in Transfers
    BY <2>1 DEF Handling
  <2>3. \/ run'[s] = Idle \/ run'[s].obj = 0 \/ info[run'[s].obj].path = path(run'[s].k)
    BY <2>1, <2>2 DEF OwnInv
  <2>. QED  BY <2>1, <2>3, OwnStays DEF OthersRun
<1>6. ASSUME NEW s \in Slots, fileContentRq_read(s) \/ fileContentRq_update(s) \/ continueUpload_select(s)
      PROVE  OwnInv'
  <2>1. /\ run[s] \in Handling /\ SameMemory /\ UNCHANGED disk /\ OthersRun(s)
        /\ run'[s] = Idle \/ (run'[s].k = run[s].k /\ run'[s].obj = run[s].obj)
    BY <1>1, <1>6, ReadDoes, UpdateDoes, ContinueSelectDoes DEF Runs, GoesOn, Ends
  <2>. QED  BY <2>1, HandlingIsNotIdle, OwnStays DEF OthersRun
<1>7. ASSUME NEW s \in Slots, fileContentRq_close(s) PROVE OwnInv'
  <2>1. /\ run[s] \in Handling /\ UNCHANGED disk /\ OthersRun(s) /\ run'[s].k = run[s].k /\ run'[s].obj = run[s].obj
        /\ run[s].obj \in 1..Len(info) /\ Changed(run[s].obj)
        /\ m_mapTimstampToFileinfo' = [m_mapTimstampToFileinfo EXCEPT ![user_time[run[s].k]] = 0]
    BY <1>7, CloseDoes DEF Runs, GoesOn
  <2>2. run[s].k \in Transfers /\ run[s] # Idle
    BY <2>1, HandlingIsNotIdle DEF Handling
  <2>3. TimestampsStay /\ \A l \in Transfers : Held(l)' = Held(l) \/ Held(l)' = 0
    BY <1>1, <2>1, <2>2, ClosedFor DEF TimestampsStay
  <2>4. PathsStay /\ \A p \in Paths : OwnBytes(p)'
    BY <1>1, <2>1, ChangedPaths, SameBytes
  <2>5. \A t \in Slots : run'[t] = run[t] \/ (run[t] # Idle /\ run'[t].k = run[t].k /\ run'[t].obj = run[t].obj)
    BY <2>1, <2>2 DEF OthersRun
  <2>. QED  BY <2>3, <2>4, <2>5, OwnMoves
<1>8. ASSUME NEW s \in Slots, continueUpload_find(s) PROVE OwnInv'
  <2>1. /\ run[s] \in Handling /\ SameMemory /\ UNCHANGED disk /\ OthersRun(s)
        /\ run'[s].obj = m_mapTimstampToFileinfo[timestamp[run[s].k]]
    BY <1>1, <1>8, ContinueFindDoes DEF Runs, GoesOn
  <2>2. run[s].k \in Transfers
    BY <2>1 DEF Handling
  <2>3. run'[s].obj = 0
    BY <2>1, <2>2 DEF OwnInv
  <2>. QED  BY <2>1, <2>3, OwnStays DEF OthersRun
<1>9. ASSUME NEW s \in Slots, continueUpload_open(s) PROVE OwnInv'
  <2>1. /\ Runs(s, "continueUpload", "reopen") /\ UNCHANGED disk
        /\ Opened(run[s].k, path(run[s].k), run[s].fid) /\ run'[s].k = run[s].k /\ OthersRun(s)
        /\ run'[s].obj = Len(info) + 1
    BY <1>1, <1>9, ReopenDoes DEF GoesOn
  <2>2. run[s] # Idle /\ run[s].fid \in Nat
    BY <2>1, HandlingIsNotIdle DEF Runs, Handling
  <2>. QED  BY <2>1, <2>2, SameBytes, OwnOpens
<1>10. ASSUME NEW s \in Slots, CallFails(s) \/ lost(s) \/ SendData(s) PROVE OwnInv'
  <2>1. SameMemory /\ UNCHANGED disk /\ OthersRun(s) /\ run'[s] = Idle
    BY <1>1, <1>10, CallFailsDoes, LostDoes, SendDataDoes DEF Ends
  <2>. QED  BY <2>1, OwnStays DEF OthersRun
<1>11. ASSUME NEW k \in Transfers, Client(k) PROVE OwnInv'
  <2>1. SameMemory /\ UNCHANGED disk /\ \E s \in Slots : OthersRun(s) /\ run'[s].obj = 0
    BY <1>1, <1>11, SendUploadDoes, SendBlockDoes, SendContinueDoes DEF Client, Asks
  <2>. QED  BY <2>1, OwnStays DEF OthersRun
<1>12. ASSUME NEW k \in Transfers, disconnect(k) PROVE OwnInv'
  <2>1. SameMemory /\ UNCHANGED <<disk, run>>
    BY <1>1, <1>12, DisconnectDoes
  <2>. QED  BY <2>1, OwnStays
<1>13. CASE crash
  <2>1. m_mapTimstampToFileinfo' = [key \in Keys |-> 0] /\ run' = [s \in Slots |-> Idle] /\ UNCHANGED disk
    BY <1>1, <1>13, CrashDoes
  <2>. QED  BY <2>1, KeysAre, SameBytes DEF OwnInv, Held, Idle
<1>14. CASE UNCHANGED vars
  <2>1. SameMemory /\ UNCHANGED <<disk, run>>
    BY <1>14 DEF vars, memory, SameMemory
  <2>. QED  BY <2>1, OwnStays
<1>15. ASSUME NEW s \in Slots, Handler(s) PROVE OwnInv'
  <2>1. CASE uploadFile(s)
    BY <1>2, <1>3, <1>4, <2>1 DEF uploadFile
  <2>2. CASE fileContentRq(s)
    <3>1. CASE fileContentRq_write(s)
      BY <3>1, OwnWrite
    <3>. QED  BY <1>4, <1>5, <1>6, <1>7, <2>2, <3>1 DEF fileContentRq
  <2>3. CASE continueUpload(s)
    BY <1>4, <1>6, <1>8, <1>9, <2>3 DEF continueUpload
  <2>. QED  BY <1>10, <1>15, <2>1, <2>2, <2>3 DEF Handler
<1>. QED  BY <1>10, <1>11, <1>12, <1>13, <1>14, <1>15 DEF Next

(* A file only ever holds bytes of its own transfer, whatever fails         *)
(* (Upload's writes go through the FileInfo that Key(s) finds).             *)
THEOREM OnlyOwnBytesHolds == SeparateKeys => (Spec => []OnlyOwnBytes)
<1>. SUFFICES ASSUME SeparateKeys PROVE Spec => []OnlyOwnBytes
  OBVIOUS
<1>1. Init => OwnInv
  BY OwnInvInit
<1>2. BaseInv /\ OwnInv /\ [Next]_vars => OwnInv'
  BY OwnInvStep
<1>3. OwnInv => OnlyOwnBytes
  <2>. SUFFICES ASSUME OwnInv, NEW p \in Paths, NEW i \in 1..Len(disk[p])
                PROVE  disk[p][i] = Hole \/ <<p[1], disk[p][i].file>> = p
    BY DEF OnlyOwnBytes
  <2>1. PICK k \in Transfers : p = path(k)
    BY DEF Paths
  <2>2. disk[p][i] = Hole \/ disk[p][i].file = p[2]
    BY DEF OwnInv, OwnBytes
  <2>. QED  BY <2>1, <2>2 DEF path
<1>. QED  BY <1>1, <1>2, <1>3, CoreHolds, PTL DEF Spec

-----------------------------------------------------------------------------
(* A step for one transfer leaves the others alone: their sessions, their   *)
(* files, their requests and their clients.                                 *)
Separate == SeparateKeys /\ SeparatePaths
OtherSessions(k) ==
  \A l \in Transfers \ {k} :
    Held(l)' = Held(l) /\ (Held(l) # 0 => info'[Held(l)] = info[Held(l)])
OtherFiles(k) == \A l \in Transfers \ {k} : disk'[path(l)] = disk[path(l)]
OtherRequests(k) ==
  \A l \in Transfers \ {k} : \A t \in Slots : Busy(t, l) \/ Busy(t, l)' => run'[t] = run[t]
Apart(k) == OtherSessions(k) /\ OtherFiles(k) /\ OtherRequests(k) /\ OthersClients(k)

LEMMA SessionsDiffer ==
  ASSUME BaseInv, OwnInv, Separate, NEW s \in Slots, run[s] # Idle, run[s].obj # 0,
         NEW l \in Transfers, l # run[s].k
  PROVE  Held(l) # run[s].obj
BY ObjIsThere DEF OwnInv, Separate, SeparatePaths

LEMMA HandlersDiffer ==
  ASSUME BaseInv, OwnInv, Separate, NEW s \in Slots, run[s] # Idle, run[s].obj # 0,
         NEW t \in Slots, run[t] # Idle, run[t].obj = run[s].obj
  PROVE  run[t].k = run[s].k
BY ObjIsThere DEF OwnInv, Separate, SeparatePaths

LEMMA SameSessions ==
  ASSUME SameMemory, NEW k \in Transfers
  PROVE  OtherSessions(k)
BY DEF SameMemory, OtherSessions, Held

LEMMA OpenedApart ==
  ASSUME StateOK, Separate, NEW k \in Transfers, NEW p, NEW fid, Opened(k, p, fid)
  PROVE  OtherSessions(k)
<1>1. \A l \in Transfers \ {k} : Held(l)' = Held(l)
  BY OpenedFor DEF Separate
<1>2. \A l \in Transfers \ {k} : Held(l) # 0 => info'[Held(l)] = info[Held(l)]
  BY HeldIsThere DEF Opened
<1>. QED  BY <1>1, <1>2 DEF OtherSessions

LEMMA ChangedApart ==
  ASSUME BaseInv, OwnInv, Separate, NEW s \in Slots, run[s] # Idle, run[s].obj \in 1..Len(info),
         Changed(run[s].obj), NEW k \in Transfers, k = run[s].k,
         \A l \in Transfers \ {k} : Held(l)' = Held(l)
  PROVE  OtherSessions(k)
<1>. PICK o \in 1..Len(info) : o = run[s].obj
  OBVIOUS
<1>1. ASSUME NEW l \in Transfers \ {k}, Held(l) # 0 PROVE info'[Held(l)] = info[Held(l)]
  <2>1. PICK h \in 1..Len(info) : h = Held(l)
    BY <1>1, HeldIsThere DEF BaseInv
  <2>2. h # o
    <3>1. run[s].obj # 0
      BY DEF BaseInv, StateOK
    <3>. QED  BY <2>1, <3>1, SessionsDiffer
  <2>3. info'[h] = info[h]
    BY <2>2 DEF Changed
  <2>. QED  BY <2>1, <2>3
<1>. QED  BY <1>1 DEF OtherSessions

LEMMA RequestsApart ==
  ASSUME NEW s \in Slots, run[s] # Idle, OthersRun(s), NEW k \in Transfers, k = run[s].k,
         run'[s] = Idle \/ run'[s].k = k
  PROVE  OtherRequests(k)
BY DEF OtherRequests, OthersRun, Busy

LEMMA SameFiles ==
  ASSUME UNCHANGED disk, NEW k \in Transfers
  PROVE  OtherFiles(k)
BY DEF OtherFiles

LEMMA WriteApart ==
  ASSUME BaseInv, OwnInv, Separate, NEW s \in Slots, fileContentRq_write(s), NEW k \in Transfers, k = run[s].k
  PROVE  OtherSessions(k) /\ OtherFiles(k)
<1>1. /\ Runs(s, "fileContentRq", "write") /\ UNCHANGED m_mapTimstampToFileinfo
      /\ run[s].obj \in 1..Len(info)
  BY WriteDoes
<1>2. run[s] # Idle /\ \A l \in Transfers : Held(l)' = Held(l)
  BY <1>1, HandlingIsNotIdle DEF Runs, Held
<1>3. CASE UNCHANGED <<disk, info>>
  BY <1>1, <1>3, SameFiles, SameSessions DEF SameMemory
<1>4. CASE /\ Stores(info[run[s].obj].path, info[run[s].obj].off, run[s].k, run[s].lo, run'[s].n)
           /\ Changed(run[s].obj)
  <2>1. run[s].obj # 0 /\ info[run[s].obj].path = path(k)
    BY <1>1, <1>2 DEF OwnInv, BaseInv, StateOK
  <2>2. \A l \in Transfers \ {k} : path(l) # path(k)
    BY DEF Separate, SeparatePaths
  <2>3. OtherFiles(k)
    BY <1>4, <2>1, <2>2, PathsAre DEF Stores, OtherFiles
  <2>4. OtherSessions(k)
    BY <1>1, <1>2, <1>4, ChangedApart
  <2>. QED  BY <2>3, <2>4
<1>. QED  BY <1>3, <1>4, WriteDoes

LEMMA HandlerApart ==
  ASSUME BaseInv, OwnInv, Separate, NEW s \in Slots, NEW k \in Transfers, k = run[s].k,
         uploadFile(s) \/ fileContentRq(s) \/ continueUpload(s)
  PROVE  Apart(k)
<1>1. StateOK
  BY DEF BaseInv
<1>2. run[s] # Idle /\ OthersRun(s) /\ UNCHANGED client /\ (run'[s] = Idle \/ run'[s].k = k)
  BY HandlerMoves DEF SameRequest
<1>3. OtherRequests(k) /\ OthersClients(k)
  BY <1>2, RequestsApart DEF OthersClients
<1>4. ASSUME uploadFile_quick(s) \/ uploadFile_quickInsert(s) \/ uploadFile_insertFile(s)
             \/ uploadFile_insertRel(s)
      PROVE  SameMemory /\ UNCHANGED disk
  BY <1>1, <1>4, QuickDoes, QuickInsertDoes, InsertFileDoes, InsertRelDoes
<1>5. ASSUME fileContentRq_find(s) \/ fileContentRq_read(s) \/ fileContentRq_update(s) \/ continueUpload_find(s)
             \/ continueUpload_select(s)
      PROVE  SameMemory /\ UNCHANGED disk
  BY <1>1, <1>5, FindDoes, ReadDoes, UpdateDoes, ContinueFindDoes, ContinueSelectDoes
<1>6. ASSUME uploadFile_selectId(s) \/ fileContentRq_failed(s) \/ fileContentRq_advance(s)
             \/ continueUpload_seek(s)
      PROVE  OtherSessions(k) /\ OtherFiles(k)
  <2>1. /\ UNCHANGED <<disk, m_mapTimstampToFileinfo>> /\ run[s].obj \in 1..Len(info) /\ Changed(run[s].obj)
    BY <1>6, SelectIdDoes, FailedDoes, AdvanceDoes, SeekDoes
  <2>2. \A l \in Transfers : Held(l)' = Held(l)
    BY <2>1 DEF Held
  <2>. QED  BY <1>2, <2>1, <2>2, SameFiles, ChangedApart
<1>7. ASSUME uploadFile_open(s) PROVE OtherSessions(k) /\ OtherFiles(k)
  <2>1. disk' = [disk EXCEPT ![path(k)] = <<>>] /\ Opened(k, path(k), 0)
    BY <1>1, <1>7, OpenDoes
  <2>2. OtherFiles(k)
    BY <1>1, <2>1, PathsAre DEF StateOK, OtherFiles, Separate, SeparatePaths
  <2>. QED  BY <1>1, <2>1, <2>2, OpenedApart
<1>8. ASSUME continueUpload_open(s) PROVE OtherSessions(k) /\ OtherFiles(k)
  <2>1. Opened(k, path(k), run[s].fid) /\ UNCHANGED disk
    BY <1>8, ReopenDoes
  <2>. QED  BY <1>1, <2>1, SameFiles, OpenedApart
<1>9. ASSUME fileContentRq_close(s) PROVE OtherSessions(k) /\ OtherFiles(k)
  <2>1. /\ UNCHANGED disk /\ run[s].obj \in 1..Len(info) /\ Changed(run[s].obj)
        /\ m_mapTimstampToFileinfo' = [m_mapTimstampToFileinfo EXCEPT ![user_time[k]] = 0]
    BY <1>9, CloseDoes
  <2>2. \A l \in Transfers \ {k} : Held(l)' = Held(l)
    BY <1>1, <2>1, ClosedFor DEF Separate
  <2>. QED  BY <1>2, <2>1, <2>2, SameFiles, ChangedApart
<1>10. OtherSessions(k) /\ OtherFiles(k)
  <2>1. CASE uploadFile(s)
    BY <1>4, <1>6, <1>7, <2>1, SameFiles, SameSessions DEF uploadFile
  <2>2. CASE fileContentRq(s)
    BY <1>5, <1>6, <1>9, <2>2, WriteApart, SameFiles, SameSessions DEF fileContentRq
  <2>3. CASE continueUpload(s)
    BY <1>5, <1>6, <1>8, <2>3, SameFiles, SameSessions DEF continueUpload
  <2>. QED  BY <2>1, <2>2, <2>3
<1>. QED  BY <1>3, <1>10 DEF Apart

LEMMA EndApart ==
  ASSUME BaseInv, NEW s \in Slots, NEW k \in Transfers, k = run[s].k,
         SendData(s) \/ CallFails(s) \/ lost(s)
  PROVE  Apart(k)
<1>1. /\ run[s] # Idle /\ SameMemory /\ UNCHANGED disk /\ OthersRun(s) /\ run'[s] = Idle
      /\ UNCHANGED client \/ OthersClients(k)
  BY SendDataDoes, CallFailsDoes, LostDoes DEF Ends, BaseInv
<1>2. OtherRequests(k)
  BY <1>1, RequestsApart
<1>. QED  BY <1>1, <1>2, SameFiles, SameSessions DEF Apart, OthersClients

LEMMA ClientApart ==
  ASSUME BaseInv, NEW k \in Transfers, Client(k) \/ disconnect(k)
  PROVE  Apart(k)
<1>1. CASE disconnect(k)
  <2>1. SameMemory /\ UNCHANGED <<disk, run>> /\ OthersClients(k)
    BY <1>1, DisconnectDoes DEF BaseInv
  <2>. QED  BY <2>1, SameFiles, SameSessions DEF Apart, OtherRequests
<1>2. CASE Client(k)
  <2>1. SameMemory /\ UNCHANGED disk /\ OthersClients(k)
    BY <1>2, SendUploadDoes, SendBlockDoes, SendContinueDoes DEF Client, Becomes, BaseInv
  <2>2. PICK s \in Slots : run[s] = Idle /\ run'[s].k = k /\ OthersRun(s)
    BY <1>2, SendUploadDoes, SendBlockDoes, SendContinueDoes DEF Client, Asks, BaseInv
  <2>3. OtherRequests(k)
    BY <2>2 DEF OtherRequests, OthersRun, Busy
  <2>. QED  BY <2>1, <2>3, SameFiles, SameSessions DEF Apart
<1>. QED  BY <1>1, <1>2

-----------------------------------------------------------------------------
(* OpenInv and SingleInv.                                                   *)
LEMMA OpenInvInit == Init => OpenInv
BY KeysAre DEF Init, OpenInv, Held

LEMMA OpenMoves ==
  ASSUME OpenInv, NEW k \in Transfers, OtherSessions(k), Held(k)' # 0 => (info[Held(k)].alive)'
  PROVE  OpenInv'
BY DEF OpenInv, OtherSessions

LEMMA OpenInvStep == Separate /\ BaseInv /\ OwnInv /\ OpenInv /\ [Next]_vars => OpenInv'
<1>. SUFFICES ASSUME Separate, BaseInv, OwnInv, OpenInv, [Next]_vars PROVE OpenInv'
  OBVIOUS
<1>1. StateOK
  BY DEF BaseInv
<1>2. ASSUME SameMemory PROVE OpenInv'
  BY <1>2 DEF SameMemory, OpenInv, Held
<1>3. ASSUME NEW s \in Slots, uploadFile(s) \/ fileContentRq(s) \/ continueUpload(s) PROVE OpenInv'
  <2>. PICK k \in Transfers : k = run[s].k
    BY <1>1, <1>3, HandlerMoves, AHandlerRuns
  <2>1. OtherSessions(k)
    BY <1>3, HandlerApart DEF Apart
  <2>2. ASSUME uploadFile_quick(s) \/ uploadFile_quickInsert(s) \/ uploadFile_insertFile(s)
               \/ uploadFile_insertRel(s)
        PROVE  OpenInv'
    BY <1>1, <1>2, <2>2, QuickDoes, QuickInsertDoes, InsertFileDoes, InsertRelDoes
  <2>3. ASSUME fileContentRq_find(s) \/ fileContentRq_read(s) \/ fileContentRq_update(s) \/ continueUpload_find(s)
               \/ continueUpload_select(s)
        PROVE  OpenInv'
    BY <1>1, <1>2, <2>3, FindDoes, ReadDoes, UpdateDoes, ContinueFindDoes, ContinueSelectDoes
  <2>4. ASSUME uploadFile_selectId(s) \/ fileContentRq_failed(s) \/ fileContentRq_advance(s)
               \/ continueUpload_seek(s) \/ fileContentRq_write(s)
        PROVE  OpenInv'
    <3>1. CASE SameMemory
      BY <1>2, <3>1
    <3>2. CASE ~SameMemory
      <4>1. /\ UNCHANGED m_mapTimstampToFileinfo /\ run[s].obj \in 1..Len(info) /\ Changed(run[s].obj)
            /\ info'[run[s].obj].alive = info[run[s].obj].alive
        BY <2>4, <3>2, SelectIdDoes, FailedDoes, AdvanceDoes, SeekDoes, WriteDoes DEF SameMemory
      <4>2. Held(k)' = Held(k) /\ (Held(k) # 0 => Held(k) \in 1..Len(info))
        BY <1>1, <4>1, HeldIsThere DEF Held
      <4>3. Held(k) # 0 => info'[Held(k)].alive = info[Held(k)].alive
        BY <4>1, <4>2 DEF Changed
      <4>. QED  BY <2>1, <4>2, <4>3, OpenMoves DEF OpenInv
    <3>. QED  BY <3>1, <3>2
  <2>5. ASSUME uploadFile_open(s) \/ continueUpload_open(s) PROVE OpenInv'
    <3>1. PICK fid : Opened(k, path(k), fid)
      BY <1>1, <2>5, OpenDoes, ReopenDoes
    <3>2. Held(k)' = Len(info) + 1 /\ info'[Len(info) + 1] = FileInfo(path(k), fid)
      BY <1>1, <3>1, OpenedFor DEF Separate
    <3>3. info'[Len(info) + 1].alive
      BY <3>2 DEF FileInfo
    <3>4. (info[Held(k)].alive)'
      BY <3>2, <3>3
    <3>. QED  BY <2>1, <3>4, OpenMoves
  <2>6. ASSUME fileContentRq_close(s) PROVE OpenInv'
    <3>1. Held(k)' = 0
      BY <1>1, <2>6, CloseDoes, ClosedFor DEF Separate
    <3>. QED  BY <2>1, <3>1, OpenMoves
  <2>7. CASE uploadFile(s)
    BY <2>2, <2>4, <2>5, <2>7 DEF uploadFile
  <2>8. CASE fileContentRq(s)
    BY <2>3, <2>4, <2>6, <2>8 DEF fileContentRq
  <2>9. CASE continueUpload(s)
    BY <2>3, <2>4, <2>5, <2>9 DEF continueUpload
  <2>. QED  BY <1>3, <2>7, <2>8, <2>9
<1>4. ASSUME NEW s \in Slots, SendData(s) \/ CallFails(s) \/ lost(s) PROVE OpenInv'
  BY <1>1, <1>2, <1>4, CallFailsDoes, LostDoes, SendDataDoes
<1>5. ASSUME NEW k \in Transfers, Client(k) \/ disconnect(k) PROVE OpenInv'
  BY <1>1, <1>2, <1>5, SendUploadDoes, SendBlockDoes, SendContinueDoes, DisconnectDoes DEF Client
<1>6. CASE crash
  BY <1>1, <1>6, CrashDoes, KeysAre DEF OpenInv, Held
<1>7. CASE UNCHANGED vars
  BY <1>2, <1>7 DEF vars, memory, SameMemory
<1>. QED  BY <1>3, <1>4, <1>5, <1>6, <1>7 DEF Next, Handler

(* Faults are never forgotten.                                              *)
LEMMA FaultsGrow ==
  ASSUME BaseInv, [Next]_vars
  PROVE  faults.seen \subseteq faults'.seen
<1>1. StateOK
  BY DEF BaseInv
<1>2. ASSUME UNCHANGED faults \/ \E kind : Fault(kind) PROVE faults.seen \subseteq faults'.seen
  BY <1>1, <1>2, FaultDoes
<1>3. ASSUME NEW s \in Slots, uploadFile(s) \/ fileContentRq(s) \/ continueUpload(s)
      PROVE  UNCHANGED faults \/ \E kind : Fault(kind)
  BY <1>3, HandlerMoves
<1>4. ASSUME NEW s \in Slots, SendData(s) \/ CallFails(s) \/ lost(s)
      PROVE  UNCHANGED faults \/ \E kind : Fault(kind)
  BY <1>1, <1>4, CallFailsDoes, LostDoes, SendDataDoes
<1>5. ASSUME NEW k \in Transfers, Client(k) \/ disconnect(k)
      PROVE  UNCHANGED faults \/ \E kind : Fault(kind)
  BY <1>1, <1>5, SendUploadDoes, SendBlockDoes, SendContinueDoes, DisconnectDoes DEF Client
<1>6. ASSUME crash PROVE \E kind : Fault(kind)
  BY <1>1, <1>6, CrashDoes
<1>7. ASSUME UNCHANGED vars PROVE UNCHANGED faults
  BY <1>7 DEF vars
<1>. QED  BY <1>2, <1>3, <1>4, <1>5, <1>6, <1>7 DEF Next, Handler

(* Without a reconnect a transfer has one handler at a time.                *)
LEMMA OneHandler ==
  ASSUME BaseInv, RequestInv, SingleInv, Steady, NEW s \in Slots, NEW t \in Slots, run[s] # Idle, run[t] # Idle,
         run[s].k = run[t].k
  PROVE  s = t
<1>1. run[s].k \in Transfers
  BY AHandlerRuns DEF BaseInv
<1>2. run[s].epoch = run[t].epoch
  BY DEF SingleInv, Single
<1>. QED  BY <1>1, <1>2 DEF RequestInv, Busy

LEMMA SingleInvInit == Init => SingleInv
BY DEF Init, SingleInv

LEMMA SingleMoves ==
  ASSUME BaseInv, OwnInv, RequestInv, SingleInv, Separate, Steady, NEW s \in Slots, run[s] # Idle, OthersRun(s), UNCHANGED client,
         run'[s] = Idle \/ SameRequest(s),
         \A o \in 1..Len(info) : run[s].obj # o => info'[o].alive = info[o].alive,
         run'[s] # Idle /\ run'[s].step \in UsingSteps => info'[run'[s].obj].alive
  PROVE  SingleInv'
<1>1. ASSUME NEW t \in Slots, run'[t] # Idle PROVE Single(t)'
  <2>1. CASE t = s
    <3>1. run'[s].epoch = run[s].epoch /\ run'[s].k = run[s].k /\ run[s].epoch = client[run[s].k].epoch
      BY <1>1, <2>1 DEF SameRequest, SingleInv, Single
    <3>. QED  BY <1>1, <2>1, <3>1 DEF Single
  <2>2. CASE t # s
    <3>1. run'[t] = run[t] /\ run[t] # Idle /\ Single(t)
      BY <1>1, <2>2 DEF OthersRun, SingleInv
    <3>2. ASSUME run[t].step \in UsingSteps PROVE info'[run[t].obj].alive
      <4>1. run[t].obj # 0
        BY <3>1, <3>2, AHandlerRuns DEF BaseInv, HandlerOK, UsingSteps, Steps, Handlers
      <4>2. run[t].obj \in 1..Len(info)
        BY <3>1, <4>1, ObjIsThere
      <4>3. run[s].obj # run[t].obj
        <5>1. run[s].k # run[t].k
          BY <2>2, <3>1, OneHandler
        <5>. QED  BY <3>1, <4>1, <5>1, HandlersDiffer
      <4>. QED  BY <3>1, <3>2, <4>2, <4>3 DEF Single
    <3>. QED  BY <3>1, <3>2 DEF Single
  <2>. QED  BY <2>1, <2>2
<1>. QED  BY <1>1 DEF SingleInv

LEMMA SingleInvStep ==
  Separate /\ BaseInv /\ RequestInv /\ OwnInv /\ OpenInv /\ SingleInv /\ [Next]_vars => SingleInv'
<1>. SUFFICES ASSUME Separate, BaseInv, RequestInv, OwnInv, OpenInv, SingleInv, [Next]_vars, Steady' PROVE SingleInv'
  BY DEF SingleInv
<1>1. StateOK
  BY DEF BaseInv
<1>2. Steady
  BY FaultsGrow DEF Steady
<1>3. ASSUME SameMemory, UNCHANGED client, \A t \in Slots : run'[t] = run[t] \/ run'[t] = Idle PROVE SingleInv'
  BY <1>2, <1>3 DEF SingleInv, Single, SameMemory
<1>4. ASSUME NEW s \in Slots, uploadFile(s) \/ fileContentRq(s) \/ continueUpload(s) PROVE SingleInv'
  <2>1. run[s] # Idle /\ OthersRun(s) /\ UNCHANGED client /\ (run'[s] = Idle \/ SameRequest(s))
    BY <1>4, HandlerMoves
  <2>2. run[s].step \in UsingSteps => info[run[s].obj].alive
    BY <1>2, <2>1 DEF SingleInv, Single
  <2>. HIDE DEF UsingSteps
  <2>3. ASSUME UNCHANGED info, run'[s].obj = run[s].obj, run[s].step \in UsingSteps PROVE SingleInv'
    BY <1>2, <2>1, <2>2, <2>3, SingleMoves
  <2>4. ASSUME \A o \in 1..Len(info) : info'[o].alive = info[o].alive, run'[s].step \notin UsingSteps PROVE SingleInv'
    BY <1>2, <2>1, <2>4, SingleMoves
  <2>5. ASSUME run[s].obj \in 1..Len(info), Changed(run[s].obj), info'[run[s].obj].alive = info[run[s].obj].alive
        PROVE  \A o \in 1..Len(info) : info'[o].alive = info[o].alive
    BY <2>5 DEF Changed
  <2>6. ASSUME uploadFile_quick(s) \/ uploadFile_quickInsert(s) \/ uploadFile_insertFile(s) \/ uploadFile_insertRel(s)
        PROVE  SingleInv'
    <3>1. SameMemory /\ run'[s].step \in {"open", "quick", "replyQuick", "selectId", "reply"}
      BY <1>1, <2>6, QuickDoes, QuickInsertDoes, InsertFileDoes, InsertRelDoes DEF GoesOn
    <3>. QED  BY <2>4, <3>1 DEF SameMemory, UsingSteps
  <2>7. ASSUME uploadFile_selectId(s) \/ continueUpload_seek(s) PROVE SingleInv'
    <3>1. /\ run[s].obj \in 1..Len(info) /\ Changed(run[s].obj) /\ info'[run[s].obj].alive = info[run[s].obj].alive
          /\ run'[s].step \in {"insertRel", "reply"}
      BY <2>7, SelectIdDoes, SeekDoes DEF GoesOn
    <3>. QED  BY <2>4, <2>5, <3>1 DEF UsingSteps
  <2>8. ASSUME uploadFile_open(s) PROVE SingleInv'
    <3>1. PICK p, fid : Opened(run[s].k, p, fid)
      BY <1>1, <2>8, OpenDoes
    <3>2. run'[s].step = "insertFile"
      BY <1>1, <2>8, OpenDoes DEF GoesOn
    <3>. QED  BY <2>4, <3>1, <3>2 DEF Opened, UsingSteps
  <2>9. ASSUME fileContentRq_find(s) PROVE SingleInv'
    <3>1. SameMemory /\ run[s].k \in Transfers
      BY <1>1, <2>1, <2>9, FindDoes, AHandlerRuns
    <3>2. run'[s] # Idle => run'[s].obj = Held(run[s].k) /\ Held(run[s].k) # 0
      BY <1>1, <2>9, FindDoes DEF Ends, StateOK
    <3>3. run'[s] # Idle => info'[run'[s].obj].alive
      BY <3>1, <3>2 DEF OpenInv, SameMemory
    <3>. QED  BY <1>2, <2>1, <3>1, <3>3, SingleMoves DEF SameMemory
  <2>10. ASSUME fileContentRq_write(s) \/ fileContentRq_failed(s) \/ fileContentRq_advance(s) PROVE SingleInv'
    <3>1. run[s].step \in UsingSteps /\ run'[s].obj = run[s].obj
      BY <2>10, WriteDoes, FailedDoes, AdvanceDoes DEF Runs, UsingSteps
    <3>2. UNCHANGED info \/ (run[s].obj \in 1..Len(info) /\ Changed(run[s].obj) /\ info'[run[s].obj].alive = info[run[s].obj].alive)
      BY <2>10, WriteDoes, FailedDoes, AdvanceDoes
    <3>. QED  BY <1>2, <2>1, <2>2, <2>3, <2>5, <3>1, <3>2, SingleMoves
  <2>11. ASSUME fileContentRq_read(s) \/ fileContentRq_update(s) PROVE SingleInv'
    <3>1. run[s].step \in UsingSteps /\ run'[s].obj = run[s].obj /\ UNCHANGED info
      BY <2>11, ReadDoes, UpdateDoes DEF Runs, UsingSteps, SameMemory
    <3>. QED  BY <2>3, <3>1
  <2>12. ASSUME fileContentRq_close(s) PROVE SingleInv'
    <3>1. run[s].obj \in 1..Len(info) /\ Changed(run[s].obj) /\ run'[s].step = "reply"
      BY <2>12, CloseDoes DEF GoesOn
    <3>2. \A o \in 1..Len(info) : run[s].obj # o => info'[o].alive = info[o].alive
      BY <3>1 DEF Changed
    <3>. QED  BY <1>2, <2>1, <3>1, <3>2, SingleMoves DEF UsingSteps
  <2>13. ASSUME continueUpload_find(s) \/ continueUpload_select(s) PROVE SingleInv'
    <3>1. SameMemory /\ run[s].k \in Transfers
      BY <1>1, <2>1, <2>13, ContinueFindDoes, ContinueSelectDoes, AHandlerRuns
    <3>2. m_mapTimstampToFileinfo[timestamp[run[s].k]] = 0
      BY <3>1 DEF OwnInv
    <3>3. run'[s] = Idle \/ run'[s].step \in {"select", "reopen"}
      BY <1>1, <2>13, <3>2, ContinueFindDoes, ContinueSelectDoes DEF GoesOn, Ends
    <3>. QED  BY <1>2, <2>1, <3>1, <3>3, SingleMoves DEF SameMemory, UsingSteps
  <2>14. ASSUME continueUpload_open(s) PROVE SingleInv'
    <3>1. Opened(run[s].k, path(run[s].k), run[s].fid) /\ run'[s].obj = Len(info) + 1
      BY <2>14, ReopenDoes
    <3>2. info'[run'[s].obj].alive
      BY <3>1 DEF Opened, FileInfo
    <3>. QED  BY <1>2, <2>1, <3>1, <3>2, SingleMoves DEF Opened
  <2>15. CASE uploadFile(s)
    BY <2>6, <2>7, <2>8, <2>15 DEF uploadFile
  <2>16. CASE fileContentRq(s)
    BY <2>9, <2>10, <2>11, <2>12, <2>16 DEF fileContentRq
  <2>17. CASE continueUpload(s)
    BY <2>7, <2>13, <2>14, <2>17 DEF continueUpload
  <2>. QED  BY <1>4, <2>15, <2>16, <2>17
<1>5. ASSUME NEW s \in Slots, CallFails(s) \/ lost(s) PROVE SingleInv'
  BY <1>1, <1>3, <1>5, CallFailsDoes, LostDoes DEF Ends, OthersRun
<1>6. ASSUME NEW s \in Slots, SendData(s) PROVE SingleInv'
  <2>1. run[s] # Idle /\ Ends(s) /\ SameMemory /\ \A k \in Transfers : client'[k].epoch = client[k].epoch
    <3>1. \/ UNCHANGED client
          \/ OthersClients(run[s].k) /\ AnswerTo(run[s].k, s)
      BY <1>6, SendDataDoes
    <3>2. \A k \in Transfers : client'[k].epoch = client[k].epoch
      BY <3>1 DEF OthersClients, AnswerTo
    <3>. QED  BY <1>6, <3>2, SendDataDoes
  <2>2. ASSUME NEW t \in Slots, run'[t] # Idle PROVE Single(t)'
    <3>1. run'[t] = run[t] /\ run[t].k \in Transfers /\ Single(t)
      BY <1>1, <1>2, <2>1, <2>2, AHandlerRuns DEF Ends, OthersRun, SingleInv
    <3>. QED  BY <2>1, <3>1 DEF Single, SameMemory
  <2>. QED  BY <2>2 DEF SingleInv
<1>7. ASSUME NEW k \in Transfers, Client(k) PROVE SingleInv'
  <2>1. SameMemory /\ \A l \in Transfers : client'[l].epoch = client[l].epoch
    BY <1>1, <1>7, SendUploadDoes, SendBlockDoes, SendContinueDoes DEF Client, Becomes, OthersClients
  <2>2. PICK s \in Slots : run'[s].k = k /\ run'[s].epoch = client[k].epoch /\ run'[s].step = "start" /\ OthersRun(s)
    BY <1>1, <1>7, SendUploadDoes, SendBlockDoes, SendContinueDoes DEF Client, Asks
  <2>3. ASSUME NEW t \in Slots, run'[t] # Idle PROVE Single(t)'
    <3>1. CASE t = s
      BY <2>1, <2>2, <3>1 DEF Single, UsingSteps
    <3>2. CASE t # s
      <4>1. run'[t] = run[t] /\ run[t].k \in Transfers /\ Single(t)
        BY <1>1, <1>2, <2>2, <2>3, <3>2, AHandlerRuns DEF OthersRun, SingleInv
      <4>. QED  BY <2>1, <4>1 DEF Single, SameMemory
    <3>. QED  BY <3>1, <3>2
  <2>. QED  BY <2>3 DEF SingleInv
<1>8. ASSUME NEW k \in Transfers, disconnect(k) PROVE FALSE
  BY <1>1, <1>8, DisconnectDoes, FaultDoes DEF Steady
<1>9. CASE crash
  BY <1>1, <1>9, CrashDoes DEF SingleInv
<1>10. CASE UNCHANGED vars
  BY <1>3, <1>10 DEF vars, memory, SameMemory
<1>. QED  BY <1>4, <1>5, <1>6, <1>7, <1>8, <1>9, <1>10 DEF Next, Handler

-----------------------------------------------------------------------------
(* OffsetInv.                                                               *)
LEMMA CoversLess ==
  ASSUME NEW S, NEW T \in SUBSET S, IsFiniteSet(S), NEW n \in Int, NEW m \in Int, Cardinality(S) <= n, n <= m
  PROVE  IsFiniteSet(T) /\ Cardinality(T) <= m
<1>1. IsFiniteSet(T) /\ Cardinality(T) <= Cardinality(S)
  BY FS_Subset
<1>2. Cardinality(S) \in Nat /\ Cardinality(T) \in Nat
  BY <1>1, FS_CardinalityType
<1>. QED  BY <1>1, <1>2

LEMMA CoversKept ==
  ASSUME NEW o, IsFiniteSet(Owed(o)), Owed(o)' \in SUBSET Owed(o), NEW n \in Int, NEW m \in Int,
         Cardinality(Owed(o)) <= n, n <= m
  PROVE  IsFiniteSet(Owed(o)') /\ Cardinality(Owed(o)') <= m
BY CoversLess

(* What one writer owes.                                                    *)
LEMMA OwesOne ==
  ASSUME NEW s, NEW n \in Nat
  PROVE  IsFiniteSet({s} \X (1..n)) /\ Cardinality({s} \X (1..n)) = n
<1>1. IsFiniteSet({s}) /\ Cardinality({s}) = 1
  BY FS_Singleton
<1>2. IsFiniteSet(1..n) /\ Cardinality(1..n) = n
  BY FS_Interval
<1>3. Cardinality({s} \X (1..n)) = Cardinality({s}) * Cardinality(1..n) /\ IsFiniteSet({s} \X (1..n))
  BY <1>1, <1>2, FS_Product
<1>. QED  BY <1>1, <1>2, <1>3

LEMMA OwesMore ==
  ASSUME NEW S, IsFiniteSet(S), NEW s, NEW n \in Nat, NEW T \in SUBSET (S \cup ({s} \X (1..n))),
         NEW m \in Int, Cardinality(S) <= m
  PROVE  IsFiniteSet(T) /\ Cardinality(T) <= m + n
<1>. DEFINE U == {s} \X (1..n)
<1>1. IsFiniteSet(U) /\ Cardinality(U) = n
  BY OwesOne
<1>. HIDE DEF U
<1>2. IsFiniteSet(S \cup U) /\ Cardinality(S \cup U) = Cardinality(S) + Cardinality(U) - Cardinality(S \cap U)
  BY <1>1, FS_Union
<1>3. S \cap U \in SUBSET S
  OBVIOUS
<1>4. IsFiniteSet(S \cap U)
  BY <1>3, FS_Subset
<1>5. Cardinality(S) \in Nat /\ Cardinality(S \cap U) \in Nat
  BY <1>4, FS_CardinalityType
<1>6. PICK c \in Int : c = m + n
  OBVIOUS
<1>7. Cardinality(S \cup U) <= c /\ c <= c
  BY <1>1, <1>2, <1>5, <1>6
<1>8. T \in SUBSET (S \cup U)
  BY DEF U
<1>9. IsFiniteSet(T) /\ Cardinality(T) <= c
  BY <1>2, <1>7, <1>8, CoversLess
<1>. QED  BY <1>6, <1>9

LEMMA OwesLess ==
  ASSUME NEW S, IsFiniteSet(S), NEW s, NEW n \in Nat, {s} \X (1..n) \subseteq S,
         NEW T \in SUBSET (S \ ({s} \X (1..n))), NEW m \in Int, Cardinality(S) <= m
  PROVE  IsFiniteSet(T) /\ Cardinality(T) <= m - n
<1>. DEFINE U == {s} \X (1..n)
<1>1. IsFiniteSet(U) /\ Cardinality(U) = n
  BY OwesOne
<1>2. U \subseteq S /\ T \in SUBSET (S \ U)
  OBVIOUS
<1>. HIDE DEF U
<1>3. S \cap U = U
  BY <1>2
<1>4. IsFiniteSet(S \ U) /\ Cardinality(S \ U) = Cardinality(S) - n
  BY <1>1, <1>3, FS_Difference
<1>5. Cardinality(S) \in Nat
  BY FS_CardinalityType
<1>6. Cardinality(S \ U) <= m - n /\ m - n \in Int
  BY <1>4, <1>5
<1>. QED  BY <1>2, <1>4, <1>6, CoversLess

LEMMA OwedStays ==
  ASSUME \A t \in Slots : run'[t] = run[t] \/ run'[t] = Idle \/ run'[t].step # "failed", NEW o
  PROVE  Owed(o)' \subseteq Owed(o)
BY DEF Owed

LEMMA OffsetKept ==
  ASSUME StateOK, StateOK', OffsetInv,
         \A o \in 1..Len(info) : Owed(o)' \subseteq Owed(o),
         \A o \in 1..Len(info') : (o \in 1..Len(info) /\ info[o].off <= info'[o].off) \/ Covers(info[o].off, o)',
         \A t \in Slots : Seeks(t)' =>
           \/ /\ run[t] # Idle /\ run'[t] = run[t] /\ run[t].obj \in 1..Len(info) /\ run[t].k \in Transfers
              /\ Len(disk[path(run[t].k)]) <= Len(disk'[path(run[t].k)])
           \/ Covers(Len(disk[path(run[t].k)]), run[t].obj)'
  PROVE  OffsetInv'
<1>1. ASSUME NEW o \in 1..Len(info') PROVE Covers(info[o].off, o)'
  <2>1. CASE o \in 1..Len(info) /\ info[o].off <= info'[o].off
    <3>1. info[o].off \in Int /\ info'[o].off \in Int
      <4>1. info'[o] \in Session
        BY DEF StateOK
      <4>. QED  BY <2>1, <4>1, SessionIsThere DEF Session
    <3>2. IsFiniteSet(Owed(o)) /\ Cardinality(Owed(o)) <= info[o].off
      BY <2>1 DEF OffsetInv, Covers
    <3>. QED  BY <2>1, <3>1, <3>2, CoversLess DEF Covers
  <2>. QED  BY <2>1
<1>2. ASSUME NEW t \in Slots, Seeks(t)' PROVE Covers(Len(disk[path(run[t].k)]), run[t].obj)'
  <2>1. CASE /\ run[t] # Idle /\ run'[t] = run[t] /\ run[t].obj \in 1..Len(info) /\ run[t].k \in Transfers
             /\ Len(disk[path(run[t].k)]) <= Len(disk'[path(run[t].k)])
    <3>. PICK k \in Transfers, o \in 1..Len(info) : k = run[t].k /\ o = run[t].obj
      BY <2>1
    <3>1. run'[t].k = k /\ run'[t].obj = o /\ Seeks(t)
      BY <1>2, <2>1 DEF Seeks
    <3>2. path(k) \in Paths
      BY PathsAre
    <3>3. Len(disk[path(k)]) \in Int /\ Len(disk'[path(k)]) \in Int
      BY <3>2 DEF StateOK
    <3>4. IsFiniteSet(Owed(o)) /\ Cardinality(Owed(o)) <= Len(disk[path(k)])
      BY <3>1 DEF OffsetInv, Covers
    <3>5. IsFiniteSet(Owed(o)') /\ Cardinality(Owed(o)') <= Len(disk'[path(k)])
      BY <2>1, <3>3, <3>4, CoversLess
    <3>6. Covers(Len(disk[path(k)]), o)'
      BY <3>5 DEF Covers, path
    <3>. QED  BY <3>1, <3>6 DEF Covers, path, Owed
  <2>. QED  BY <1>2, <2>1
<1>. QED  BY <1>1, <1>2 DEF OffsetInv

(* Steps after which nobody owes more, and no file and no offset is less.   *)
LEMMA OffsetStays ==
  ASSUME BaseInv, StateOK', OffsetInv,
         \A t \in Slots : run'[t] = run[t] \/ run'[t] = Idle \/ run'[t].step \notin {"failed", "seek"},
         Len(info') = Len(info), \A o \in 1..Len(info) : info'[o].off = info[o].off,
         \A k \in Transfers : (\E t \in Slots : run[t] # Idle /\ run[t].k = k /\ run[t].step = "seek") =>
            Len(disk[path(k)]) <= Len(disk'[path(k)])
  PROVE  OffsetInv'
<1>1. StateOK
  BY DEF BaseInv
<1>2. \A o \in 1..Len(info) : Owed(o)' \subseteq Owed(o)
  BY OwedStays
<1>3. \A o \in 1..Len(info') : o \in 1..Len(info) /\ info[o].off <= info'[o].off
  BY <1>1, SessionIsThere
<1>4. ASSUME NEW t \in Slots, Seeks(t)'
      PROVE  /\ run[t] # Idle /\ run'[t] = run[t] /\ run[t].obj \in 1..Len(info) /\ run[t].k \in Transfers
             /\ Len(disk[path(run[t].k)]) <= Len(disk'[path(run[t].k)])
  <2>1. run[t] # Idle /\ run'[t] = run[t] /\ run[t].step = "seek"
    BY <1>4 DEF Seeks
  <2>2. HandlerOK(t) /\ run[t].fn \in Handlers /\ run[t].k \in Transfers
    BY <1>1, <2>1, AHandlerRuns DEF BaseInv
  <2>3. run[t].obj \in 1..Len(info)
    BY <1>1, <2>1, <2>2 DEF HandlerOK, Steps, Handlers, StateOK
  <2>. QED  BY <2>1, <2>2, <2>3
<1>. QED  BY <1>1, <1>2, <1>3, <1>4, OffsetKept

LEMMA SameLengths ==
  ASSUME StateOK, UNCHANGED disk, NEW k \in Transfers
  PROVE  Len(disk[path(k)]) <= Len(disk'[path(k)])
BY PathsAre DEF StateOK

LEMMA SeekersAre ==
  ASSUME BaseInv, NEW t \in Slots, run[t] # Idle, run[t].step = "seek"
  PROVE  run[t].fn = "continueUpload" /\ run[t].obj \in 1..Len(info) /\ run[t].obj # 0 /\ run[t].k \in Transfers
<1>1. HandlerOK(t) /\ run[t].fn \in Handlers /\ run[t].k \in Transfers /\ StateOK
  BY AHandlerRuns DEF BaseInv
<1>. QED  BY <1>1 DEF HandlerOK, Steps, Handlers, StateOK

LEMMA OffsetOpen ==
  ASSUME BaseInv, RequestInv, BaseInv', OwnInv, Separate, OffsetInv, NEW s \in Slots, uploadFile_open(s)
  PROVE  OffsetInv'
<1>1. StateOK /\ StateOK'
  BY DEF BaseInv
<1>2. /\ Runs(s, "uploadFile", "open") /\ disk' = [disk EXCEPT ![path(run[s].k)] = <<>>]
      /\ Opened(run[s].k, path(run[s].k), 0) /\ OthersRun(s) /\ run'[s].step = "insertFile"
  BY <1>1, OpenDoes DEF GoesOn
<1>. PICK k \in Transfers : k = run[s].k
  BY <1>2 DEF Runs, Handling
<1>3. \A t \in Slots : run'[t] = run[t] \/ run'[t] = Idle \/ run'[t].step # "failed"
  BY <1>2 DEF OthersRun
<1>4. \A o \in 1..Len(info) : Owed(o)' \subseteq Owed(o)
  BY <1>3, OwedStays
<1>. PICK new \in Nat : new = Len(info) + 1
  BY <1>1 DEF StateOK
<1>5. Owed(new)' = {}
  <2>1. ASSUME NEW t \in Slots, run'[t] # Idle, run'[t].step = "failed" PROVE run'[t].obj # new
    <3>1. run'[t] = run[t]
      BY <1>3, <2>1
    <3>2. run[t].obj \in 0..Len(info) /\ Len(info) \in Nat
      BY <1>1, <2>1, <3>1 DEF BaseInv, HandlerOK, StateOK
    <3>. QED  BY <3>1, <3>2
  <2>. QED  BY <2>1 DEF Owed
<1>6. ASSUME NEW o \in 1..Len(info')
      PROVE  (o \in 1..Len(info) /\ info[o].off <= info'[o].off) \/ Covers(info[o].off, o)'
  <2>1. CASE o \in 1..Len(info)
    BY <1>1, <1>2, <2>1, SessionIsThere DEF Opened
  <2>2. CASE o = Len(info) + 1
    <3>1. info'[o].off = 0 /\ Owed(o)' = {}
      BY <1>2, <1>5, <2>2 DEF Opened, FileInfo
    <3>. QED  BY <3>1, FS_EmptySet DEF Covers
  <2>3. o \in 1..(Len(info) + 1) /\ Len(info) \in Nat
    BY <1>1, <1>2 DEF Opened, StateOK
  <2>. QED  BY <2>1, <2>2, <2>3
<1>7. ASSUME NEW t \in Slots, Seeks(t)'
      PROVE  /\ run[t] # Idle /\ run'[t] = run[t] /\ run[t].obj \in 1..Len(info) /\ run[t].k \in Transfers
             /\ Len(disk[path(run[t].k)]) <= Len(disk'[path(run[t].k)])
  <2>1. t # s /\ run'[t] = run[t] /\ run[t] # Idle /\ run[t].step = "seek"
    BY <1>2, <1>7 DEF OthersRun, Seeks
  <2>2. run[t].fn = "continueUpload" /\ run[t].obj \in 1..Len(info) /\ run[t].k \in Transfers
    BY <2>1, SeekersAre
  <2>3. run[t].k # k
    <3>1. ASSUME run[t].k = k PROVE FALSE
      <4>1. Busy(s, k) /\ Busy(t, k) /\ Asking(s) /\ ~Asking(t)
        BY <1>2, <2>1, <2>2, <3>1, HandlingIsNotIdle DEF Busy, Asking, Runs
      <4>2. RequestOK(s, k) /\ RequestOK(t, k) /\ ClientOK(k)
        BY <4>1 DEF RequestInv, BaseInv
      <4>. QED  BY <4>1, <4>2 DEF RequestOK, ClientOK
    <3>. QED  BY <3>1
  <2>4. path(run[t].k) # path(k) /\ path(run[t].k) \in Paths
    BY <2>2, <2>3, PathsAre DEF Separate, SeparatePaths
  <2>5. disk'[path(run[t].k)] = disk[path(run[t].k)] /\ Len(disk[path(run[t].k)]) \in Nat
    BY <1>1, <1>2, <2>4 DEF StateOK
  <2>. QED  BY <2>1, <2>2, <2>5
<1>. QED  BY <1>1, <1>4, <1>6, <1>7, OffsetKept

LEMMA OffsetReopen ==
  ASSUME BaseInv, BaseInv', OffsetInv, NEW s \in Slots, continueUpload_open(s)
  PROVE  OffsetInv'
<1>1. StateOK /\ StateOK'
  BY DEF BaseInv
<1>2. /\ Runs(s, "continueUpload", "reopen") /\ UNCHANGED disk /\ run'[s].obj = Len(info) + 1
      /\ Opened(run[s].k, path(run[s].k), run[s].fid) /\ OthersRun(s) /\ run'[s].step = "seek" /\ run'[s].k = run[s].k
  BY ReopenDoes DEF GoesOn
<1>. PICK k \in Transfers : k = run[s].k
  BY <1>2 DEF Runs, Handling
<1>3. \A t \in Slots : run'[t] = run[t] \/ run'[t] = Idle \/ run'[t].step # "failed"
  BY <1>2 DEF OthersRun
<1>4. \A o \in 1..Len(info) : Owed(o)' \subseteq Owed(o)
  BY <1>3, OwedStays
<1>. PICK new \in Nat : new = Len(info) + 1
  BY <1>1 DEF StateOK
<1>5. Owed(new)' = {}
  <2>1. ASSUME NEW t \in Slots, run'[t] # Idle, run'[t].step = "failed" PROVE run'[t].obj # new
    <3>1. run'[t] = run[t]
      BY <1>3, <2>1
    <3>2. run[t].obj \in 0..Len(info) /\ Len(info) \in Nat
      BY <1>1, <2>1, <3>1 DEF BaseInv, HandlerOK, StateOK
    <3>. QED  BY <3>1, <3>2
  <2>. QED  BY <2>1 DEF Owed
<1>6. ASSUME NEW o \in 1..Len(info')
      PROVE  (o \in 1..Len(info) /\ info[o].off <= info'[o].off) \/ Covers(info[o].off, o)'
  <2>1. CASE o \in 1..Len(info)
    BY <1>1, <1>2, <2>1, SessionIsThere DEF Opened
  <2>2. CASE o = Len(info) + 1
    <3>1. info'[o].off = 0 /\ Owed(o)' = {}
      BY <1>2, <1>5, <2>2 DEF Opened, FileInfo
    <3>. QED  BY <3>1, FS_EmptySet DEF Covers
  <2>3. o \in 1..(Len(info) + 1) /\ Len(info) \in Nat
    BY <1>1, <1>2 DEF Opened, StateOK
  <2>. QED  BY <2>1, <2>2, <2>3
<1>7. Covers(Len(disk[path(run[s].k)]), run[s].obj)'
  <2>1. Len(disk'[path(k)]) \in Nat
    BY <1>1, PathsAre DEF StateOK
  <2>2. 0 <= Len(disk'[path(k)]) /\ Owed(new)' = {} /\ run'[s].obj = new /\ run'[s].k = k
    BY <1>2, <1>5, <2>1
  <2>3. Covers(Len(disk[path(k)]), new)'
    BY <2>2, FS_EmptySet DEF Covers, path
  <2>. QED  BY <2>2, <2>3 DEF Covers, path, Owed
<1>8. ASSUME NEW t \in Slots, Seeks(t)', t # s
      PROVE  /\ run[t] # Idle /\ run'[t] = run[t] /\ run[t].obj \in 1..Len(info) /\ run[t].k \in Transfers
             /\ Len(disk[path(run[t].k)]) <= Len(disk'[path(run[t].k)])
  <2>1. run'[t] = run[t] /\ run[t] # Idle /\ run[t].step = "seek"
    BY <1>2, <1>8 DEF OthersRun, Seeks
  <2>2. run[t].obj \in 1..Len(info) /\ run[t].k \in Transfers
    BY <2>1, SeekersAre
  <2>. QED  BY <1>1, <1>2, <2>1, <2>2, SameLengths
<1>. QED  BY <1>1, <1>4, <1>6, <1>7, <1>8, OffsetKept

LEMMA OffsetWrite ==
  ASSUME BaseInv, BaseInv', OwnInv, OffsetInv, NEW s \in Slots, fileContentRq_write(s)
  PROVE  OffsetInv'
<1>1. StateOK /\ StateOK'
  BY DEF BaseInv
<1>2. /\ Runs(s, "fileContentRq", "write") /\ run[s].obj \in 1..Len(info) /\ run'[s].obj = run[s].obj
      /\ len(s) \in Nat \ {0}
  BY WriteDoes
<1>3. run[s] # Idle /\ run[s].lo \in Nat /\ run[s].k \in Transfers
  BY <1>1, <1>2, HandlingIsNotIdle, AHandlerRuns DEF Runs
<1>. PICK o \in 1..Len(info) : o = run[s].obj
  BY <1>2
<1>4. CASE UNCHANGED <<disk, info>> /\ GoesOn(s, "failed") /\ run'[s].n = -1
  <2>1. \A j \in 1..Len(info) : Owed(j)' \subseteq Owed(j)
    <3>1. 1..run'[s].n = {}
      BY <1>4
    <3>2. \A t \in Slots \ {s} : run'[t] = run[t]
      BY <1>4 DEF GoesOn, OthersRun
    <3>. QED  BY <3>1, <3>2 DEF Owed
  <2>2. \A j \in 1..Len(info') : j \in 1..Len(info) /\ info[j].off <= info'[j].off
    BY <1>1, <1>4, SessionIsThere
  <2>3. ASSUME NEW t \in Slots, Seeks(t)'
        PROVE  /\ run[t] # Idle /\ run'[t] = run[t] /\ run[t].obj \in 1..Len(info) /\ run[t].k \in Transfers
               /\ Len(disk[path(run[t].k)]) <= Len(disk'[path(run[t].k)])
    <3>1. run'[t] = run[t] /\ run[t] # Idle /\ run[t].step = "seek"
      BY <1>4, <2>3 DEF OthersRun, Seeks, GoesOn
    <3>2. run[t].obj \in 1..Len(info) /\ run[t].k \in Transfers
      BY <3>1, SeekersAre
    <3>. QED  BY <1>1, <1>4, <3>1, <3>2, SameLengths
  <2>. QED  BY <1>1, <2>1, <2>2, <2>3, OffsetKept
<1>5. CASE /\ run'[s].n \in 1..len(s)
           /\ Stores(info[run[s].obj].path, info[run[s].obj].off, run[s].k, run[s].lo, run'[s].n)
           /\ Changed(run[s].obj) /\ info'[run[s].obj].off = info[run[s].obj].off + run'[s].n
           /\ GoesOn(s, "written") \/ GoesOn(s, "failed")
  <2>. PICK n \in Nat, p \in Paths, off \in Int : n = run'[s].n /\ p = info[o].path /\ off = info[o].off
    BY <1>1, <1>2, <1>5, SessionIsThere
  <2>1. /\ Changed(o) /\ info'[o].off = off + n /\ Len(info') = Len(info)
        /\ \A j \in 1..Len(info) : j # o => info'[j] = info[j]
    BY <1>5 DEF Changed
  <2>2. /\ \A q \in Paths : q # p => disk'[q] = disk[q]
        /\ Len(disk'[p]) = Longer(Len(disk[p]), off + n) /\ Len(disk[p]) \in Nat
    BY <1>1, <1>5 DEF Stores, StateOK
  <2>3. off + n \in Int /\ Len(disk[p]) <= Len(disk'[p]) /\ off + n <= Len(disk'[p]) /\ Len(disk'[p]) \in Int
    BY <2>2 DEF Longer
  <2>4. \A t \in Slots \ {s} : run'[t] = run[t]
    BY <1>5 DEF GoesOn, OthersRun
  <2>5. ASSUME NEW j \in 1..Len(info), j # o PROVE Owed(j)' \subseteq Owed(j)
    <3>1. run'[s].obj # j
      BY <1>2, <2>5
    <3>. QED  BY <2>4, <3>1 DEF Owed
  <2>6. Owed(o)' \subseteq Owed(o) \cup ({s} \X (1..n))
    BY <2>4 DEF Owed
  <2>7. IsFiniteSet(Owed(o)) /\ Cardinality(Owed(o)) <= off
    BY DEF OffsetInv, Covers
  <2>8. IsFiniteSet(Owed(o)') /\ Cardinality(Owed(o)') <= off + n
    BY <2>6, <2>7, OwesMore
  <2>9. ASSUME NEW j \in 1..Len(info') PROVE Covers(info[j].off, j)'
    <3>1. CASE j = o
      BY <2>1, <2>8, <3>1 DEF Covers
    <3>2. CASE j # o
      <4>1. info'[j].off = info[j].off /\ info[j].off \in Int /\ j \in 1..Len(info)
        BY <1>1, <2>1, <3>2, SessionIsThere
      <4>2. IsFiniteSet(Owed(j)) /\ Cardinality(Owed(j)) <= info[j].off
        BY <4>1 DEF OffsetInv, Covers
      <4>3. IsFiniteSet(Owed(j)') /\ Cardinality(Owed(j)') <= info[j].off
        BY <2>5, <3>2, <4>1, <4>2, CoversLess
      <4>. QED  BY <4>1, <4>3 DEF Covers
    <3>. QED  BY <3>1, <3>2
  <2>10. ASSUME NEW t \in Slots, Seeks(t)' PROVE Covers(Len(disk[path(run[t].k)]), run[t].obj)'
    <3>1. run'[t] = run[t] /\ run[t] # Idle /\ run[t].step = "seek"
      BY <1>5, <2>10 DEF OthersRun, Seeks, GoesOn
    <3>2. run[t].obj \in 1..Len(info) /\ run[t].k \in Transfers /\ run[t].obj # 0
      BY <3>1, SeekersAre
    <3>. PICK j \in 1..Len(info), k \in Transfers : j = run[t].obj /\ k = run[t].k
      BY <3>2
    <3>3. IsFiniteSet(Owed(j)') /\ Cardinality(Owed(j)') <= Len(disk'[path(k)])
      <4>1. CASE j = o
        <5>1. path(k) = p
          BY <3>1, <3>2, <4>1 DEF OwnInv
        <5>2. PICK c \in Int : c = off + n
          BY <2>3
        <5>3. Cardinality(Owed(o)') <= c /\ c <= Len(disk'[p])
          BY <2>3, <2>8, <5>2
        <5>4. Owed(o)' \in SUBSET (Owed(o)')
          OBVIOUS
        <5>5. IsFiniteSet(Owed(o)') /\ Cardinality(Owed(o)') <= Len(disk'[p])
          BY <2>3, <2>8, <5>3, <5>4, CoversLess
        <5>. QED  BY <4>1, <5>1, <5>5
      <4>2. CASE j # o
        <5>1. IsFiniteSet(Owed(j)) /\ Cardinality(Owed(j)) <= Len(disk[path(k)])
          BY <3>1 DEF OffsetInv, Covers, Seeks
        <5>2. path(k) \in Paths
          BY PathsAre
        <5>3. Len(disk[path(k)]) \in Nat /\ Len(disk'[path(k)]) \in Nat
          BY <1>1, <5>2 DEF StateOK
        <5>4. Len(disk[path(k)]) <= Len(disk'[path(k)])
          <6>1. CASE path(k) = p
            BY <2>3, <6>1
          <6>2. CASE path(k) # p
            BY <2>2, <5>2, <5>3, <6>2
          <6>. QED  BY <6>1, <6>2
        <5>5. Owed(j)' \in SUBSET Owed(j)
          BY <2>5, <4>2
        <5>. QED  BY <5>1, <5>3, <5>4, <5>5, CoversKept
      <4>. QED  BY <4>1, <4>2
    <3>4. Covers(Len(disk[path(k)]), j)'
      BY <3>3 DEF Covers, path
    <3>5. run'[t].obj = j /\ run'[t].k = k
      BY <3>1
    <3>. QED  BY <3>4, <3>5 DEF Covers, path, Owed
  <2>. QED  BY <2>9, <2>10 DEF OffsetInv
<1>. QED  BY <1>4, <1>5, WriteDoes

LEMMA OffsetFailed ==
  ASSUME BaseInv, BaseInv', OffsetInv, NEW s \in Slots, fileContentRq_failed(s)
  PROVE  OffsetInv'
<1>1. StateOK /\ StateOK'
  BY DEF BaseInv
<1>2. /\ Runs(s, "fileContentRq", "failed") /\ UNCHANGED disk
      /\ run[s].obj \in 1..Len(info) /\ Changed(run[s].obj)
      /\ info'[run[s].obj].off = info[run[s].obj].off - run[s].n
      /\ OthersRun(s) /\ run'[s].step = "reply"
  BY FailedDoes DEF GoesOn
<1>3. run[s] # Idle /\ run[s].n \in Int
  BY <1>1, <1>2, HandlingIsNotIdle, AHandlerRuns DEF Runs
<1>. PICK o \in 1..Len(info), n \in Int, off \in Int : o = run[s].obj /\ n = run[s].n /\ off = info[o].off
  BY <1>1, <1>2, <1>3, SessionIsThere
<1>4. \A t \in Slots : run'[t] = run[t] \/ run'[t] = Idle \/ run'[t].step # "failed"
  BY <1>2 DEF OthersRun
<1>5. \A j \in 1..Len(info) : Owed(j)' \subseteq Owed(j)
  BY <1>4, OwedStays
<1>6. Covers(info[o].off, o)'
  <2>1. IsFiniteSet(Owed(o)) /\ Cardinality(Owed(o)) <= off
    BY DEF OffsetInv, Covers
  <2>2. info'[o].off = off - n /\ off - n \in Int
    BY <1>2
  <2>3. CASE n < 0
    <3>1. PICK c \in Int : c = off - n /\ off <= c
      BY <2>2, <2>3
    <3>2. Owed(o)' \in SUBSET Owed(o)
      BY <1>5
    <3>3. IsFiniteSet(Owed(o)') /\ Cardinality(Owed(o)') <= c
      BY <2>1, <3>1, <3>2, CoversKept
    <3>. QED  BY <2>2, <3>1, <3>3 DEF Covers
  <2>4. CASE n >= 0
    <3>1. n \in Nat
      BY <2>4
    <3>2. {s} \X (1..n) \subseteq Owed(o)
      BY <1>2, <1>3, <3>1 DEF Owed, Runs
    <3>3. Owed(o)' \in SUBSET (Owed(o) \ ({s} \X (1..n)))
      BY <1>2, <1>5 DEF Owed
    <3>4. IsFiniteSet(Owed(o)') /\ Cardinality(Owed(o)') <= off - n
      BY <2>1, <3>1, <3>2, <3>3, OwesLess
    <3>. QED  BY <2>2, <3>4 DEF Covers
  <2>. QED  BY <2>3, <2>4
<1>7. ASSUME NEW j \in 1..Len(info')
      PROVE  (j \in 1..Len(info) /\ info[j].off <= info'[j].off) \/ Covers(info[j].off, j)'
  <2>1. CASE j = o
    BY <1>6, <2>1
  <2>2. CASE j # o
    BY <1>1, <1>2, <2>2, SessionIsThere DEF Changed
  <2>. QED  BY <2>1, <2>2
<1>8. ASSUME NEW t \in Slots, Seeks(t)'
      PROVE  /\ run[t] # Idle /\ run'[t] = run[t] /\ run[t].obj \in 1..Len(info) /\ run[t].k \in Transfers
             /\ Len(disk[path(run[t].k)]) <= Len(disk'[path(run[t].k)])
  <2>1. run'[t] = run[t] /\ run[t] # Idle /\ run[t].step = "seek"
    BY <1>2, <1>8 DEF OthersRun, Seeks
  <2>2. run[t].obj \in 1..Len(info) /\ run[t].k \in Transfers
    BY <2>1, SeekersAre
  <2>. QED  BY <1>1, <1>2, <2>1, <2>2, SameLengths
<1>. QED  BY <1>1, <1>5, <1>7, <1>8, OffsetKept

LEMMA OffsetSeek ==
  ASSUME BaseInv, BaseInv', OwnInv, OffsetInv, NEW s \in Slots, continueUpload_seek(s)
  PROVE  OffsetInv'
<1>1. StateOK /\ StateOK'
  BY DEF BaseInv
<1>2. /\ Runs(s, "continueUpload", "seek") /\ UNCHANGED disk
      /\ run[s].obj \in 1..Len(info) /\ Changed(run[s].obj)
      /\ info'[run[s].obj].off = Len(disk[info[run[s].obj].path])
      /\ OthersRun(s) /\ run'[s].step = "reply"
  BY SeekDoes DEF GoesOn
<1>3. run[s] # Idle /\ run[s].k \in Transfers /\ run[s].obj # 0
  BY <1>1, <1>2, HandlingIsNotIdle, AHandlerRuns DEF Runs, StateOK
<1>. PICK o \in 1..Len(info), k \in Transfers : o = run[s].obj /\ k = run[s].k
  BY <1>2, <1>3
<1>4. \A t \in Slots : run'[t] = run[t] \/ run'[t] = Idle \/ run'[t].step # "failed"
  BY <1>2 DEF OthersRun
<1>5. \A j \in 1..Len(info) : Owed(j)' \subseteq Owed(j)
  BY <1>4, OwedStays
<1>6. Covers(info[o].off, o)'
  <2>1. info[o].path = path(k)
    BY <1>3 DEF OwnInv
  <2>2. Len(disk[path(k)]) \in Nat
    BY <1>1, PathsAre DEF StateOK
  <2>3. PICK c \in Int : c = Len(disk[path(k)]) /\ c <= c
    BY <2>2
  <2>4. IsFiniteSet(Owed(o)) /\ Cardinality(Owed(o)) <= c
    BY <1>2, <1>3, <2>3 DEF OffsetInv, Covers, Seeks, Runs
  <2>5. IsFiniteSet(Owed(o)') /\ Cardinality(Owed(o)') <= c
    BY <1>5, <2>3, <2>4, CoversLess
  <2>. QED  BY <1>2, <2>1, <2>3, <2>5 DEF Covers
<1>7. ASSUME NEW j \in 1..Len(info')
      PROVE  (j \in 1..Len(info) /\ info[j].off <= info'[j].off) \/ Covers(info[j].off, j)'
  <2>1. CASE j = o
    BY <1>6, <2>1
  <2>2. CASE j # o
    BY <1>1, <1>2, <2>2, SessionIsThere DEF Changed
  <2>. QED  BY <2>1, <2>2
<1>8. ASSUME NEW t \in Slots, Seeks(t)'
      PROVE  /\ run[t] # Idle /\ run'[t] = run[t] /\ run[t].obj \in 1..Len(info) /\ run[t].k \in Transfers
             /\ Len(disk[path(run[t].k)]) <= Len(disk'[path(run[t].k)])
  <2>1. run'[t] = run[t] /\ run[t] # Idle /\ run[t].step = "seek"
    BY <1>2, <1>8 DEF OthersRun, Seeks
  <2>2. run[t].obj \in 1..Len(info) /\ run[t].k \in Transfers
    BY <2>1, SeekersAre
  <2>. QED  BY <1>1, <1>2, <2>1, <2>2, SameLengths
<1>. QED  BY <1>1, <1>5, <1>7, <1>8, OffsetKept

LEMMA OffsetInvInit == Init => OffsetInv
<1>. SUFFICES ASSUME Init PROVE OffsetInv
  OBVIOUS
<1>1. info = <<>> /\ Len(info) = 0 /\ \A s \in Slots : run[s] = Idle
  BY DEF Init
<1>2. 1..Len(info) = {}
  BY <1>1
<1>. QED  BY <1>1, <1>2 DEF OffsetInv, Seeks

LEMMA OffsetInvStep ==
  Separate /\ BaseInv /\ RequestInv /\ OwnInv /\ OffsetInv /\ [Next]_vars => OffsetInv'
<1>. SUFFICES ASSUME Separate, BaseInv, RequestInv, OwnInv, OffsetInv, [Next]_vars PROVE OffsetInv'
  OBVIOUS
<1>1. StateOK /\ StateOK' /\ BaseInv'
  BY BaseInvStep DEF BaseInv
<1>2. ASSUME UNCHANGED disk, Len(info') = Len(info), \A o \in 1..Len(info) : info'[o].off = info[o].off,
             \A t \in Slots : run'[t] = run[t] \/ run'[t] = Idle \/ run'[t].step \notin {"failed", "seek"}
      PROVE  OffsetInv'
  BY <1>1, <1>2, SameLengths, OffsetStays
<1>3. ASSUME NEW s \in Slots, uploadFile_quick(s) \/ uploadFile_quickInsert(s) \/ uploadFile_insertFile(s)
             \/ uploadFile_insertRel(s)
      PROVE  OffsetInv'
  <2>1. SameMemory /\ UNCHANGED disk /\ OthersRun(s) /\ run'[s].step \in {"open", "quick", "replyQuick", "selectId", "reply"}
    BY <1>1, <1>3, QuickDoes, QuickInsertDoes, InsertFileDoes, InsertRelDoes DEF GoesOn
  <2>. QED  BY <1>2, <2>1 DEF SameMemory, OthersRun
<1>4. ASSUME NEW s \in Slots, fileContentRq_find(s) \/ fileContentRq_read(s) \/ fileContentRq_update(s)
             \/ continueUpload_select(s)
      PROVE  OffsetInv'
  <2>1. /\ SameMemory /\ UNCHANGED disk /\ OthersRun(s)
        /\ run'[s] = Idle \/ run'[s].step \in {"write", "advance", "close", "reopen"}
    BY <1>1, <1>4, FindDoes, ReadDoes, UpdateDoes, ContinueSelectDoes DEF GoesOn, Ends
  <2>. QED  BY <1>2, <2>1 DEF SameMemory, OthersRun
<1>5. ASSUME NEW s \in Slots, continueUpload_find(s) PROVE OffsetInv'
  <2>1. SameMemory /\ UNCHANGED disk /\ run[s].k \in Transfers /\ run[s] # Idle
    BY <1>1, <1>5, ContinueFindDoes, HandlingIsNotIdle, AHandlerRuns DEF Runs
  <2>2. m_mapTimstampToFileinfo[timestamp[run[s].k]] = 0
    BY <2>1 DEF OwnInv
  <2>3. OthersRun(s) /\ run'[s].step = "select"
    BY <1>1, <1>5, <2>2, ContinueFindDoes DEF GoesOn
  <2>. QED  BY <1>2, <2>1, <2>3 DEF SameMemory, OthersRun
<1>6. ASSUME NEW s \in Slots, uploadFile_selectId(s) \/ fileContentRq_advance(s) \/ fileContentRq_close(s)
      PROVE  OffsetInv'
  <2>1. /\ UNCHANGED disk /\ OthersRun(s) /\ run'[s].step \in {"insertRel", "update", "reply"}
        /\ run[s].obj \in 1..Len(info) /\ Changed(run[s].obj) /\ info'[run[s].obj].off = info[run[s].obj].off
    BY <1>6, SelectIdDoes, AdvanceDoes, CloseDoes DEF GoesOn
  <2>2. Len(info') = Len(info) /\ \A o \in 1..Len(info) : info'[o].off = info[o].off
    BY <2>1 DEF Changed
  <2>. QED  BY <1>2, <2>1, <2>2 DEF OthersRun
<1>7. ASSUME NEW s \in Slots, Handler(s) PROVE OffsetInv'
  <2>1. CASE uploadFile(s)
    BY <1>1, <1>3, <1>6, <2>1, OffsetOpen DEF uploadFile
  <2>2. CASE fileContentRq(s)
    BY <1>1, <1>4, <1>6, <2>2, OffsetWrite, OffsetFailed DEF fileContentRq
  <2>3. CASE continueUpload(s)
    BY <1>1, <1>4, <1>5, <2>3, OffsetReopen, OffsetSeek DEF continueUpload
  <2>4. CASE SendData(s)
    <3>1. SameMemory /\ UNCHANGED disk /\ OthersRun(s) /\ run'[s] = Idle
      BY <2>4, SendDataDoes DEF Ends
    <3>. QED  BY <1>2, <3>1 DEF SameMemory, OthersRun
  <2>. QED  BY <1>7, <2>1, <2>2, <2>3, <2>4 DEF Handler
<1>8. ASSUME NEW s \in Slots, CallFails(s) \/ lost(s) PROVE OffsetInv'
  <2>1. SameMemory /\ UNCHANGED disk /\ OthersRun(s) /\ run'[s] = Idle
    BY <1>1, <1>8, CallFailsDoes, LostDoes DEF Ends
  <2>. QED  BY <1>2, <2>1 DEF SameMemory, OthersRun
<1>9. ASSUME NEW k \in Transfers, Client(k) PROVE OffsetInv'
  <2>1. SameMemory /\ UNCHANGED disk /\ \E s \in Slots : OthersRun(s) /\ run'[s].step = "start"
    BY <1>1, <1>9, SendUploadDoes, SendBlockDoes, SendContinueDoes DEF Client, Asks
  <2>. QED  BY <1>2, <2>1 DEF SameMemory, OthersRun
<1>10. ASSUME NEW k \in Transfers, disconnect(k) PROVE OffsetInv'
  BY <1>1, <1>2, <1>10, DisconnectDoes DEF SameMemory
<1>11. CASE crash
  <2>1. info' = <<>> /\ Len(info') = 0 /\ \A s \in Slots : run'[s] = Idle
    BY <1>1, <1>11, CrashDoes
  <2>2. 1..Len(info') = {}
    BY <2>1
  <2>. QED  BY <2>1, <2>2 DEF OffsetInv, Seeks
<1>12. CASE UNCHANGED vars
  BY <1>2, <1>12 DEF vars, memory
<1>. QED  BY <1>7, <1>8, <1>9, <1>10, <1>11, <1>12 DEF Next

-----------------------------------------------------------------------------
(* PosInv.                                                                  *)
MemoryInv == BaseInv /\ RequestInv /\ OwnInv /\ OpenInv /\ SingleInv

LEMMA PosInvInit == Init => PosInv
<1>. SUFFICES ASSUME Init PROVE PosInv
  OBVIOUS
<1>1. ASSUME NEW k \in Transfers PROVE Held(k) = 0 /\ client[k].phase = "new"
  BY KeysAre DEF Init, Held
<1>. QED  BY <1>1 DEF Init, PosInv, PosOfClient

(* The handlers and the client of one transfer change.                      *)
LEMMA PosMoves ==
  ASSUME MemoryInv, PosInv, Steady, NEW k \in Transfers, Apart(k), StateOK',
         \A t \in Slots : Busy(t, k)' => PosOfHandler(t, k)',
         PosOfClient(k)'
  PROVE  PosInv'
<1>1. ASSUME NEW l \in Transfers, l # k
      PROVE  Held(l)' = Held(l) /\ (Held(l) # 0 => info'[Held(l)] = info[Held(l)]) /\ client'[l] = client[l]
  BY <1>1 DEF Apart, OtherSessions, OthersClients
<1>2. ASSUME NEW l \in Transfers, l # k, NEW n PROVE Pos(l, n)' <=> Pos(l, n)
  BY <1>1, <1>2 DEF Pos
<1>3. ASSUME NEW l \in Transfers PROVE PosOfClient(l)'
  <2>1. CASE l = k
    BY <2>1
  <2>2. CASE l # k
    <3>1. PICK pos : pos = client[l].pos
      OBVIOUS
    <3>2. (client[l].pos)' = pos /\ (client[l].phase)' = client[l].phase
      BY <1>1, <2>2, <3>1
    <3>3. Pos(l, pos)' <=> Pos(l, pos)
      BY <1>2, <2>2
    <3>4. PosOfClient(l)
      BY DEF PosInv
    <3>. QED  BY <1>1, <2>2, <3>1, <3>2, <3>3, <3>4 DEF PosOfClient, Pos
  <2>. QED  BY <2>1, <2>2
<1>4. ASSUME NEW t \in Slots, NEW l \in Transfers, Busy(t, l)' PROVE PosOfHandler(t, l)'
  <2>1. CASE l = k
    BY <1>4, <2>1
  <2>2. CASE l # k
    <3>1. run'[t] = run[t] /\ run[t] # Idle /\ run[t].k = l
      BY <1>4, <2>2 DEF Apart, OtherRequests, Busy
    <3>2. PosOfHandler(t, l)
      BY <3>1 DEF PosInv
    <3>3. PICK lo, hi, n : lo = run[t].lo /\ hi = run[t].hi /\ n = run[t].n
      OBVIOUS
    <3>4. (Pos(l, 0)' <=> Pos(l, 0)) /\ (Pos(l, lo)' <=> Pos(l, lo)) /\ (Pos(l, hi)' <=> Pos(l, hi)) /\ (Pos(l, n)' <=> Pos(l, n))
      BY <1>2, <2>2
    <3>. QED  BY <1>1, <2>2, <3>1, <3>2, <3>3, <3>4 DEF PosOfHandler, BlockEnd, Pos
  <2>. QED  BY <2>1, <2>2
<1>5. ASSUME NEW t \in Slots, run'[t] # Idle PROVE PosOfHandler(t, run[t].k)'
  <2>1. PICK l \in Transfers : l = run'[t].k
    BY <1>5 DEF StateOK, Handling
  <2>2. PosOfHandler(t, l)'
    BY <1>4, <1>5, <2>1 DEF Busy
  <2>. QED  BY <2>1, <2>2 DEF PosOfHandler, Pos, Held
<1>. QED  BY <1>3, <1>5 DEF PosInv

(* The client of a handler waits for it.                                    *)
LEMMA ClientWaits ==
  ASSUME MemoryInv, Steady, NEW s \in Slots, run[s] # Idle, NEW k \in Transfers, k = run[s].k
  PROVE  client[k].phase = PhaseOf(run[s].fn) /\ client[k].phase \in {"asked", "waiting", "resuming"}
<1>1. run[s].epoch = client[k].epoch
  BY DEF MemoryInv, SingleInv, Single
<1>2. RequestOK(s, k) /\ run[s].fn \in Handlers
  BY AHandlerRuns DEF MemoryInv, RequestInv, Busy, BaseInv
<1>. QED  BY <1>1, <1>2 DEF RequestOK, PhaseOf, Handlers

LEMMA NoOtherHandler ==
  ASSUME MemoryInv, Steady, NEW s \in Slots, run[s] # Idle, NEW k \in Transfers, k = run[s].k, OthersRun(s),
         NEW t \in Slots, Busy(t, k) \/ Busy(t, k)'
  PROVE  t = s
<1>1. ASSUME t # s PROVE FALSE
  <2>1. run[t] # Idle /\ run[t].k = k
    BY <1>1 DEF OthersRun, Busy
  <2>. QED  BY <1>1, <2>1, OneHandler DEF MemoryInv
<1>. QED  BY <1>1

(* A handler goes on.                                                       *)
LEMMA PosGoes ==
  ASSUME MemoryInv, PosInv, Steady, Separate, StateOK', NEW s \in Slots, NEW k \in Transfers, k = run[s].k,
         uploadFile(s) \/ fileContentRq(s) \/ continueUpload(s),
         run'[s] = Idle \/ PosOfHandler(s, k)'
  PROVE  PosInv'
<1>1. run[s] # Idle /\ OthersRun(s) /\ UNCHANGED client
  BY HandlerMoves DEF MemoryInv
<1>2. Apart(k)
  BY HandlerApart DEF MemoryInv
<1>3. client'[k].phase \in {"asked", "waiting", "resuming"}
  BY <1>1, ClientWaits
<1>4. ASSUME NEW t \in Slots, Busy(t, k)' PROVE PosOfHandler(t, k)'
  <2>1. t = s
    BY <1>1, <1>4, NoOtherHandler
  <2>2. run'[s] # Idle
    BY <1>4, <2>1 DEF Busy
  <2>. QED  BY <2>1, <2>2
<1>5. PosOfClient(k)'
  BY <1>3 DEF PosOfClient
<1>. QED  BY <1>2, <1>4, <1>5, PosMoves

(* A handler of a transfer ends, and its client gets the answer or none.    *)
LEMMA PosEnds ==
  ASSUME MemoryInv, PosInv, Steady, StateOK', NEW s \in Slots, run[s] # Idle, NEW k \in Transfers, k = run[s].k,
         SendData(s) \/ CallFails(s) \/ lost(s), PosOfClient(k)'
  PROVE  PosInv'
<1>1. Apart(k)
  BY EndApart DEF MemoryInv
<1>2. run'[s] = Idle /\ OthersRun(s)
  BY SendDataDoes, CallFailsDoes, LostDoes DEF MemoryInv, BaseInv, Ends
<1>3. ASSUME NEW t \in Slots, Busy(t, k)' PROVE FALSE
  BY <1>2, <1>3, NoOtherHandler DEF Busy
<1>. QED  BY <1>1, <1>3, PosMoves

LEMMA PosUpload ==
  ASSUME MemoryInv, PosInv, Steady, Separate, StateOK', NEW s \in Slots, uploadFile(s)
  PROVE  PosInv'
<1>1. StateOK /\ BaseInv
  BY DEF MemoryInv, BaseInv
<1>2. run[s] # Idle
  BY <1>1, HandlerMoves
<1>. PICK k \in Transfers : k = run[s].k
  BY <1>1, <1>2, AHandlerRuns
<1>3. PosOfHandler(s, k)
  BY <1>2 DEF PosInv
<1>4. CASE uploadFile_quick(s) \/ uploadFile_quickInsert(s)
  <2>1. /\ run[s].fn = "uploadFile" /\ run[s].step \in Before /\ SameMemory
        /\ run'[s].fn = "uploadFile" /\ run'[s].step \in Before
    BY <1>1, <1>4, QuickDoes, QuickInsertDoes DEF Runs, GoesOn, Before
  <2>2. Held(k) = 0 /\ Held(k)' = Held(k)
    BY <1>3, <2>1 DEF PosOfHandler, SameMemory, Held
  <2>3. PosOfHandler(s, k)'
    BY <2>1, <2>2 DEF PosOfHandler
  <2>. QED  BY <2>3, PosGoes
<1>5. CASE uploadFile_open(s)
  <2>1. /\ run'[s].fn = "uploadFile" /\ run'[s].step = "insertFile" /\ run'[s].obj = Len(info) + 1
        /\ Opened(k, path(k), 0)
    BY <1>1, <1>5, OpenDoes DEF Runs, GoesOn
  <2>2. Held(k)' = Len(info) + 1 /\ info'[Len(info) + 1] = FileInfo(path(k), 0) /\ Len(info) \in Nat
    BY <1>1, <2>1, OpenedFor DEF Separate, StateOK
  <2>3. info'[Len(info) + 1].pos = 0 /\ Len(info) + 1 # 0
    BY <2>2 DEF FileInfo
  <2>4. Pos(k, 0)' /\ Held(k)' = run'[s].obj
    BY <2>1, <2>2, <2>3 DEF Pos
  <2>5. PosOfHandler(s, k)'
    BY <2>1, <2>4 DEF PosOfHandler, Before
  <2>. QED  BY <2>5, PosGoes
<1>6. CASE uploadFile_insertFile(s) \/ uploadFile_insertRel(s)
  <2>1. /\ run[s].fn = "uploadFile" /\ run[s].step \notin Before /\ SameMemory
        /\ run'[s].fn = "uploadFile" /\ run'[s].step \notin Before /\ run'[s].obj = run[s].obj
    BY <1>1, <1>6, InsertFileDoes, InsertRelDoes DEF Runs, GoesOn, Before
  <2>2. Pos(k, 0) /\ Held(k) = run[s].obj
    BY <1>3, <2>1 DEF PosOfHandler
  <2>3. Pos(k, 0)' /\ Held(k)' = run'[s].obj
    BY <2>1, <2>2 DEF Pos, Held, SameMemory
  <2>4. PosOfHandler(s, k)'
    BY <2>1, <2>3 DEF PosOfHandler
  <2>. QED  BY <2>4, PosGoes
<1>7. CASE uploadFile_selectId(s)
  <2>1. /\ run[s].fn = "uploadFile" /\ run[s].step \notin Before /\ UNCHANGED m_mapTimstampToFileinfo
        /\ run'[s].fn = "uploadFile" /\ run'[s].step \notin Before /\ run'[s].obj = run[s].obj
        /\ info'[run[s].obj].pos = info[run[s].obj].pos
    BY <1>7, <1>1, SelectIdDoes DEF Runs, GoesOn, Before
  <2>2. Pos(k, 0) /\ Held(k) = run[s].obj
    BY <1>3, <2>1 DEF PosOfHandler
  <2>3. Pos(k, 0)' /\ Held(k)' = run'[s].obj
    BY <2>1, <2>2 DEF Pos, Held
  <2>4. PosOfHandler(s, k)'
    BY <2>1, <2>3 DEF PosOfHandler
  <2>. QED  BY <2>4, PosGoes
<1>. QED  BY <1>4, <1>5, <1>6, <1>7 DEF uploadFile

LEMMA PosContent ==
  ASSUME MemoryInv, PosInv, Steady, Separate, StateOK', NEW s \in Slots, fileContentRq(s)
  PROVE  PosInv'
<1>1. StateOK /\ BaseInv
  BY DEF MemoryInv, BaseInv
<1>2. run[s] # Idle /\ UNCHANGED client
  BY <1>1, HandlerMoves
<1>. PICK k \in Transfers, lo \in Nat, hi \in Nat, n \in Int :
        k = run[s].k /\ lo = run[s].lo /\ hi = run[s].hi /\ n = run[s].n
  BY <1>1, <1>2, AHandlerRuns
<1>3. PosOfHandler(s, k)
  BY <1>2 DEF PosInv
<1>4. ASSUME run[s].fn = "fileContentRq"
      PROVE  /\ lo = client[k].pos /\ hi = BlockEnd(lo)
             /\ run[s].step \in {"start", "write", "failed", "written", "advance"} => Pos(k, lo)
             /\ run[s].step \in {"write", "failed", "written", "advance", "update", "close"}
                  => Held(k) = run[s].obj
             /\ run[s].step = "written" => n = hi - lo
             /\ run[s].step = "advance" => n = hi
             /\ run[s].step \in {"update", "close"} => Pos(k, hi) /\ hi >= Size /\ n = 1
  BY <1>3, <1>4 DEF PosOfHandler
<1>5. ASSUME run[s].fn = "fileContentRq", run'[s].fn = "fileContentRq", run'[s].lo = run[s].lo, run'[s].hi = run[s].hi,
             run'[s].step \in {"start", "write", "failed", "written", "advance"} => Pos(k, lo)',
             run'[s].step \in {"write", "failed", "written", "advance", "update", "close"} => Held(k)' = run'[s].obj,
             run'[s].step = "written" => run'[s].n = hi - lo,
             run'[s].step = "advance" => run'[s].n = hi,
             run'[s].step \in {"update", "close"} => Pos(k, hi)' /\ hi >= Size /\ run'[s].n = 1,
             run'[s].step = "reply" =>
               \/ run'[s].n = 1 /\ hi < Size /\ Pos(k, hi)'
               \/ run'[s].n = 1 /\ hi >= Size /\ Held(k)' = 0
               \/ run'[s].n = 0 /\ Pos(k, lo)'
      PROVE  PosInv'
  <2>1. client'[k].pos = lo /\ hi = BlockEnd(lo)
    BY <1>2, <1>4, <1>5
  <2>2. run'[s].lo = lo /\ run'[s].hi = hi
    BY <1>5
  <2>3. PosOfHandler(s, k)'
    BY <1>5, <2>1, <2>2 DEF PosOfHandler, BlockEnd, Pos, Held
  <2>. QED  BY <2>3, PosGoes
<1>6. CASE fileContentRq_find(s)
  <2>1. Runs(s, "fileContentRq", "start") /\ SameMemory
    BY <1>1, <1>6, FindDoes
  <2>2. Pos(k, lo)' /\ Held(k)' = Held(k)
    BY <1>4, <2>1 DEF Runs, SameMemory, Pos, Held
  <2>3. CASE run'[s] = Idle
    BY <1>6, <2>3, PosGoes DEF fileContentRq
  <2>4. CASE GoesOn(s, "write") /\ run'[s].obj = Held(k)
    BY <1>5, <2>1, <2>2, <2>4 DEF GoesOn, Runs
  <2>. QED  BY <1>1, <1>6, <2>3, <2>4, FindDoes DEF Ends
<1>7. CASE fileContentRq_write(s)
  <2>1. /\ Runs(s, "fileContentRq", "write") /\ UNCHANGED m_mapTimstampToFileinfo
        /\ run'[s].obj = run[s].obj
        /\ UNCHANGED info \/ info'[run[s].obj].pos = info[run[s].obj].pos
        /\ GoesOn(s, "failed") \/ (GoesOn(s, "written") /\ run'[s].n = hi - lo)
    BY <1>7, <1>1, WriteDoes DEF len
  <2>2. Pos(k, lo)' /\ Held(k)' = run'[s].obj
    BY <1>4, <2>1 DEF Runs, Pos, Held
  <2>. QED  BY <1>5, <2>1, <2>2 DEF GoesOn, Runs
<1>8. CASE fileContentRq_failed(s)
  <2>1. /\ Runs(s, "fileContentRq", "failed") /\ UNCHANGED m_mapTimstampToFileinfo
        /\ run'[s].obj = run[s].obj /\ run'[s].n = 0 /\ GoesOn(s, "reply")
        /\ info'[run[s].obj].pos = info[run[s].obj].pos
    BY <1>8, <1>1, FailedDoes
  <2>2. Pos(k, lo)'
    BY <1>4, <2>1 DEF Runs, Pos, Held
  <2>. QED  BY <1>5, <2>1, <2>2 DEF GoesOn, Runs
<1>9. CASE fileContentRq_read(s)
  <2>1. /\ Runs(s, "fileContentRq", "written") /\ SameMemory
        /\ run'[s].obj = run[s].obj /\ run'[s].n = info[run[s].obj].pos + run[s].n /\ GoesOn(s, "advance")
    BY <1>9, <1>1, ReadDoes
  <2>2. Pos(k, lo)' /\ Held(k)' = run'[s].obj /\ info[run[s].obj].pos = lo /\ n = hi - lo
    BY <1>4, <2>1 DEF Runs, Pos, Held, SameMemory
  <2>3. run'[s].n = hi
    BY <2>1, <2>2
  <2>. QED  BY <1>5, <2>1, <2>2, <2>3 DEF GoesOn, Runs
<1>10. CASE fileContentRq_advance(s)
  <2>1. /\ Runs(s, "fileContentRq", "advance") /\ UNCHANGED m_mapTimstampToFileinfo
        /\ run'[s].obj = run[s].obj /\ run'[s].n = 1 /\ info'[run[s].obj].pos = n
        /\ (n >= Size /\ GoesOn(s, "update")) \/ (n < Size /\ GoesOn(s, "reply"))
    BY <1>10, <1>1, AdvanceDoes
  <2>2. Held(k)' = run'[s].obj /\ n = hi /\ Held(k) = run[s].obj /\ Held(k) # 0
    BY <1>4, <2>1 DEF Runs, Held, Pos
  <2>3. Pos(k, hi)'
    BY <2>1, <2>2 DEF Pos
  <2>. QED  BY <1>5, <2>1, <2>2, <2>3 DEF GoesOn, Runs
<1>11. CASE fileContentRq_update(s)
  <2>1. /\ Runs(s, "fileContentRq", "update") /\ SameMemory
        /\ run'[s].obj = run[s].obj /\ run'[s].n = run[s].n /\ GoesOn(s, "close")
    BY <1>11, <1>1, UpdateDoes
  <2>2. Pos(k, hi)' /\ Held(k)' = run'[s].obj /\ hi >= Size /\ run'[s].n = 1
    BY <1>4, <2>1 DEF Runs, Pos, Held, SameMemory
  <2>. QED  BY <1>5, <2>1, <2>2 DEF GoesOn, Runs
<1>12. CASE fileContentRq_close(s)
  <2>1. /\ Runs(s, "fileContentRq", "close")
        /\ m_mapTimstampToFileinfo' = [m_mapTimstampToFileinfo EXCEPT ![user_time[k]] = 0]
        /\ run'[s].n = run[s].n /\ GoesOn(s, "reply")
    BY <1>12, <1>1, CloseDoes
  <2>2. Held(k)' = 0 /\ hi >= Size /\ run'[s].n = 1
    BY <1>1, <1>4, <2>1, ClosedFor DEF Runs, Separate
  <2>. QED  BY <1>5, <2>1, <2>2 DEF GoesOn, Runs
<1>. QED  BY <1>6, <1>7, <1>8, <1>9, <1>10, <1>11, <1>12 DEF fileContentRq

LEMMA PosContinue ==
  ASSUME MemoryInv, PosInv, Steady, Separate, StateOK', NEW s \in Slots, continueUpload(s)
  PROVE  PosInv'
<1>1. StateOK /\ BaseInv
  BY DEF MemoryInv, BaseInv
<1>2. run[s] # Idle
  BY <1>1, HandlerMoves
<1>. PICK k \in Transfers : k = run[s].k
  BY <1>1, <1>2, AHandlerRuns
<1>3. PosOfHandler(s, k)
  BY <1>2 DEF PosInv
<1>4. CASE continueUpload_find(s) \/ continueUpload_select(s)
  <2>1. /\ run[s].fn = "continueUpload" /\ run[s].step \in {"start", "select"} /\ SameMemory
    BY <1>1, <1>4, ContinueFindDoes, ContinueSelectDoes DEF Runs
  <2>2. m_mapTimstampToFileinfo[timestamp[k]] = 0
    BY DEF OwnInv, MemoryInv
  <2>3. run'[s] = Idle \/ (run'[s].fn = "continueUpload" /\ run'[s].step \in {"select", "reopen"})
    BY <1>1, <1>4, <2>2, ContinueFindDoes, ContinueSelectDoes DEF Runs, GoesOn, Ends
  <2>4. Held(k) = 0 /\ Held(k)' = Held(k)
    BY <1>3, <2>1 DEF PosOfHandler, SameMemory, Held
  <2>5. run'[s] = Idle \/ PosOfHandler(s, k)'
    BY <2>3, <2>4 DEF PosOfHandler
  <2>. QED  BY <2>5, PosGoes
<1>5. CASE continueUpload_open(s)
  <2>1. /\ run'[s].fn = "continueUpload" /\ run'[s].step = "seek" /\ run'[s].obj = Len(info) + 1
        /\ Opened(k, path(k), run[s].fid)
    BY <1>1, <1>5, ReopenDoes DEF Runs, GoesOn
  <2>2. Held(k)' = Len(info) + 1 /\ info'[Len(info) + 1] = FileInfo(path(k), run[s].fid) /\ Len(info) \in Nat
    BY <1>1, <2>1, OpenedFor DEF Separate, StateOK
  <2>3. info'[Len(info) + 1].pos = 0 /\ Len(info) + 1 # 0
    BY <2>2 DEF FileInfo
  <2>4. Pos(k, 0)' /\ Held(k)' = run'[s].obj
    BY <2>1, <2>2, <2>3 DEF Pos
  <2>5. PosOfHandler(s, k)'
    BY <2>1, <2>4 DEF PosOfHandler
  <2>. QED  BY <2>5, PosGoes
<1>6. CASE continueUpload_seek(s)
  <2>1. /\ run[s].fn = "continueUpload" /\ run[s].step = "seek" /\ UNCHANGED m_mapTimstampToFileinfo
        /\ run'[s].fn = "continueUpload" /\ run'[s].step = "reply" /\ run'[s].obj = run[s].obj
        /\ info'[run[s].obj].pos = run'[s].n
    BY <1>6, <1>1, SeekDoes DEF Runs, GoesOn
  <2>2. Pos(k, 0) /\ Held(k) = run[s].obj
    BY <1>3, <2>1 DEF PosOfHandler
  <2>. PICK m : m = run'[s].n
    OBVIOUS
  <2>3. Pos(k, m)'
    BY <2>1, <2>2 DEF Pos, Held
  <2>4. PosOfHandler(s, k)'
    BY <2>1, <2>3 DEF PosOfHandler, Pos
  <2>. QED  BY <2>4, PosGoes
<1>. QED  BY <1>4, <1>5, <1>6 DEF continueUpload

LEMMA PosSendData ==
  ASSUME MemoryInv, PosInv, Steady, StateOK', NEW s \in Slots, SendData(s)
  PROVE  PosInv'
<1>1. StateOK /\ BaseInv
  BY DEF MemoryInv, BaseInv
<1>2. /\ run[s] # Idle /\ run[s].step \in {"reply", "replyQuick"}
      /\ run[s].step = "replyQuick" => run[s].fn = "uploadFile"
      /\ SameMemory
      /\ \/ UNCHANGED client /\ run[s].epoch # client[run[s].k].epoch
         \/ AnswerTo(run[s].k, s)
  BY <1>1, SendDataDoes
<1>. PICK k \in Transfers, lo \in Nat, hi \in Nat, n \in Int :
        k = run[s].k /\ lo = run[s].lo /\ hi = run[s].hi /\ n = run[s].n
  BY <1>1, <1>2, AHandlerRuns
<1>3. AnswerTo(k, s)
  <2>1. run[s].epoch = client[k].epoch
    BY <1>2 DEF MemoryInv, SingleInv, Single
  <2>. QED  BY <1>2, <2>1
<1>4. PosOfHandler(s, k) /\ HandlerOK(s) /\ run[s].fn \in Handlers
  BY <1>1, <1>2, AHandlerRuns DEF PosInv, BaseInv
<1>5. \A m : Pos(k, m)' <=> Pos(k, m)
  BY <1>2 DEF Pos, Held, SameMemory
<1>6. ASSUME NEW pos, client'[k].pos = pos, client'[k].phase \in {"sending", "done"},
             client'[k].phase = "sending" => Pos(k, pos)
      PROVE  PosInv'
  <2>1. PosOfClient(k)'
    BY <1>5, <1>6 DEF PosOfClient, Pos
  <2>. QED  BY <1>2, <2>1, PosEnds
<1>7. \A pos : AllSent(pos) \in {"sending", "done"}
  BY DEF AllSent
<1>8. CASE run[s].fn = "uploadFile" /\ run[s].step = "replyQuick"
  BY <1>3, <1>6, <1>8 DEF AnswerTo
<1>9. CASE run[s].fn = "uploadFile" /\ run[s].step = "reply"
  <2>1. Pos(k, 0)
    BY <1>4, <1>9 DEF PosOfHandler, Before
  <2>. QED  BY <1>3, <1>6, <1>9, <2>1 DEF AnswerTo
<1>10. CASE run[s].fn = "fileContentRq"
  <2>1. run[s].step = "reply" /\ lo < hi
    BY <1>2, <1>4, <1>10 DEF HandlerOK
  <2>2. hi = BlockEnd(lo) /\ lo = client[k].pos
    BY <1>4, <1>10 DEF PosOfHandler
  <2>3. Size \in Nat /\ Size > 0 /\ hi <= Size
    BY <2>1, <2>2, BlockEndIs, UploadAssumption
  <2>4. \/ n = 1 /\ hi < Size /\ Pos(k, hi)
        \/ n = 1 /\ hi >= Size /\ Held(k) = 0
        \/ n = 0 /\ Pos(k, lo)
    BY <1>4, <1>10, <2>1 DEF PosOfHandler
  <2>5. CASE n = 1
    <3>1. client'[k].phase = AllSent(hi) /\ client'[k].pos = hi
      BY <1>3, <1>10, <2>5 DEF AnswerTo
    <3>2. AllSent(hi) = "sending" => hi < Size
      BY <2>3 DEF AllSent
    <3>. QED  BY <1>6, <1>7, <2>3, <2>4, <2>5, <3>1, <3>2
  <2>6. CASE n = 0
    <3>1. client'[k].phase = "sending" /\ client'[k].pos = lo
      BY <1>3, <1>10, <2>2, <2>6 DEF AnswerTo
    <3>. QED  BY <1>6, <2>4, <2>6, <3>1
  <2>. QED  BY <2>4, <2>5, <2>6
<1>11. CASE run[s].fn = "continueUpload"
  <2>1. run[s].step = "reply"
    BY <1>2, <1>11
  <2>2. Pos(k, n)
    BY <1>4, <1>11, <2>1 DEF PosOfHandler
  <2>3. client'[k].phase = AllSent(n) /\ client'[k].pos = n
    BY <1>3, <1>11 DEF AnswerTo
  <2>. QED  BY <1>6, <1>7, <2>2, <2>3
<1>. QED  BY <1>2, <1>4, <1>8, <1>9, <1>10, <1>11 DEF Handlers

LEMMA PosClient ==
  ASSUME MemoryInv, PosInv, Steady, StateOK', NEW k \in Transfers, Client(k)
  PROVE  PosInv'
<1>1. StateOK /\ BaseInv /\ RequestInv
  BY DEF MemoryInv, BaseInv
<1>2. PosOfClient(k) /\ Apart(k)
  BY <1>1, ClientApart DEF PosInv
<1>3. ASSUME client[k].phase \in {"new", "sending", "offline"}, NEW t \in Slots, Busy(t, k) PROVE FALSE
  <2>1. run[t].epoch < client[k].epoch
    BY <1>1, <1>3, NoneAsks
  <2>2. run[t].epoch = client[k].epoch /\ client[k].epoch \in Nat
    BY <1>1, <1>3, ClientIs DEF MemoryInv, SingleInv, Single, Busy
  <2>. QED  BY <2>1, <2>2
<1>4. ASSUME client[k].phase \in {"new", "sending", "offline"}, client'[k].phase \in {"asked", "waiting", "resuming"},
             NEW s \in Slots, OthersRun(s), PosOfHandler(s, k)'
      PROVE  PosInv'
  <2>1. ASSUME NEW t \in Slots, Busy(t, k)' PROVE PosOfHandler(t, k)'
    <3>1. t # s => Busy(t, k)
      BY <1>4, <2>1 DEF OthersRun, Busy
    <3>. QED  BY <1>3, <1>4, <3>1
  <2>2. PosOfClient(k)'
    BY <1>4 DEF PosOfClient
  <2>. QED  BY <1>2, <2>1, <2>2, PosMoves
<1>5. CASE sendUpload(k)
  <2>1. client[k].phase = "new" /\ client'[k].phase = "asked" /\ SameMemory
    BY <1>1, <1>5, SendUploadDoes DEF Becomes
  <2>2. PICK s \in Slots : OthersRun(s) /\ run'[s].fn = "uploadFile" /\ run'[s].step = "start"
    BY <1>1, <1>5, SendUploadDoes DEF Asks
  <2>3. Held(k)' = 0
    BY <1>2, <2>1 DEF PosOfClient, Held, SameMemory
  <2>4. PosOfHandler(s, k)'
    BY <2>2, <2>3 DEF PosOfHandler, Before
  <2>. QED  BY <1>4, <2>1, <2>2, <2>4
<1>6. CASE sendBlock(k)
  <2>. PICK lo : lo = client[k].pos
    OBVIOUS
  <2>1. client[k].phase = "sending" /\ client'[k].phase = "waiting" /\ SameMemory /\ client'[k].pos = lo
    BY <1>1, <1>6, SendBlockDoes DEF Becomes
  <2>2. PICK s \in Slots : /\ OthersRun(s) /\ run'[s].fn = "fileContentRq" /\ run'[s].step = "start"
                           /\ run'[s].lo = lo /\ run'[s].hi = BlockEnd(lo)
    BY <1>1, <1>6, SendBlockDoes DEF Asks
  <2>3. Pos(k, lo)'
    BY <1>2, <2>1 DEF PosOfClient, Pos, Held, SameMemory
  <2>4. PosOfHandler(s, k)'
    BY <2>1, <2>2, <2>3 DEF PosOfHandler, BlockEnd, Pos
  <2>. QED  BY <1>4, <2>1, <2>2, <2>4
<1>7. CASE sendContinue(k)
  <2>1. client[k].phase = "offline" /\ client'[k].phase = "resuming" /\ SameMemory
    BY <1>1, <1>7, SendContinueDoes DEF Becomes
  <2>2. PICK s \in Slots : OthersRun(s) /\ run'[s].fn = "continueUpload" /\ run'[s].step = "start"
    BY <1>1, <1>7, SendContinueDoes DEF Asks
  <2>3. Held(k)' = 0
    BY <1>2, <2>1 DEF PosOfClient, Held, SameMemory
  <2>4. PosOfHandler(s, k)'
    BY <2>2, <2>3 DEF PosOfHandler
  <2>. QED  BY <1>4, <2>1, <2>2, <2>4
<1>. QED  BY <1>5, <1>6, <1>7 DEF Client

LEMMA PosInvStep == Separate /\ MemoryInv /\ PosInv /\ [Next]_vars => PosInv'
<1>. SUFFICES ASSUME Separate, MemoryInv, PosInv, [Next]_vars, Steady' PROVE PosInv'
  BY DEF PosInv
<1>1. StateOK /\ BaseInv /\ BaseInv' /\ StateOK'
  BY BaseInvStep DEF MemoryInv, BaseInv
<1>2. Steady
  BY <1>1, FaultsGrow DEF Steady
<1>3. ASSUME NEW s \in Slots, uploadFile(s) \/ fileContentRq(s) \/ continueUpload(s) \/ SendData(s) PROVE PosInv'
  BY <1>1, <1>2, <1>3, PosUpload, PosContent, PosContinue, PosSendData
<1>4. ASSUME NEW s \in Slots, CallFails(s) \/ lost(s) PROVE PosInv'
  <2>1. run[s] # Idle /\ UNCHANGED client
    BY <1>1, <1>4, CallFailsDoes, LostDoes
  <2>. PICK k \in Transfers : k = run[s].k
    BY <1>1, <2>1, AHandlerRuns
  <2>2. client'[k].phase \in {"asked", "waiting", "resuming"}
    BY <1>2, <2>1, ClientWaits
  <2>3. PosOfClient(k)'
    BY <2>2 DEF PosOfClient
  <2>. QED  BY <1>1, <1>2, <1>4, <2>1, <2>3, PosEnds
<1>5. ASSUME NEW k \in Transfers, Client(k) PROVE PosInv'
  BY <1>1, <1>2, <1>5, PosClient
<1>6. ASSUME NEW k \in Transfers, disconnect(k) PROVE FALSE
  BY <1>1, <1>6, DisconnectDoes, FaultDoes DEF Steady
<1>7. CASE crash
  <2>1. /\ m_mapTimstampToFileinfo' = [key \in Keys |-> 0] /\ run' = [s \in Slots |-> Idle]
        /\ \A k \in Transfers : IF client[k].phase \in Working THEN GoesOffline(k) ELSE client'[k] = client[k]
    BY <1>1, <1>7, CrashDoes
  <2>2. ASSUME NEW k \in Transfers PROVE PosOfClient(k)'
    <3>1. Held(k)' = 0
      BY <2>1, KeysAre DEF Held
    <3>2. client'[k].phase # "sending"
      BY <2>1 DEF GoesOffline, Working
    <3>. QED  BY <3>1, <3>2 DEF PosOfClient
  <2>. QED  BY <2>1, <2>2 DEF PosInv
<1>8. CASE UNCHANGED vars
  <2>1. UNCHANGED <<m_mapTimstampToFileinfo, info, run, client>>
    BY <1>8 DEF vars, memory
  <2>2. ASSUME NEW s \in Slots, run'[s] # Idle PROVE PosOfHandler(s, run[s].k)'
    <3>1. PosOfHandler(s, run[s].k)
      BY <1>2, <2>1, <2>2 DEF PosInv
    <3>. QED  BY <2>1, <3>1 DEF PosOfHandler, Pos, Held, BlockEnd
  <2>3. ASSUME NEW k \in Transfers PROVE PosOfClient(k)'
    BY <1>2, <2>1 DEF PosInv, PosOfClient, Pos, Held
  <2>. QED  BY <2>2, <2>3 DEF PosInv
<1>. QED  BY <1>3, <1>4, <1>5, <1>6, <1>7, <1>8 DEF Next, Handler

-----------------------------------------------------------------------------
(* DiskInv.                                                                 *)
LEMMA UndisturbedIsSteady == Undisturbed => Steady
BY DEF Undisturbed, Steady

(* A session beside the only handler of its transfer.                       *)
SessionAt(s, k) ==
  /\ Held(k) # 0 => Off(k) <= Stored(k) /\ Off(k) = info[Held(k)].pos + Moved(s)
  /\ Moved(s) # 0 => Held(k) # 0
DiskAt(s, k) ==
  /\ run[s].fn = "uploadFile" => Stored(k) = 0
  /\ run[s].step = "failed" => run[s].n \in 1..(run[s].hi - run[s].lo - 1)
  /\ run[s].fn = "fileContentRq" /\ run[s].step \in {"update", "close", "reply"} /\ run[s].n = 1
       => run[s].hi <= Stored(k)
  /\ run[s].fn = "continueUpload" /\ run[s].step = "reply" => run[s].n <= Stored(k)

LEMMA SizesAre ==
  ASSUME StateOK, NEW k \in Transfers
  PROVE  /\ Stored(k) \in Nat /\ path(k) \in Paths /\ disk[path(k)] \in Seq(Content)
         /\ Held(k) # 0 => /\ Held(k) \in 1..Len(info) /\ Off(k) \in Int /\ info[Held(k)].pos \in Nat
                           /\ info[Held(k)].path \in Paths
<1>1. path(k) \in Paths
  BY PathsAre
<1>2. disk[path(k)] \in Seq(Content)
  BY <1>1 DEF StateOK
<1>. QED  BY <1>1, <1>2, HeldIsThere, SessionIsThere DEF Stored, Off

LEMMA MovedIs ==
  ASSUME StateOK, NEW s \in Slots
  PROVE  /\ Moved(s) \in Int
         /\ run[s] = Idle => Moved(s) = 0
         /\ run[s] # Idle /\ run[s].step \notin {"failed", "written", "advance"} => Moved(s) = 0
         /\ run[s] # Idle /\ run[s].step = "failed" => Moved(s) = run[s].n
         /\ run[s] # Idle /\ run[s].step \in {"written", "advance"} => Moved(s) = run[s].hi - run[s].lo
<1>1. CASE run[s] = Idle
  BY <1>1 DEF Moved
<1>2. CASE run[s] # Idle
  <2>1. run[s].n \in Int /\ run[s].hi - run[s].lo \in Int
    BY <1>2, AHandlerRuns
  <2>. QED  BY <1>2, <2>1 DEF Moved
<1>. QED  BY <1>1, <1>2

LEMMA MovedIsNext ==
  ASSUME StateOK', NEW s \in Slots
  PROVE  /\ Moved(s)' \in Int
         /\ run'[s] = Idle => Moved(s)' = 0
         /\ run'[s] # Idle /\ run'[s].step \notin {"failed", "written", "advance"} => Moved(s)' = 0
         /\ run'[s] # Idle /\ run'[s].step = "failed" => Moved(s)' = run'[s].n
         /\ run'[s] # Idle /\ run'[s].step \in {"written", "advance"} => Moved(s)' = run'[s].hi - run'[s].lo
<1>1. CASE run'[s] = Idle
  BY <1>1 DEF Moved
<1>2. CASE run'[s] # Idle
  <2>1. run'[s] \in Handling
    BY <1>2 DEF StateOK
  <2>2. run'[s].n \in Int /\ run'[s].hi - run'[s].lo \in Int
    BY <2>1 DEF Handling
  <2>. QED  BY <1>2, <2>2 DEF Moved
<1>. QED  BY <1>1, <1>2

LEMMA DiskNow ==
  ASSUME MemoryInv, PosInv, DiskInv, Undisturbed, NEW s \in Slots, run[s] # Idle, NEW k \in Transfers, k = run[s].k
  PROVE  SessionAt(s, k) /\ DiskAt(s, k) /\ FileOK(k)
<1>1. Steady /\ StateOK
  BY UndisturbedIsSteady DEF MemoryInv, BaseInv
<1>2. DiskOfHandler(s, k) /\ SessionOK(k) /\ FileOK(k)
  BY DEF DiskInv
<1>3. ASSUME Held(k) # 0 PROVE Off(k) = info[Held(k)].pos + Moved(s)
  <2>1. CASE Moved(s) = 0
    <3>1. ASSUME NEW t \in Slots, run[t] # Idle, run[t].k = k, Moved(t) # 0 PROVE FALSE
      <4>1. t = s
        BY <1>1, <3>1, OneHandler DEF MemoryInv
      <4>. QED  BY <2>1, <3>1, <4>1
    <3>2. Off(k) = info[Held(k)].pos /\ info[Held(k)].pos \in Nat
      BY <1>1, <1>2, <1>3, <3>1, SizesAre DEF SessionOK
    <3>. QED  BY <2>1, <3>2
  <2>2. CASE Moved(s) # 0
    BY <1>2, <2>2 DEF DiskOfHandler
  <2>. QED  BY <2>1, <2>2
<1>4. ASSUME Moved(s) # 0 PROVE Held(k) # 0
  <2>1. run[s].step \in {"failed", "written", "advance"} /\ run[s].fn \in Handlers /\ HandlerOK(s)
    BY <1>1, <1>4, MovedIs, AHandlerRuns DEF MemoryInv, BaseInv
  <2>2. run[s].fn = "fileContentRq"
    BY <2>1 DEF HandlerOK, Steps, Handlers
  <2>3. PosOfHandler(s, k)
    BY <1>1 DEF PosInv
  <2>. QED  BY <2>1, <2>2, <2>3 DEF PosOfHandler, Pos
<1>. QED  BY <1>2, <1>3, <1>4 DEF SessionAt, DiskAt, DiskOfHandler, SessionOK

LEMMA CompleteStays ==
  ASSUME StateOK, StateOK', DiskInv, Undisturbed, NEW k \in Transfers, OtherFiles(k), FileOK(k)', Stored(k) <= Stored(k)',
         NEW i \in 1..Len(t_file), t_file[i].state = 1
  PROVE  Len(disk'[t_file[i].path]) = Size
<1>. PICK p \in Paths : p = t_file[i].path
  BY RowIsThere
<1>1. Len(disk[p]) = Size
  BY DEF DiskInv
<1>2. CASE p = path(k)
  <2>1. Stored(k) = Size /\ Stored(k)' <= Size /\ Stored(k)' \in Nat
    <3>1. path(k) \in Paths
      BY PathsAre
    <3>2. Len(disk'[path(k)]) \in Nat
      BY <3>1 DEF StateOK
    <3>3. Stored(k)' = Len(disk'[path(k)])
      BY DEF Stored, path
    <3>. QED  BY <1>1, <1>2, <3>2, <3>3 DEF Stored, FileOK
  <2>2. Stored(k)' = Len(disk'[p])
    BY <1>2 DEF Stored, path
  <2>. QED  BY <2>1, <2>2, UploadAssumption
<1>3. CASE p # path(k)
  <2>1. PICK l \in Transfers : p = path(l)
    BY DEF Paths
  <2>2. disk'[p] = disk[p]
    BY <1>3, <2>1 DEF OtherFiles
  <2>. QED  BY <1>1, <2>2
<1>. QED  BY <1>2, <1>3

(* The handlers, the client, the session and the file of one transfer.      *)
LEMMA DiskMoves ==
  ASSUME MemoryInv, PosInv, DiskInv, Undisturbed, NEW k \in Transfers, Apart(k), StateOK',
         FileOK(k)', SessionOK(k)', client'[k].phase = "new" => Stored(k)' = 0,
         \A t \in Slots : Busy(t, k)' => DiskOfHandler(t, k)',
         \A i \in 1..Len(t_file') : t_file'[i].state = 1 => Len(disk'[t_file'[i].path]) = Size
  PROVE  DiskInv'
<1>1. ASSUME NEW l \in Transfers, l # k
      PROVE  /\ Held(l)' = Held(l) /\ (Held(l) # 0 => info'[Held(l)] = info[Held(l)]) /\ client'[l] = client[l]
             /\ disk'[path(l)] = disk[path(l)] /\ Stored(l)' = Stored(l)
             /\ Held(l) # 0 => Off(l)' = Off(l)
  <2>1. /\ Held(l)' = Held(l) /\ (Held(l) # 0 => info'[Held(l)] = info[Held(l)]) /\ client'[l] = client[l]
        /\ disk'[path(l)] = disk[path(l)]
    BY <1>1 DEF Apart, OtherSessions, OthersClients, OtherFiles
  <2>2. Stored(l)' = Stored(l)
    BY <2>1 DEF Stored, path
  <2>3. Held(l) # 0 => Off(l)' = Off(l)
    BY <2>1 DEF Off
  <2>. QED  BY <2>1, <2>2, <2>3
<1>2. ASSUME NEW l \in Transfers, l # k, NEW t \in Slots, Busy(t, l) \/ Busy(t, l)'
      PROVE  run'[t] = run[t] /\ Moved(t)' = Moved(t) /\ run[t] # Idle /\ run[t].k = l
  BY <1>2 DEF Apart, OtherRequests, Moved, Busy
<1>3. ASSUME NEW l \in Transfers PROVE FileOK(l)'
  <2>1. CASE l # k
    <3>1. FileOK(l)
      BY DEF DiskInv
    <3>. QED  BY <1>1, <2>1, <3>1 DEF FileOK, Stored, path, Byte
  <2>. QED  BY <2>1
<1>4. ASSUME NEW l \in Transfers PROVE SessionOK(l)'
  <2>1. CASE l # k
    <3>1. SessionOK(l)
      BY DEF DiskInv
    <3>2. ASSUME Held(l) # 0
          PROVE  /\ Off(l)' <= Stored(l)'
                 /\ Off(l)' = info'[Held(l)'].pos \/ \E s \in Slots : run'[s] # Idle /\ run'[s].k = l /\ Moved(s)' # 0
      <4>1. Off(l)' <= Stored(l)' /\ info'[Held(l)'].pos = info[Held(l)].pos
        BY <1>1, <2>1, <3>1, <3>2 DEF SessionOK
      <4>2. CASE Off(l) = info[Held(l)].pos
        BY <1>1, <2>1, <3>2, <4>1, <4>2
      <4>3. CASE \E s \in Slots : run[s] # Idle /\ run[s].k = l /\ Moved(s) # 0
        <5>1. PICK s \in Slots : run[s] # Idle /\ run[s].k = l /\ Moved(s) # 0
          BY <4>3
        <5>2. run'[s] = run[s] /\ Moved(s)' = Moved(s)
          BY <1>2, <2>1, <5>1 DEF Busy
        <5>. QED  BY <4>1, <5>1, <5>2
      <4>. QED  BY <3>1, <3>2, <4>2, <4>3 DEF SessionOK
    <3>3. Held(l)' # 0 => Held(l) # 0
      BY <1>1, <2>1
    <3>. QED  BY <3>2, <3>3 DEF SessionOK
  <2>. QED  BY <2>1
<1>5. ASSUME NEW l \in Transfers, client'[l].phase = "new" PROVE Stored(l)' = 0
  BY <1>1, <1>5 DEF DiskInv
<1>6. ASSUME NEW t \in Slots, NEW l \in Transfers, Busy(t, l)' PROVE DiskOfHandler(t, l)'
  <2>1. CASE l = k
    BY <1>6, <2>1
  <2>2. CASE l # k
    <3>1. run'[t] = run[t] /\ Moved(t)' = Moved(t) /\ run[t] # Idle /\ run[t].k = l
      BY <1>2, <1>6, <2>2
    <3>2. DiskOfHandler(t, l)
      BY <3>1 DEF DiskInv
    <3>3. Moved(t) # 0 => (Off(l) = info[Held(l)].pos + Moved(t))'
      <4>1. CASE Held(l) # 0
        BY <1>1, <2>2, <3>1, <3>2, <4>1 DEF DiskOfHandler
      <4>2. ASSUME Held(l) = 0, Moved(t) # 0 PROVE FALSE
        <5>1. HandlerOK(t) /\ StateOK /\ run[t].fn \in Handlers
          BY <3>1, AHandlerRuns DEF MemoryInv, BaseInv
        <5>2. run[t].step \in {"failed", "written", "advance"}
          BY <3>1, <4>2, <5>1, MovedIs
        <5>3. run[t].fn = "fileContentRq"
          BY <5>1, <5>2 DEF HandlerOK, Steps, Handlers
        <5>4. Held(l) = run[t].obj /\ run[t].obj # 0
          BY <3>1, <5>1, <5>2, <5>3, UndisturbedIsSteady DEF PosInv, PosOfHandler, HandlerOK
        <5>. QED  BY <4>2, <5>4
      <4>. QED  BY <4>1, <4>2
    <3>. QED  BY <1>1, <2>2, <3>1, <3>2, <3>3 DEF DiskOfHandler
  <2>. QED  BY <2>1, <2>2
<1>7. ASSUME NEW t \in Slots, run'[t] # Idle PROVE DiskOfHandler(t, run[t].k)'
  <2>1. PICK l \in Transfers : l = run'[t].k
    BY <1>7 DEF StateOK, Handling
  <2>2. DiskOfHandler(t, l)'
    BY <1>6, <1>7, <2>1 DEF Busy
  <2>. QED  BY <2>1, <2>2 DEF DiskOfHandler, Stored, Off, Held, path
<1>. QED  BY <1>3, <1>4, <1>5, <1>7 DEF DiskInv

(* The only handler of a transfer goes on or ends.                          *)
LEMMA DiskGoes ==
  ASSUME MemoryInv, DiskInv, PosInv, Undisturbed, NEW s \in Slots, run[s] # Idle, NEW k \in Transfers, k = run[s].k,
         Apart(k), StateOK', OthersRun(s), run'[s] = Idle \/ run'[s].k = k, client'[k].phase # "new",
         FileOK(k)', SessionAt(s, k)', run'[s] = Idle \/ DiskAt(s, k)',
         \A i \in 1..Len(t_file') : t_file'[i].state = 1 => Len(disk'[t_file'[i].path]) = Size
  PROVE  DiskInv'
<1>1. Steady /\ StateOK
  BY UndisturbedIsSteady DEF MemoryInv, BaseInv
<1>2. ASSUME NEW t \in Slots, Busy(t, k)' PROVE t = s
  BY <1>1, <1>2, NoOtherHandler
<1>3. SessionOK(k)'
  <2>1. ASSUME Held(k)' # 0
        PROVE  /\ Off(k)' <= Stored(k)'
               /\ Off(k)' = info'[Held(k)'].pos \/ (run'[s] # Idle /\ run'[s].k = k /\ Moved(s)' # 0)
    <3>1. Off(k)' <= Stored(k)' /\ Off(k)' = info'[Held(k)'].pos + Moved(s)'
      BY <2>1 DEF SessionAt
    <3>2. CASE Moved(s)' = 0
      <4>1. info'[Held(k)'].pos \in Nat
        <5>1. Held(k)' \in 1..Len(info')
          BY <2>1, KeysAre DEF StateOK, Held
        <5>2. info'[Held(k)'] \in Session
          BY <5>1 DEF StateOK
        <5>. QED  BY <5>2 DEF Session
      <4>. QED  BY <3>1, <3>2, <4>1
    <3>3. CASE Moved(s)' # 0
      BY <3>1, <3>3, MovedIsNext
    <3>. QED  BY <3>2, <3>3
  <2>. QED  BY <2>1 DEF SessionOK
<1>4. ASSUME NEW t \in Slots, Busy(t, k)' PROVE DiskOfHandler(t, k)'
  <2>1. t = s /\ run'[s] # Idle
    BY <1>2, <1>4 DEF Busy
  <2>2. DiskAt(s, k)' /\ SessionAt(s, k)'
    BY <2>1
  <2>. QED  BY <2>1, <2>2 DEF DiskAt, SessionAt, DiskOfHandler
<1>. QED  BY <1>3, <1>4, DiskMoves

-----------------------------------------------------------------------------
(* No row becomes complete.                                                 *)
NoneCompletes ==
  \A i \in 1..Len(t_file') :
    t_file'[i].state = 1 => i \in 1..Len(t_file) /\ t_file[i].state = 1 /\ t_file'[i].path = t_file[i].path

LEMMA SameTables == UNCHANGED t_file => NoneCompletes
BY DEF NoneCompletes

LEMMA SameFile ==
  ASSUME UNCHANGED disk, NEW k \in Transfers
  PROVE  Stored(k)' = Stored(k) /\ (FileOK(k) => FileOK(k)')
BY DEF Stored, FileOK, path, Byte

LEMMA SessionBecomes ==
  ASSUME NEW s \in Slots, NEW k \in Transfers, NEW h, NEW m, Held(k)' = h, Moved(s)' = m,
         h # 0 => info'[h].off <= Stored(k)' /\ info'[h].off = info'[h].pos + m,
         m # 0 => h # 0
  PROVE  SessionAt(s, k)'
BY DEF SessionAt, Off

LEMMA DiskHandles ==
  ASSUME Separate, MemoryInv, PosInv, DiskInv, Undisturbed, StateOK', NEW s \in Slots, NEW k \in Transfers, k = run[s].k,
         uploadFile(s) \/ fileContentRq(s) \/ continueUpload(s),
         FileOK(k)', SessionAt(s, k)', run'[s] = Idle \/ DiskAt(s, k)',
         \A i \in 1..Len(t_file') : t_file'[i].state = 1 => Len(disk'[t_file'[i].path]) = Size
  PROVE  DiskInv'
<1>1. BaseInv /\ OwnInv /\ Steady
  BY UndisturbedIsSteady DEF MemoryInv
<1>2. run[s] # Idle /\ OthersRun(s) /\ UNCHANGED client /\ (run'[s] = Idle \/ run'[s].k = k)
  BY <1>1, HandlerMoves DEF SameRequest
<1>3. Apart(k)
  BY <1>1, HandlerApart
<1>4. client'[k].phase # "new"
  BY <1>1, <1>2, ClientWaits
<1>. QED  BY <1>2, <1>3, <1>4, DiskGoes

LEMMA DiskStays ==
  ASSUME Separate, MemoryInv, PosInv, DiskInv, Undisturbed, StateOK', NEW s \in Slots, NEW k \in Transfers, k = run[s].k,
         uploadFile(s) \/ fileContentRq(s) \/ continueUpload(s),
         UNCHANGED disk, NoneCompletes, SessionAt(s, k)', run'[s] = Idle \/ DiskAt(s, k)'
  PROVE  DiskInv'
<1>1. FileOK(k)'
  BY SameFile DEF DiskInv
<1>2. \A i \in 1..Len(t_file') : t_file'[i].state = 1 => Len(disk'[t_file'[i].path]) = Size
  BY DEF NoneCompletes, DiskInv
<1>. QED  BY <1>1, <1>2, DiskHandles

LEMMA DiskUpload ==
  ASSUME Separate, MemoryInv, PosInv, DiskInv, Undisturbed, StateOK', NEW s \in Slots, uploadFile(s)
  PROVE  DiskInv'
<1>1. StateOK /\ BaseInv /\ Steady
  BY UndisturbedIsSteady DEF MemoryInv, BaseInv
<1>2. run[s] # Idle /\ run[s].fn = "uploadFile"
  BY <1>1, HandlerMoves, QuickDoes, QuickInsertDoes, OpenDoes, InsertFileDoes, SelectIdDoes, InsertRelDoes DEF uploadFile, Runs
<1>. PICK k \in Transfers : k = run[s].k
  BY <1>1, <1>2, AHandlerRuns
<1>3. SessionAt(s, k) /\ DiskAt(s, k) /\ FileOK(k) /\ PosOfHandler(s, k) /\ HandlerOK(s)
  BY <1>1, <1>2, DiskNow DEF PosInv, BaseInv
<1>4. Moved(s) = 0 /\ Stored(k) = 0
  <2>1. run[s].step \notin {"failed", "written", "advance"}
    BY <1>2, <1>3 DEF HandlerOK, Steps
  <2>. QED  BY <1>1, <1>2, <1>3, <2>1, MovedIs DEF DiskAt
<1>5. ASSUME run'[s] # Idle, run'[s].fn = "uploadFile", run'[s].step \in Steps("uploadFile"), Stored(k)' = 0
      PROVE  Moved(s)' = 0 /\ DiskAt(s, k)'
  <2>1. run'[s].step \notin {"failed", "written", "advance", "update", "close"}
    BY <1>5 DEF Steps
  <2>. QED  BY <1>5, <2>1, MovedIsNext DEF DiskAt
<1>6. ASSUME UNCHANGED disk, NoneCompletes, run'[s] # Idle, run'[s].fn = "uploadFile",
             run'[s].step \in Steps("uploadFile"), Held(k)' = Held(k),
             Held(k) # 0 => info'[Held(k)].pos = info[Held(k)].pos /\ info'[Held(k)].off = info[Held(k)].off
      PROVE  DiskInv'
  <2>1. Stored(k)' = 0
    BY <1>4, <1>6, SameFile
  <2>2. Moved(s)' = 0 /\ DiskAt(s, k)'
    BY <1>5, <1>6, <2>1
  <2>3. Held(k) # 0 => info[Held(k)].off <= 0 /\ info[Held(k)].off = info[Held(k)].pos + 0
    BY <1>3, <1>4 DEF SessionAt, Off
  <2>4. SessionAt(s, k)'
    BY <1>6, <2>1, <2>2, <2>3, SessionBecomes
  <2>. QED  BY <1>6, <2>2, <2>4, DiskStays
<1>7. CASE uploadFile_quick(s) \/ uploadFile_quickInsert(s) \/ uploadFile_insertRel(s)
  <2>1. /\ UNCHANGED <<disk, t_file, info, m_mapTimstampToFileinfo>> /\ run'[s] \in Handling /\ run'[s].fn = "uploadFile"
        /\ run'[s].step \in {"open", "quick", "replyQuick", "reply"}
    BY <1>1, <1>7, QuickDoes, QuickInsertDoes, InsertRelDoes DEF Runs, GoesOn, SameDb, SameMemory, Relates
  <2>2. run'[s] # Idle /\ run'[s].step \in Steps("uploadFile")
    BY <2>1, HandlingIsNotIdle DEF Steps
  <2>. QED  BY <1>6, <2>1, <2>2, SameTables DEF Held
<1>8. CASE uploadFile_insertFile(s)
  <2>. PICK new \in Nat : new = Len(t_file) + 1
    BY <1>1 DEF StateOK
  <2>1. /\ SameMemory /\ UNCHANGED disk /\ run'[s] \in Handling /\ run'[s].fn = "uploadFile"
        /\ run'[s].step = "selectId" /\ Len(t_file') = new /\ \A i \in 1..Len(t_file) : t_file'[i] = t_file[i]
        /\ t_file'[new] = [md5 |-> md5[k], path |-> path(k), state |-> 0]
    BY <1>1, <1>8, InsertFileDoes DEF Runs, GoesOn
  <2>2. run'[s] # Idle /\ run'[s].step \in Steps("uploadFile")
    BY <2>1, HandlingIsNotIdle DEF Steps
  <2>3. NoneCompletes
    <3>1. ASSUME NEW i \in 1..new, t_file'[i].state = 1 PROVE i \in 1..Len(t_file)
      <4>1. t_file'[new].state = 0
        BY <2>1
      <4>2. i # new
        BY <3>1, <4>1
      <4>. QED  BY <1>1, <4>2 DEF StateOK
    <3>. QED  BY <2>1, <3>1 DEF NoneCompletes
  <2>. QED  BY <1>6, <2>1, <2>2, <2>3 DEF Held, SameMemory
<1>9. CASE uploadFile_selectId(s)
  <2>1. /\ UNCHANGED <<disk, t_file, m_mapTimstampToFileinfo>> /\ run'[s] \in Handling /\ run'[s].fn = "uploadFile"
        /\ run'[s].step = "insertRel" /\ run[s].step = "selectId"
        /\ info'[run[s].obj].pos = info[run[s].obj].pos /\ info'[run[s].obj].off = info[run[s].obj].off
    BY <1>1, <1>9, SelectIdDoes DEF Runs, GoesOn, SameDb
  <2>2. run'[s] # Idle /\ run'[s].step \in Steps("uploadFile")
    BY <2>1, HandlingIsNotIdle DEF Steps
  <2>3. Held(k) = run[s].obj
    BY <1>2, <1>3, <2>1 DEF PosOfHandler, Before
  <2>. QED  BY <1>6, <2>1, <2>2, <2>3, SameTables DEF Held
<1>10. CASE uploadFile_open(s)
  <2>. PICK new \in Nat : new = Len(info) + 1
    BY <1>1 DEF StateOK
  <2>1. /\ SameDb /\ Opened(k, path(k), 0) /\ disk' = [disk EXCEPT ![path(k)] = <<>>]
        /\ run'[s] \in Handling /\ run'[s].fn = "uploadFile" /\ run'[s].step = "insertFile"
    BY <1>1, <1>10, OpenDoes DEF Runs, GoesOn
  <2>2. run'[s] # Idle /\ run'[s].step \in Steps("uploadFile")
    BY <2>1, HandlingIsNotIdle DEF Steps
  <2>3. Held(k)' = new /\ info'[new] = FileInfo(path(k), 0)
    BY <1>1, <2>1, OpenedFor DEF Separate
  <2>4. path(k) \in Paths /\ disk'[path(k)] = <<>>
    BY <1>1, <2>1, PathsAre DEF StateOK
  <2>5. Stored(k)' = 0 /\ FileOK(k)'
    <3>1. Stored(k)' = 0
      BY <2>4 DEF Stored, path
    <3>. QED  BY <3>1, UploadAssumption DEF FileOK
  <2>6. Moved(s)' = 0 /\ DiskAt(s, k)'
    BY <1>5, <2>1, <2>2, <2>5
  <2>7. info'[new].off = 0 /\ info'[new].pos = 0
    BY <2>3 DEF FileInfo
  <2>8. SessionAt(s, k)'
    BY <2>3, <2>5, <2>6, <2>7, SessionBecomes
  <2>9. OtherFiles(k)
    BY <1>1, <1>2, HandlerApart DEF Apart, MemoryInv
  <2>10. ASSUME NEW i \in 1..Len(t_file'), t_file'[i].state = 1 PROVE Len(disk'[t_file'[i].path]) = Size
    <3>1. i \in 1..Len(t_file) /\ t_file[i].state = 1 /\ t_file'[i] = t_file[i]
      BY <2>1, <2>10 DEF SameDb
    <3>2. Stored(k) <= Stored(k)'
      BY <1>4, <2>5
    <3>. QED  BY <1>1, <2>5, <2>9, <3>1, <3>2, CompleteStays
  <2>. QED  BY <2>5, <2>6, <2>8, <2>10, DiskHandles
<1>. QED  BY <1>7, <1>8, <1>9, <1>10 DEF uploadFile

(* The session that a handler of fileContentRq works on, between its calls. *)
LEMMA WriterIs ==
  ASSUME MemoryInv, PosInv, DiskInv, Undisturbed, NEW s \in Slots, run[s] # Idle, NEW k \in Transfers, k = run[s].k,
         run[s].fn = "fileContentRq"
  PROVE  /\ run[s].hi = BlockEnd(run[s].lo) /\ run[s].hi <= Size /\ run[s].lo \in Nat /\ run[s].hi \in Nat
         /\ SessionAt(s, k) /\ FileOK(k) /\ Stored(k) \in Nat
         /\ run[s].step \in {"write", "failed", "written", "advance", "update", "close"} =>
              /\ Held(k) = run[s].obj /\ Held(k) \in 1..Len(info) /\ Held(k) # 0 /\ run[s].lo < run[s].hi
              /\ info[Held(k)].alive /\ info[Held(k)].path = path(k)
              /\ info[Held(k)].pos \in Nat /\ info[Held(k)].off \in Int
              /\ info[Held(k)].off <= Stored(k)
              /\ info[Held(k)].off = info[Held(k)].pos + Moved(s)
         /\ run[s].step \in {"write", "failed", "written", "advance"} => info[Held(k)].pos = run[s].lo
         /\ run[s].step \in {"update", "close"} => /\ info[Held(k)].pos = run[s].hi /\ run[s].hi >= Size /\ run[s].n = 1
                                                   /\ run[s].hi <= Stored(k)
         /\ run[s].step = "failed" => run[s].n \in 1..(run[s].hi - run[s].lo - 1)
         /\ run[s].step = "written" => run[s].n = run[s].hi - run[s].lo
         /\ run[s].step = "advance" => run[s].n = run[s].hi
<1>1. StateOK /\ BaseInv /\ Steady
  BY UndisturbedIsSteady DEF MemoryInv, BaseInv
<1>2. SessionAt(s, k) /\ DiskAt(s, k) /\ FileOK(k) /\ PosOfHandler(s, k) /\ HandlerOK(s)
  BY <1>1, DiskNow DEF PosInv, BaseInv
<1>3. run[s].hi = BlockEnd(run[s].lo) /\ run[s].lo \in Nat /\ run[s].hi \in Nat
  BY <1>1, <1>2, AHandlerRuns DEF PosOfHandler
<1>4. run[s].hi <= Size /\ Stored(k) \in Nat
  BY <1>1, <1>3, BlockEndIs, SizesAre
<1>5. ASSUME run[s].step \in {"write", "failed", "written", "advance", "update", "close"}
      PROVE  /\ Held(k) = run[s].obj /\ Held(k) \in 1..Len(info) /\ Held(k) # 0 /\ run[s].lo < run[s].hi
             /\ info[Held(k)].alive /\ info[Held(k)].path = path(k)
             /\ info[Held(k)].pos \in Nat /\ info[Held(k)].off \in Int
             /\ info[Held(k)].off <= Stored(k)
             /\ info[Held(k)].off = info[Held(k)].pos + Moved(s)
  <2>1. Held(k) = run[s].obj
    BY <1>2, <1>5 DEF PosOfHandler
  <2>2. run[s].obj # 0 /\ run[s].lo < run[s].hi
    BY <1>2, <1>5 DEF HandlerOK
  <2>3. Held(k) \in 1..Len(info) /\ info[Held(k)].pos \in Nat /\ info[Held(k)].off \in Int
    BY <1>1, <2>1, <2>2, SizesAre DEF Off
  <2>4. info[Held(k)].alive /\ info[Held(k)].path = path(k)
    BY <2>1, <2>2 DEF MemoryInv, OpenInv, OwnInv
  <2>. QED  BY <1>2, <2>1, <2>2, <2>3, <2>4 DEF SessionAt, Off
<1>6. run[s].step \in {"write", "failed", "written", "advance"} => info[Held(k)].pos = run[s].lo
  BY <1>2 DEF PosOfHandler, Pos
<1>7. run[s].step \in {"update", "close"} => /\ info[Held(k)].pos = run[s].hi /\ run[s].hi >= Size /\ run[s].n = 1
                                             /\ run[s].hi <= Stored(k)
  BY <1>2 DEF PosOfHandler, Pos, DiskAt
<1>8. run[s].step = "failed" => run[s].n \in 1..(run[s].hi - run[s].lo - 1)
  BY <1>2 DEF DiskAt
<1>9. /\ run[s].step = "written" => run[s].n = run[s].hi - run[s].lo
      /\ run[s].step = "advance" => run[s].n = run[s].hi
  BY <1>2 DEF PosOfHandler
<1>. QED  BY <1>2, <1>3, <1>4, <1>5, <1>6, <1>7, <1>8, <1>9

(* A block that begins where the bytes of the file end, or before, leaves   *)
(* no hole and nothing else than the file.                                  *)
LEMMA StoresPrefix ==
  ASSUME NEW k \in Transfers, FileOK(k), Stored(k) \in Nat, NEW lo \in Nat, NEW n \in Nat, lo <= Stored(k), lo + n <= Size,
         Stores(path(k), lo, k, lo, n)
  PROVE  /\ FileOK(k)' /\ Stored(k)' = Longer(Stored(k), lo + n)
         /\ Stored(k)' \in Nat /\ Stored(k) <= Stored(k)' /\ lo + n <= Stored(k)'
<1>. PICK st \in Nat, new \in Nat : st = Stored(k) /\ new = Longer(st, lo + n)
  BY DEF Longer
<1>1. new <= Size /\ st <= new /\ lo + n <= new /\ lo <= st /\ (new = st \/ new = lo + n)
  BY UploadAssumption DEF Longer, FileOK
<1>2. Stored(k)' = new
  BY DEF Stores, Stored, path
<1>3. ASSUME NEW i \in 1..new PROVE disk'[path(k)][i] = Byte(md5[k], i)
  <2>1. disk'[path(k)][i] = IF lo < i /\ i <= lo + n THEN Byte(md5[k], lo + (i - lo))
                            ELSE IF i <= st THEN disk[path(k)][i] ELSE Hole
    BY DEF Stores, Stored
  <2>2. lo + (i - lo) = i /\ i \in Nat
    OBVIOUS
  <2>3. ~(lo < i /\ i <= lo + n) => i \in 1..st
    BY <1>1
  <2>4. i \in 1..st => disk[path(k)][i] = Byte(md5[k], i) /\ i <= st
    BY DEF FileOK
  <2>. QED  BY <2>1, <2>2, <2>3, <2>4
<1>4. FileOK(k)'
  BY <1>1, <1>2, <1>3 DEF FileOK, path, Byte
<1>. QED  BY <1>1, <1>2, <1>4

LEMMA PartOfBlock ==
  \A lo \in Nat, hi \in Nat, end \in Nat : \A n \in 1..(hi - lo) :
    hi <= end => n \in Nat /\ lo + n <= hi /\ lo + n <= end
<1>. SUFFICES ASSUME NEW lo \in Nat, NEW hi \in Nat, NEW n \in 1..(hi - lo), NEW end \in Nat, hi <= end
              PROVE  n \in Nat /\ lo + n <= hi /\ lo + n <= end
  OBVIOUS
<1>. DEFINE d == hi - lo
<1>1. d \in Int /\ lo + d = hi
  OBVIOUS
<1>2. n \in Nat /\ n <= d
  BY <1>1
<1>. HIDE DEF d
<1>. QED  BY <1>1, <1>2

LEMMA DiskWrite ==
  ASSUME Separate, MemoryInv, PosInv, DiskInv, Undisturbed, Undisturbed', StateOK', NEW s \in Slots, fileContentRq_write(s)
  PROVE  DiskInv'
<1>1. StateOK /\ BaseInv /\ OwnInv
  BY DEF MemoryInv, BaseInv
<1>2. run[s] # Idle /\ run[s].fn = "fileContentRq" /\ run[s].step = "write"
  BY <1>1, WriteDoes, HandlingIsNotIdle DEF Runs
<1>. PICK k \in Transfers, lo \in Nat, hi \in Nat, st \in Nat :
        k = run[s].k /\ lo = run[s].lo /\ hi = run[s].hi /\ st = Stored(k)
  BY <1>1, <1>2, AHandlerRuns, WriterIs
<1>. PICK h : h = Held(k)
  OBVIOUS
<1>3. /\ h = run[s].obj /\ h # 0 /\ hi <= Size /\ lo < hi /\ info[h].alive /\ info[h].path = path(k) /\ info[h].pos = lo
      /\ info[h].off = lo /\ lo <= st /\ FileOK(k)
  <2>1. Moved(s) = 0
    BY <1>1, <1>2, MovedIs
  <2>. QED  BY <1>2, <2>1, WriterIs
<1>4. /\ run'[s].n \in 1..(hi - lo) /\ Stores(path(k), lo, k, lo, run'[s].n)
      /\ info'[h].off = lo + run'[s].n /\ info'[h].pos = lo
      /\ \/ run'[s].n = hi - lo /\ GoesOn(s, "written")
         \/ run'[s].n < hi - lo /\ GoesOn(s, "failed")
      /\ UNCHANGED <<t_file, m_mapTimstampToFileinfo>>
  <2>1. ~Fault("write")
    BY <1>1, FaultDoes DEF Undisturbed
  <2>. QED  BY <1>1, <1>3, <2>1, WriteDoes DEF len, SameDb
<1>. PICK n \in 1..(hi - lo) : n = run'[s].n
  BY <1>4
<1>5. n \in Nat /\ lo + n <= Size /\ lo + n <= hi
  <2>1. Size \in Nat /\ hi <= Size
    BY <1>3, UploadAssumption
  <2>2. n \in 1..(hi - lo) /\ lo \in Nat /\ hi \in Nat
    OBVIOUS
  <2>. QED  BY <2>1, <2>2, PartOfBlock, Zenon
<1>6. FileOK(k)' /\ Stored(k)' \in Nat /\ st <= Stored(k)' /\ lo + n <= Stored(k)'
  BY <1>1, <1>3, <1>4, <1>5, StoresPrefix
<1>7. run'[s] # Idle /\ run'[s].fn = "fileContentRq" /\ run'[s].lo = lo /\ run'[s].hi = hi
      /\ run'[s].step \in {"written", "failed"}
      /\ (run'[s].step = "written" => n = hi - lo) /\ (run'[s].step = "failed" => n < hi - lo)
  BY <1>2, <1>4, HandlingIsNotIdle DEF GoesOn
<1>8. Moved(s)' = n
  BY <1>7, MovedIsNext
<1>9. SessionAt(s, k)'
  <2>1. Held(k)' = h /\ h # 0
    BY <1>3, <1>4 DEF Held
  <2>. QED  BY <1>4, <1>6, <1>8, <2>1, SessionBecomes
<1>10. DiskAt(s, k)'
  <2>1. run'[s].step = "failed" => run'[s].n \in 1..(run'[s].hi - run'[s].lo - 1)
    BY <1>5, <1>7
  <2>. QED  BY <1>7, <2>1 DEF DiskAt
<1>11. OtherFiles(k)
  BY <1>1, HandlerApart DEF Apart, fileContentRq
<1>12. ASSUME NEW i \in 1..Len(t_file'), t_file'[i].state = 1 PROVE Len(disk'[t_file'[i].path]) = Size
  <2>1. i \in 1..Len(t_file) /\ t_file[i].state = 1 /\ t_file'[i] = t_file[i]
    BY <1>4, <1>12
  <2>. QED  BY <1>1, <1>6, <1>11, <2>1, CompleteStays
<1>. QED  BY <1>6, <1>9, <1>10, <1>12, DiskHandles DEF fileContentRq

LEMMA WriteStores ==
  ASSUME MemoryInv, PosInv, DiskInv, Undisturbed, Undisturbed', NEW s \in Slots, fileContentRq_write(s),
         NEW k \in Transfers, k = run[s].k
  PROVE  Stored(k) <= Stored(k)'
<1>1. StateOK /\ BaseInv
  BY DEF MemoryInv, BaseInv
<1>2. run[s] # Idle /\ run[s].fn = "fileContentRq" /\ run[s].step = "write"
  BY <1>1, WriteDoes, HandlingIsNotIdle DEF Runs
<1>3. info[run[s].obj].path = path(k) /\ info[run[s].obj].alive /\ Stored(k) \in Nat
  BY <1>2, WriterIs
<1>4. ~Fault("write")
  BY <1>1, FaultDoes DEF Undisturbed
<1>5. Stores(path(k), info[run[s].obj].off, k, run[s].lo, run'[s].n)
  BY <1>1, <1>3, <1>4, WriteDoes
<1>6. info[run[s].obj].off \in Int /\ run'[s].n \in Nat
  <2>1. run[s].obj \in 1..Len(info) /\ len(s) \in Nat /\ run'[s].n \in 1..len(s)
    BY <1>1, <1>3, <1>4, WriteDoes
  <2>. QED  BY <1>1, <2>1, SessionIsThere
<1>. PICK off \in Int, n \in Nat, st \in Nat : off = info[run[s].obj].off /\ n = run'[s].n /\ st = Stored(k)
  BY <1>3, <1>6
<1>7. Stored(k)' = Longer(st, off + n)
  BY <1>5 DEF Stores, Stored, path
<1>. QED  BY <1>7 DEF Longer

LEMMA DiskContent ==
  ASSUME Separate, MemoryInv, PosInv, DiskInv, Undisturbed, Undisturbed', StateOK', NEW s \in Slots, fileContentRq(s)
  PROVE  DiskInv'
<1>1. StateOK /\ BaseInv /\ OwnInv
  BY DEF MemoryInv, BaseInv
<1>2. run[s] # Idle /\ run[s].fn = "fileContentRq"
  BY <1>1, HandlerMoves, FindDoes, WriteDoes, FailedDoes, ReadDoes, AdvanceDoes, UpdateDoes, CloseDoes DEF fileContentRq, Runs
<1>. PICK k \in Transfers, lo \in Nat, hi \in Nat, n \in Int, st \in Nat :
        k = run[s].k /\ lo = run[s].lo /\ hi = run[s].hi /\ n = run[s].n /\ st = Stored(k)
  BY <1>1, <1>2, AHandlerRuns, WriterIs
<1>. PICK h : h = Held(k)
  OBVIOUS
<1>3. ASSUME UNCHANGED disk, NoneCompletes, run'[s] # Idle, run'[s].fn = "fileContentRq",
             run'[s].lo = lo, run'[s].hi = hi, run'[s].step # "failed",
             run'[s].step \in {"update", "close", "reply"} /\ run'[s].n = 1 => hi <= st,
             NEW m, Moved(s)' = m, NEW g, Held(k)' = g,
             g # 0 => info'[g].off <= st /\ info'[g].off = info'[g].pos + m,
             m # 0 => g # 0
      PROVE  DiskInv'
  <2>1. Stored(k)' = st
    BY <1>3, SameFile
  <2>2. DiskAt(s, k)'
    BY <1>3, <2>1 DEF DiskAt
  <2>3. SessionAt(s, k)'
    BY <1>3, <2>1, SessionBecomes
  <2>. QED  BY <1>3, <2>2, <2>3, DiskStays
<1>4. CASE fileContentRq_find(s)
  <2>1. Runs(s, "fileContentRq", "start") /\ SameMemory /\ UNCHANGED <<disk, t_file>> /\ (Ends(s) \/ GoesOn(s, "write"))
    BY <1>1, <1>4, FindDoes DEF SameDb
  <2>2. Moved(s) = 0 /\ Moved(s)' = 0
    <3>1. Moved(s) = 0
      BY <1>1, <1>2, <2>1, MovedIs DEF Runs
    <3>2. run'[s] = Idle \/ run'[s].step = "write"
      BY <2>1 DEF Ends, GoesOn
    <3>. QED  BY <3>1, <3>2, MovedIsNext
  <2>3. h # 0 => info[h].off <= st /\ info[h].off = info[h].pos + 0
    BY <1>2, <2>2, WriterIs DEF SessionAt, Off
  <2>4. Held(k)' = h /\ info' = info
    BY <2>1 DEF Held, SameMemory
  <2>5. CASE Ends(s)
    <3>1. SessionAt(s, k)'
      <4>1. Stored(k)' = st
        BY <2>1, SameFile
      <4>. QED  BY <2>2, <2>3, <2>4, <4>1, SessionBecomes
    <3>. QED  BY <1>4, <2>1, <2>5, <3>1, DiskStays, SameTables DEF Ends, fileContentRq
  <2>6. CASE GoesOn(s, "write")
    <3>1. /\ run'[s] # Idle /\ run'[s].fn = "fileContentRq" /\ run'[s].lo = lo /\ run'[s].hi = hi
          /\ run'[s].step = "write"
      BY <1>2, <2>6, HandlingIsNotIdle DEF GoesOn
    <3>. QED  BY <1>3, <2>1, <2>2, <2>3, <2>4, <3>1, SameTables
  <2>. QED  BY <2>1, <2>5, <2>6
<1>5. CASE fileContentRq_write(s)
  BY <1>5, DiskWrite
<1>6. ASSUME run[s].step \in {"failed", "written", "advance", "update", "close"}
      PROVE  h = run[s].obj /\ h \in 1..Len(info) /\ h # 0 /\ info[h].off <= st /\ info[h].off = info[h].pos + Moved(s)
             /\ info[h].off \in Int /\ info[h].pos \in Nat
  BY <1>2, <1>6, WriterIs
<1>7. CASE fileContentRq_failed(s)
  <2>1. /\ run[s].step = "failed" /\ UNCHANGED <<m_mapTimstampToFileinfo, disk, t_file>>
        /\ info'[run[s].obj].off = info[run[s].obj].off - n /\ info'[run[s].obj].pos = info[run[s].obj].pos
        /\ GoesOn(s, "reply") /\ run'[s].n = 0
    BY <1>1, <1>7, FailedDoes DEF Runs, SameDb
  <2>2. /\ run'[s] # Idle /\ run'[s].fn = "fileContentRq" /\ run'[s].lo = lo /\ run'[s].hi = hi
        /\ run'[s].step = "reply"
    BY <1>2, <2>1, HandlingIsNotIdle DEF GoesOn
  <2>3. Moved(s) = n /\ Moved(s)' = 0 /\ n \in 1..(hi - lo - 1)
    BY <1>1, <1>2, <2>1, <2>2, MovedIs, MovedIsNext, WriterIs
  <2>4. info'[h].off <= st /\ info'[h].off = info'[h].pos + 0
    <3>1. info'[h].off = info[h].off - n /\ info'[h].pos = info[h].pos
      BY <1>6, <2>1
    <3>2. n \in Nat
      BY <2>3
    <3>3. run[s].step = "failed"
      BY <2>1
    <3>4. info[h].off = info[h].pos + n /\ info[h].off <= st /\ info[h].off \in Int /\ info[h].pos \in Nat
      BY <1>6, <2>3, <3>3
    <3>. QED  BY <3>1, <3>2, <3>4
  <2>5. Held(k)' = h
    BY <2>1 DEF Held
  <2>. QED  BY <1>3, <2>1, <2>2, <2>3, <2>4, <2>5, SameTables
<1>8. CASE fileContentRq_read(s)
  <2>1. run[s].step = "written" /\ SameMemory /\ UNCHANGED <<disk, t_file>> /\ GoesOn(s, "advance")
    BY <1>1, <1>8, ReadDoes DEF Runs, SameDb
  <2>2. /\ run'[s] # Idle /\ run'[s].fn = "fileContentRq" /\ run'[s].lo = lo /\ run'[s].hi = hi
        /\ run'[s].step = "advance"
    BY <1>2, <2>1, HandlingIsNotIdle DEF GoesOn
  <2>3. Moved(s) = hi - lo /\ Moved(s)' = hi - lo
    BY <1>1, <1>2, <2>1, <2>2, MovedIs, MovedIsNext
  <2>4. Held(k)' = h /\ info' = info
    BY <2>1 DEF Held, SameMemory
  <2>5. h # 0 /\ info'[h].off <= st /\ info'[h].off = info'[h].pos + (hi - lo)
    BY <1>6, <2>1, <2>3, <2>4
  <2>. QED  BY <1>3, <2>1, <2>2, <2>3, <2>4, <2>5, SameTables
<1>9. CASE fileContentRq_advance(s)
  <2>1. /\ run[s].step = "advance" /\ UNCHANGED <<m_mapTimstampToFileinfo, disk, t_file>>
        /\ info'[run[s].obj].off = info[run[s].obj].off /\ info'[run[s].obj].pos = n
        /\ run'[s].n = 1 /\ (GoesOn(s, "update") \/ GoesOn(s, "reply"))
    BY <1>1, <1>9, AdvanceDoes DEF Runs, SameDb
  <2>2. /\ run'[s] # Idle /\ run'[s].fn = "fileContentRq" /\ run'[s].lo = lo /\ run'[s].hi = hi
        /\ run'[s].step \in {"update", "reply"}
    BY <1>2, <2>1, HandlingIsNotIdle DEF GoesOn
  <2>3. Moved(s) = hi - lo /\ Moved(s)' = 0
    BY <1>1, <1>2, <2>1, <2>2, MovedIs, MovedIsNext
  <2>4. Held(k)' = h
    BY <2>1 DEF Held
  <2>5. n = hi /\ info[h].pos = lo
    BY <1>2, <2>1, WriterIs
  <2>6. info[h].off = hi /\ hi <= st
    BY <1>6, <2>1, <2>3, <2>5
  <2>7. info'[h].off <= st /\ info'[h].off = info'[h].pos + 0
    BY <1>6, <2>1, <2>5, <2>6
  <2>. QED  BY <1>3, <2>1, <2>2, <2>3, <2>4, <2>6, <2>7, SameTables
<1>10. CASE fileContentRq_close(s)
  <2>1. /\ run[s].step = "close" /\ UNCHANGED <<disk, t_file>>
        /\ m_mapTimstampToFileinfo' = [m_mapTimstampToFileinfo EXCEPT ![user_time[k]] = 0]
        /\ GoesOn(s, "reply")
    BY <1>1, <1>10, CloseDoes DEF Runs, SameDb
  <2>2. /\ run'[s] # Idle /\ run'[s].fn = "fileContentRq" /\ run'[s].lo = lo /\ run'[s].hi = hi
        /\ run'[s].step = "reply"
    BY <1>2, <2>1, HandlingIsNotIdle DEF GoesOn
  <2>3. Held(k)' = 0 /\ Moved(s)' = 0
    BY <1>1, <2>1, <2>2, ClosedFor, MovedIsNext DEF Separate
  <2>4. hi <= st
    BY <1>2, <2>1, WriterIs
  <2>. QED  BY <1>3, <2>1, <2>2, <2>3, <2>4, SameTables
<1>11. CASE fileContentRq_update(s)
  <2>1. /\ run[s].step = "update" /\ SameMemory /\ UNCHANGED disk /\ GoesOn(s, "close")
        /\ run[s].fid \in 1..Len(t_file)
        /\ Completes(run[s].fid) \/ UNCHANGED t_file
    BY <1>1, <1>11, UpdateDoes DEF Runs
  <2>2. /\ run'[s] # Idle /\ run'[s].fn = "fileContentRq" /\ run'[s].lo = lo /\ run'[s].hi = hi
        /\ run'[s].step = "close"
    BY <1>2, <2>1, HandlingIsNotIdle DEF GoesOn
  <2>3. Moved(s) = 0 /\ Moved(s)' = 0
    BY <1>1, <1>2, <2>1, <2>2, MovedIs, MovedIsNext
  <2>4. Held(k)' = h /\ info' = info /\ Stored(k)' = st
    BY <2>1, SameFile DEF Held, SameMemory
  <2>5. h # 0 /\ info'[h].off <= st /\ info'[h].off = info'[h].pos + 0
    BY <1>6, <2>1, <2>3, <2>4
  <2>6. hi <= st /\ hi >= Size /\ st <= Size /\ FileOK(k)
    BY <1>2, <2>1, WriterIs DEF FileOK
  <2>7. SessionAt(s, k)'
    BY <2>3, <2>4, <2>5, SessionBecomes
  <2>8. DiskAt(s, k)'
    BY <2>2, <2>4, <2>6 DEF DiskAt
  <2>9. ASSUME NEW i \in 1..Len(t_file'), t_file'[i].state = 1 PROVE Len(disk'[t_file'[i].path]) = Size
    <3>1. i \in 1..Len(t_file) /\ t_file'[i].path = t_file[i].path /\ (t_file[i].state = 1 \/ i = run[s].fid)
      BY <2>1, <2>9 DEF Completes
    <3>2. CASE t_file[i].state = 1
      BY <2>1, <3>1, <3>2 DEF DiskInv
    <3>3. CASE i = run[s].fid
      <4>1. t_file[i].path = path(k)
        BY <1>1, <1>2, <3>3 DEF BaseInv, HandlerOK, RowOf
      <4>2. st = Size
        BY <2>6, UploadAssumption
      <4>. QED  BY <2>1, <3>1, <4>1, <4>2 DEF Stored
    <3>. QED  BY <3>1, <3>2, <3>3
  <2>10. FileOK(k)'
    BY <2>1, <2>6, SameFile
  <2>. QED  BY <1>11, <2>7, <2>8, <2>9, <2>10, DiskHandles DEF fileContentRq
<1>. QED  BY <1>4, <1>5, <1>7, <1>8, <1>9, <1>10, <1>11 DEF fileContentRq

LEMMA DiskContinue ==
  ASSUME Separate, MemoryInv, PosInv, DiskInv, Undisturbed, StateOK', NEW s \in Slots, continueUpload(s)
  PROVE  DiskInv'
<1>1. StateOK /\ BaseInv /\ Steady
  BY UndisturbedIsSteady DEF MemoryInv, BaseInv
<1>2. run[s] # Idle /\ run[s].fn = "continueUpload"
  BY <1>1, HandlerMoves, ContinueFindDoes, ContinueSelectDoes, ReopenDoes, SeekDoes DEF continueUpload, Runs
<1>. PICK k \in Transfers, st \in Nat : k = run[s].k /\ st = Stored(k)
  BY <1>1, <1>2, AHandlerRuns, SizesAre
<1>3. SessionAt(s, k) /\ DiskAt(s, k) /\ FileOK(k) /\ PosOfHandler(s, k) /\ HandlerOK(s)
  BY <1>1, <1>2, DiskNow DEF PosInv, BaseInv
<1>4. ASSUME SameDb, UNCHANGED disk, run'[s] # Idle, run'[s].fn = "continueUpload", run'[s].step \in {"select", "reopen", "seek", "reply"},
             run'[s].step = "reply" => run'[s].n <= st,
             NEW g, Held(k)' = g, g # 0 => info'[g].off <= st /\ info'[g].off = info'[g].pos + 0
      PROVE  DiskInv'
  <2>1. Stored(k)' = st /\ NoneCompletes
    BY <1>4, SameFile, SameTables DEF SameDb
  <2>2. DiskAt(s, k)'
    BY <1>4, <2>1 DEF DiskAt
  <2>3. Moved(s)' = 0
    BY <1>4, MovedIsNext
  <2>4. SessionAt(s, k)'
    BY <1>4, <2>1, <2>3, SessionBecomes
  <2>. QED  BY <1>4, <2>1, <2>2, <2>4, DiskStays
<1>5. CASE continueUpload_find(s) \/ continueUpload_select(s)
  <2>1. run[s].step \in {"start", "select"} /\ SameMemory /\ SameDb /\ UNCHANGED disk
    BY <1>1, <1>5, ContinueFindDoes, ContinueSelectDoes DEF Runs
  <2>2. Ends(s) \/ GoesOn(s, "select") \/ GoesOn(s, "reopen") \/ GoesOn(s, "seek")
    BY <1>1, <1>5, ContinueFindDoes, ContinueSelectDoes
  <2>3. Held(k)' = 0
    BY <1>2, <1>3, <2>1 DEF PosOfHandler, SameMemory, Held
  <2>4. CASE Ends(s)
    <3>1. Moved(s)' = 0 /\ run'[s] = Idle
      BY <2>4, MovedIsNext DEF Ends
    <3>2. SessionAt(s, k)'
      BY <2>3, <3>1, SessionBecomes
    <3>. QED  BY <1>5, <2>1, <3>1, <3>2, DiskStays, SameTables DEF continueUpload, SameDb
  <2>5. CASE GoesOn(s, "select") \/ GoesOn(s, "reopen") \/ GoesOn(s, "seek")
    <3>1. run'[s] # Idle /\ run'[s].fn = "continueUpload" /\ run'[s].step \in {"select", "reopen", "seek"}
      BY <1>2, <2>5, HandlingIsNotIdle DEF GoesOn
    <3>. QED  BY <1>4, <2>1, <2>3, <3>1
  <2>. QED  BY <2>2, <2>4, <2>5
<1>6. CASE continueUpload_open(s)
  <2>. PICK new \in Nat : new = Len(info) + 1
    BY <1>1 DEF StateOK
  <2>1. SameDb /\ UNCHANGED disk /\ Opened(k, path(k), run[s].fid) /\ GoesOn(s, "seek")
    BY <1>1, <1>6, ReopenDoes
  <2>2. Held(k)' = new /\ info'[new] = FileInfo(path(k), run[s].fid)
    BY <1>1, <2>1, OpenedFor DEF Separate
  <2>3. info'[new].off = 0 /\ info'[new].pos = 0
    BY <2>2 DEF FileInfo
  <2>4. run'[s] # Idle /\ run'[s].fn = "continueUpload" /\ run'[s].step = "seek"
    BY <1>2, <2>1, HandlingIsNotIdle DEF GoesOn
  <2>. QED  BY <1>4, <2>1, <2>2, <2>3, <2>4
<1>7. CASE continueUpload_seek(s)
  <2>1. /\ SameDb /\ UNCHANGED <<disk, m_mapTimstampToFileinfo>> /\ run[s].step = "seek"
        /\ run'[s].n = Len(disk[info[run[s].obj].path])
        /\ info'[run[s].obj].off = run'[s].n /\ info'[run[s].obj].pos = run'[s].n /\ GoesOn(s, "reply")
    BY <1>1, <1>7, SeekDoes DEF Runs
  <2>2. Held(k) = run[s].obj /\ Held(k) # 0
    BY <1>2, <1>3, <2>1 DEF PosOfHandler, Pos
  <2>3. info[Held(k)].path = path(k)
    BY <2>2 DEF MemoryInv, OwnInv
  <2>4. run'[s].n = st
    BY <2>1, <2>2, <2>3 DEF Stored
  <2>5. run'[s] # Idle /\ run'[s].fn = "continueUpload" /\ run'[s].step = "reply"
    BY <1>2, <2>1, HandlingIsNotIdle DEF GoesOn
  <2>6. Held(k)' = Held(k) /\ info'[Held(k)].off = st /\ info'[Held(k)].pos = st
    BY <2>1, <2>2, <2>4 DEF Held
  <2>7. st <= st /\ st = st + 0 /\ run'[s].n <= st
    BY <2>4
  <2>. QED  BY <1>4, <2>1, <2>5, <2>6, <2>7
<1>. QED  BY <1>5, <1>6, <1>7 DEF continueUpload

(* A handler ends: with an answer, after a failed call, or unheard.         *)
LEMMA DiskEnds ==
  ASSUME Separate, MemoryInv, PosInv, DiskInv, Undisturbed, StateOK', NEW s \in Slots, SendData(s) \/ CallFails(s) \/ lost(s)
  PROVE  DiskInv'
<1>1. StateOK /\ BaseInv /\ Steady
  BY UndisturbedIsSteady DEF MemoryInv, BaseInv
<1>2. /\ run[s] # Idle /\ run[s].step \notin {"failed", "written", "advance"}
      /\ Ends(s) /\ SameDb /\ SameMemory /\ UNCHANGED disk
      /\ UNCHANGED client \/ AnswerTo(run[s].k, s)
  BY <1>1, SendDataDoes, CallFailsDoes, LostDoes
<1>. PICK k \in Transfers : k = run[s].k
  BY <1>1, <1>2, AHandlerRuns
<1>3. SessionAt(s, k) /\ FileOK(k) /\ Moved(s) = 0
  BY <1>1, <1>2, DiskNow, MovedIs
<1>4. run'[s] = Idle /\ OthersRun(s) /\ Moved(s)' = 0
  BY <1>2, MovedIsNext DEF Ends
<1>5. SessionAt(s, k)'
  <2>. PICK h : h = Held(k)
    OBVIOUS
  <2>1. Held(k)' = h /\ info' = info /\ Stored(k)' = Stored(k)
    BY <1>2, SameFile DEF Held, SameMemory
  <2>2. h # 0 => info[h].off <= Stored(k) /\ info[h].off = info[h].pos + 0
    BY <1>3 DEF SessionAt, Off
  <2>. QED  BY <1>4, <2>1, <2>2, SessionBecomes
<1>6. client'[k].phase # "new"
  <2>1. CASE UNCHANGED client
    BY <1>1, <1>2, <2>1, ClientWaits
  <2>2. CASE SendData(s) /\ AnswerTo(k, s)
    <3>1. run[s].fn \in Handlers /\ run[s].step \in {"reply", "replyQuick"}
      BY <1>1, <1>2, <2>2, AHandlerRuns, SendDataDoes
    <3>2. \A p : AllSent(p) \in {"sending", "done"}
      BY DEF AllSent
    <3>. QED  BY <2>2, <3>1, <3>2 DEF AnswerTo, Handlers
  <2>3. CASE CallFails(s) \/ lost(s)
    <3>1. UNCHANGED client
      BY <1>1, <2>3, CallFailsDoes, LostDoes
    <3>. QED  BY <2>1, <3>1
  <2>. QED  BY <1>2, <2>1, <2>2, <2>3
<1>7. FileOK(k)' /\ Apart(k)
  BY <1>1, <1>2, <1>3, SameFile, EndApart
<1>8. \A i \in 1..Len(t_file') : t_file'[i].state = 1 => Len(disk'[t_file'[i].path]) = Size
  BY <1>2 DEF SameDb, DiskInv
<1>. QED  BY <1>2, <1>4, <1>5, <1>6, <1>7, <1>8, DiskGoes

LEMMA DiskClient ==
  ASSUME MemoryInv, PosInv, DiskInv, Undisturbed, StateOK', NEW k \in Transfers, Client(k)
  PROVE  DiskInv'
<1>1. StateOK /\ BaseInv /\ RequestInv /\ Steady
  BY UndisturbedIsSteady DEF MemoryInv, BaseInv
<1>2. ASSUME NEW fn \in Handlers, NEW phase, Becomes(k, phase), phase # "new", NEW s \in Slots, NEW lo, NEW hi,
             Asks(k, s, fn, lo, hi), fn = "uploadFile" => client[k].phase = "new",
             client[k].phase \in {"new", "sending", "offline"},
             SameDb, SameMemory, UNCHANGED disk
      PROVE  DiskInv'
  <2>1. ASSUME NEW t \in Slots, Busy(t, k) PROVE FALSE
    <3>1. run[t].epoch < client[k].epoch
      BY <1>1, <1>2, <2>1, NoneAsks
    <3>2. run[t].epoch = client[k].epoch /\ client[k].epoch \in Nat
      BY <1>1, <2>1, ClientIs DEF MemoryInv, SingleInv, Single, Busy
    <3>. QED  BY <3>1, <3>2
  <2>2. Stored(k)' = Stored(k) /\ FileOK(k)' /\ FileOK(k) /\ SessionOK(k)
    BY <1>2, SameFile DEF DiskInv
  <2>3. Held(k) # 0 => Off(k) <= Stored(k) /\ Off(k) = info[Held(k)].pos
    BY <2>1, <2>2 DEF SessionOK, Busy
  <2>4. SessionOK(k)'
    BY <1>2, <2>2, <2>3 DEF SessionOK, Held, Off, SameMemory
  <2>5. ASSUME NEW t \in Slots, Busy(t, k)' PROVE DiskOfHandler(t, k)'
    <3>1. t = s
      BY <1>2, <2>1, <2>5 DEF Asks, OthersRun, Busy
    <3>2. run'[s].fn = fn /\ run'[s].step = "start" /\ run'[s] # Idle
      BY <1>2, HandlingIsNotIdle DEF Asks
    <3>3. Moved(s)' = 0
      BY <3>2, MovedIsNext
    <3>4. fn = "uploadFile" => Stored(k)' = 0
      BY <1>2, <2>2 DEF DiskInv
    <3>. QED  BY <3>1, <3>2, <3>3, <3>4 DEF DiskOfHandler
  <2>6. client'[k].phase # "new"
    BY <1>2 DEF Becomes
  <2>7. \A i \in 1..Len(t_file') : t_file'[i].state = 1 => Len(disk'[t_file'[i].path]) = Size
    BY <1>2 DEF SameDb, DiskInv
  <2>8. Apart(k)
    BY <1>1, ClientApart
  <2>. QED  BY <2>2, <2>4, <2>5, <2>6, <2>7, <2>8, DiskMoves
<1>3. CASE sendUpload(k)
  <2>1. /\ client[k].phase = "new" /\ Becomes(k, "asked") /\ SameDb /\ SameMemory /\ UNCHANGED disk
        /\ \E s \in Slots : Asks(k, s, "uploadFile", 0, 0)
    BY <1>1, <1>3, SendUploadDoes
  <2>2. "uploadFile" \in Handlers
    BY DEF Handlers
  <2>. QED  BY <1>2, <2>1, <2>2
<1>4. CASE sendBlock(k)
  <2>. PICK lo, hi : lo = client[k].pos /\ hi = BlockEnd(lo)
    OBVIOUS
  <2>1. /\ client[k].phase = "sending" /\ Becomes(k, "waiting") /\ SameDb /\ SameMemory /\ UNCHANGED disk
        /\ \E s \in Slots : Asks(k, s, "fileContentRq", lo, hi)
    BY <1>1, <1>4, SendBlockDoes
  <2>2. "fileContentRq" \in Handlers
    BY DEF Handlers
  <2>. QED  BY <1>2, <2>1, <2>2
<1>5. CASE sendContinue(k)
  <2>1. /\ client[k].phase = "offline" /\ Becomes(k, "resuming") /\ SameDb /\ SameMemory /\ UNCHANGED disk
        /\ \E s \in Slots : Asks(k, s, "continueUpload", 0, 0)
    BY <1>1, <1>5, SendContinueDoes
  <2>2. "continueUpload" \in Handlers
    BY DEF Handlers
  <2>. QED  BY <1>2, <2>1, <2>2
<1>. QED  BY <1>3, <1>4, <1>5 DEF Client

LEMMA DiskInvInit == Init => DiskInv
<1>. SUFFICES ASSUME Init PROVE DiskInv
  OBVIOUS
<1>1. ASSUME NEW k \in Transfers PROVE Stored(k) = 0 /\ FileOK(k) /\ SessionOK(k)
  <2>1. Stored(k) = 0
    BY PathsAre DEF Init, Stored
  <2>2. Held(k) = 0
    BY KeysAre DEF Init, Held
  <2>. QED  BY <2>1, <2>2, UploadAssumption DEF FileOK, SessionOK
<1>2. Len(t_file) = 0 /\ \A s \in Slots : run[s] = Idle
  BY DEF Init
<1>. QED  BY <1>1, <1>2 DEF DiskInv

LEMMA DiskInvStep == Separate /\ MemoryInv /\ PosInv /\ DiskInv /\ [Next]_vars => DiskInv'
<1>. SUFFICES ASSUME Separate, MemoryInv, PosInv, DiskInv, [Next]_vars, Undisturbed' PROVE DiskInv'
  BY DEF DiskInv
<1>1. StateOK /\ BaseInv /\ BaseInv' /\ StateOK'
  BY BaseInvStep DEF MemoryInv, BaseInv
<1>2. Undisturbed
  BY <1>1, FaultsGrow DEF Undisturbed
<1>3. ASSUME NEW s \in Slots, uploadFile(s) \/ fileContentRq(s) \/ continueUpload(s) PROVE DiskInv'
  BY <1>1, <1>2, <1>3, DiskUpload, DiskContent, DiskContinue
<1>4. ASSUME NEW s \in Slots, SendData(s) \/ CallFails(s) \/ lost(s) PROVE DiskInv'
  BY <1>1, <1>2, <1>4, DiskEnds
<1>5. ASSUME NEW k \in Transfers, Client(k) PROVE DiskInv'
  BY <1>1, <1>2, <1>5, DiskClient
<1>6. ASSUME NEW k \in Transfers, disconnect(k) PROVE FALSE
  BY <1>1, <1>6, DisconnectDoes, FaultDoes DEF Undisturbed
<1>7. CASE crash
  <2>1. /\ m_mapTimstampToFileinfo' = [key \in Keys |-> 0] /\ run' = [s \in Slots |-> Idle]
        /\ SameDb /\ UNCHANGED disk
        /\ \A k \in Transfers : IF client[k].phase \in Working THEN GoesOffline(k) ELSE client'[k] = client[k]
    BY <1>1, <1>7, CrashDoes
  <2>2. ASSUME NEW k \in Transfers
        PROVE  FileOK(k)' /\ SessionOK(k)' /\ (client'[k].phase = "new" => Stored(k)' = 0)
    <3>1. Held(k)' = 0
      BY <2>1, KeysAre DEF Held
    <3>2. client'[k].phase = "new" => client[k].phase = "new"
      BY <2>1 DEF GoesOffline, Working
    <3>3. FileOK(k)' /\ Stored(k)' = Stored(k)
      BY <1>2, <2>1, SameFile DEF DiskInv
    <3>4. client[k].phase = "new" => Stored(k) = 0
      BY <1>2 DEF DiskInv
    <3>5. SessionOK(k)'
      BY <3>1 DEF SessionOK
    <3>. QED  BY <3>2, <3>3, <3>4, <3>5
  <2>3. \A i \in 1..Len(t_file') : t_file'[i].state = 1 => Len(disk'[t_file'[i].path]) = Size
    BY <1>2, <2>1 DEF SameDb, DiskInv
  <2>4. \A s \in Slots : run'[s] = Idle
    BY <2>1
  <2>. QED  BY <2>2, <2>3, <2>4 DEF DiskInv
<1>8. CASE UNCHANGED vars
  <2>1. UNCHANGED <<t_file, disk, m_mapTimstampToFileinfo, info, run, client>>
    BY <1>8 DEF vars, memory, db
  <2>2. ASSUME NEW k \in Transfers
        PROVE  FileOK(k)' /\ SessionOK(k)' /\ (client'[k].phase = "new" => Stored(k)' = 0)
    <3>1. FileOK(k) /\ SessionOK(k) /\ (client[k].phase = "new" => Stored(k) = 0)
      BY <1>2 DEF DiskInv
    <3>2. FileOK(k)' /\ Stored(k)' = Stored(k) /\ Held(k)' = Held(k)
      BY <2>1, <3>1, SameFile DEF Held
    <3>3. \A s \in Slots : Moved(s)' = Moved(s)
      BY <2>1 DEF Moved
    <3>4. SessionOK(k)'
      BY <2>1, <3>1, <3>2, <3>3 DEF SessionOK, Off
    <3>. QED  BY <2>1, <3>1, <3>2, <3>4
  <2>3. ASSUME NEW s \in Slots, run'[s] # Idle PROVE DiskOfHandler(s, run[s].k)'
    <3>1. DiskOfHandler(s, run[s].k) /\ Moved(s)' = Moved(s)
      BY <1>2, <2>1, <2>3 DEF DiskInv, Moved
    <3>. QED  BY <2>1, <3>1 DEF DiskOfHandler, Stored, Off, Held, path
  <2>4. \A i \in 1..Len(t_file') : t_file'[i].state = 1 => Len(disk'[t_file'[i].path]) = Size
    BY <1>2, <2>1 DEF DiskInv
  <2>. QED  BY <2>2, <2>3, <2>4 DEF DiskInv
<1>. QED  BY <1>3, <1>4, <1>5, <1>6, <1>7, <1>8 DEF Next, Handler

-----------------------------------------------------------------------------
(* The sizes, the rows and the faults; then all of it together.             *)
BoundInv == Undisturbed => \A o \in 1..Len(info) : info[o].pos <= Size /\ info[o].off <= Size
RowInv == \A i \in 1..Len(t_file) : t_file[i].md5 = t_file[i].path[2]
SeenInv == faults.seen \subseteq FaultKinds
UploadInv == MemoryInv /\ OffsetInv /\ PosInv /\ DiskInv /\ BoundInv /\ RowInv /\ SeenInv

LEMMA RowInvStep == BaseInv /\ RowInv /\ [Next]_vars => RowInv'
<1>. SUFFICES ASSUME BaseInv, RowInv, [Next]_vars PROVE RowInv'
  OBVIOUS
<1>1. StateOK
  BY DEF BaseInv
<1>2. ASSUME UNCHANGED t_file PROVE RowInv'
  BY <1>2 DEF RowInv
<1>3. ASSUME NEW s \in Slots, uploadFile_insertFile(s) PROVE RowInv'
  <2>. PICK new \in Nat : new = Len(t_file) + 1
    BY <1>1 DEF StateOK
  <2>1. /\ Len(t_file') = new /\ \A i \in 1..Len(t_file) : t_file'[i] = t_file[i]
        /\ t_file'[new] = [md5 |-> md5[run[s].k], path |-> path(run[s].k), state |-> 0]
    BY <1>1, <1>3, InsertFileDoes
  <2>2. t_file'[new].md5 = t_file'[new].path[2]
    BY <2>1 DEF path
  <2>3. \A i \in 1..new : i \in 1..Len(t_file) \/ i = new
    BY <1>1 DEF StateOK
  <2>. QED  BY <2>1, <2>2, <2>3 DEF RowInv
<1>4. ASSUME NEW s \in Slots, fileContentRq_update(s) PROVE RowInv'
  <2>1. Completes(run[s].fid) \/ UNCHANGED t_file
    BY <1>4, UpdateDoes
  <2>. QED  BY <1>2, <2>1 DEF Completes, RowInv
<1>5. ASSUME NEW s \in Slots, uploadFile(s) PROVE RowInv'
  BY <1>1, <1>2, <1>3, <1>5, QuickDoes, QuickInsertDoes, OpenDoes, SelectIdDoes, InsertRelDoes DEF uploadFile, SameDb, Relates
<1>6. ASSUME NEW s \in Slots, fileContentRq(s) PROVE RowInv'
  BY <1>1, <1>2, <1>4, <1>6, FindDoes, WriteDoes, FailedDoes, ReadDoes, AdvanceDoes, CloseDoes DEF fileContentRq, SameDb
<1>7. ASSUME NEW s \in Slots, continueUpload(s) PROVE RowInv'
  BY <1>1, <1>2, <1>7, ContinueFindDoes, ContinueSelectDoes, ReopenDoes, SeekDoes DEF continueUpload, SameDb
<1>8. ASSUME NEW s \in Slots, SendData(s) \/ CallFails(s) \/ lost(s) PROVE RowInv'
  BY <1>1, <1>2, <1>8, SendDataDoes, CallFailsDoes, LostDoes DEF SameDb
<1>9. ASSUME NEW k \in Transfers, Client(k) \/ disconnect(k) PROVE RowInv'
  BY <1>1, <1>2, <1>9, SendUploadDoes, SendBlockDoes, SendContinueDoes, DisconnectDoes DEF Client, SameDb
<1>10. CASE crash \/ UNCHANGED vars
  BY <1>1, <1>2, <1>10, CrashDoes DEF SameDb, vars, db
<1>. QED  BY <1>5, <1>6, <1>7, <1>8, <1>9, <1>10 DEF Next, Handler

LEMMA SeenInvStep == BaseInv /\ SeenInv /\ [Next]_vars => SeenInv'
<1>. SUFFICES ASSUME BaseInv, SeenInv, [Next]_vars PROVE SeenInv'
  OBVIOUS
<1>1. StateOK
  BY DEF BaseInv
<1>2. ASSUME UNCHANGED faults \/ \E kind : Fault(kind) PROVE SeenInv'
  BY <1>2 DEF SeenInv, Fault
<1>3. ASSUME NEW s \in Slots, uploadFile(s) \/ fileContentRq(s) \/ continueUpload(s) PROVE SeenInv'
  BY <1>2, <1>3, HandlerMoves
<1>4. ASSUME NEW s \in Slots, SendData(s) \/ CallFails(s) \/ lost(s) PROVE SeenInv'
  BY <1>1, <1>2, <1>4, SendDataDoes, CallFailsDoes, LostDoes
<1>5. ASSUME NEW k \in Transfers, Client(k) \/ disconnect(k) PROVE SeenInv'
  BY <1>1, <1>2, <1>5, SendUploadDoes, SendBlockDoes, SendContinueDoes, DisconnectDoes DEF Client
<1>6. CASE crash \/ UNCHANGED vars
  BY <1>1, <1>2, <1>6, CrashDoes DEF vars
<1>. QED  BY <1>3, <1>4, <1>5, <1>6 DEF Next, Handler

(* Only the session that a handler works on moves.                          *)
LEMMA BoundChanges ==
  ASSUME BoundInv, Undisturbed, NEW o \in 1..Len(info), Changed(o), info'[o].pos <= Size, info'[o].off <= Size
  PROVE  BoundInv'
<1>1. ASSUME NEW j \in 1..Len(info') PROVE info'[j].pos <= Size /\ info'[j].off <= Size
  <2>1. j \in 1..Len(info)
    BY DEF Changed
  <2>2. CASE j = o
    BY <2>2
  <2>3. CASE j # o
    BY <2>1, <2>3 DEF Changed, BoundInv
  <2>. QED  BY <2>2, <2>3
<1>. QED  BY <1>1 DEF BoundInv

LEMMA BoundOpens ==
  ASSUME StateOK, BoundInv, Undisturbed, NEW k \in Transfers, NEW p, NEW fid, Opened(k, p, fid)
  PROVE  BoundInv'
<1>. PICK new \in Nat : new = Len(info) + 1
  BY DEF StateOK
<1>1. info'[new] = FileInfo(p, fid) /\ Len(info') = new
  BY DEF Opened
<1>2. info'[new].pos = 0 /\ info'[new].off = 0
  BY <1>1 DEF FileInfo
<1>3. ASSUME NEW j \in 1..new PROVE info'[j].pos <= Size /\ info'[j].off <= Size
  <2>1. CASE j = new
    BY <1>2, <2>1, UploadAssumption
  <2>2. CASE j # new
    <3>1. j \in 1..Len(info)
      BY <2>2 DEF StateOK
    <3>. QED  BY <3>1 DEF Opened, BoundInv
  <2>. QED  BY <2>1, <2>2
<1>. QED  BY <1>1, <1>3 DEF BoundInv

LEMMA BoundHandles ==
  ASSUME MemoryInv, PosInv, DiskInv, BoundInv, Undisturbed, Undisturbed', DiskInv', StateOK',
         NEW s \in Slots, uploadFile(s) \/ fileContentRq(s) \/ continueUpload(s)
  PROVE  BoundInv'
<1>1. StateOK /\ BaseInv /\ OwnInv /\ Steady
  BY UndisturbedIsSteady DEF MemoryInv, BaseInv
<1>2. run[s] # Idle
  BY <1>1, HandlerMoves
<1>. PICK k \in Transfers, lo \in Nat, hi \in Nat, n \in Int :
        k = run[s].k /\ lo = run[s].lo /\ hi = run[s].hi /\ n = run[s].n
  BY <1>1, <1>2, AHandlerRuns
<1>. PICK h : h = Held(k)
  OBVIOUS
<1>3. ASSUME SameMemory PROVE BoundInv'
  BY <1>3 DEF SameMemory, BoundInv
<1>4. CASE uploadFile_quick(s) \/ uploadFile_quickInsert(s) \/ uploadFile_insertFile(s) \/ uploadFile_insertRel(s)
  BY <1>1, <1>3, <1>4, QuickDoes, QuickInsertDoes, InsertFileDoes, InsertRelDoes
<1>5. CASE fileContentRq_find(s) \/ fileContentRq_read(s) \/ fileContentRq_update(s)
  BY <1>1, <1>3, <1>5, FindDoes, ReadDoes, UpdateDoes
<1>6. CASE continueUpload_find(s) \/ continueUpload_select(s)
  BY <1>1, <1>3, <1>6, ContinueFindDoes, ContinueSelectDoes
<1>7. CASE uploadFile_open(s) \/ continueUpload_open(s)
  BY <1>1, <1>7, OpenDoes, ReopenDoes, BoundOpens
<1>8. CASE uploadFile_selectId(s) \/ fileContentRq_close(s)
  <2>1. /\ run[s].obj \in 1..Len(info) /\ Changed(run[s].obj)
        /\ info'[run[s].obj].pos = info[run[s].obj].pos /\ info'[run[s].obj].off = info[run[s].obj].off
    BY <1>1, <1>8, SelectIdDoes, CloseDoes
  <2>2. info[run[s].obj].pos <= Size /\ info[run[s].obj].off <= Size
    BY <2>1 DEF BoundInv
  <2>. QED  BY <2>1, <2>2, BoundChanges
<1>9. ASSUME run[s].fn = "fileContentRq", run[s].step \in {"write", "failed", "advance"}
      PROVE  h = run[s].obj /\ h \in 1..Len(info) /\ h # 0 /\ hi <= Size
             /\ (run[s].step = "advance" => n = hi) /\ (run[s].step = "failed" => n \in 1..(hi - lo - 1))
             /\ info[h].pos <= Size /\ info[h].off <= Size /\ info[h].off \in Int
  <2>1. h = run[s].obj /\ h \in 1..Len(info) /\ h # 0 /\ hi <= Size /\ info[h].off \in Int
        /\ (run[s].step = "advance" => n = hi) /\ (run[s].step = "failed" => n \in 1..(hi - lo - 1))
    BY <1>2, <1>9, WriterIs
  <2>. QED  BY <2>1 DEF BoundInv
<1>10. CASE fileContentRq_write(s)
  <2>1. run[s].fn = "fileContentRq" /\ run[s].step = "write" /\ UNCHANGED m_mapTimstampToFileinfo
    BY <1>1, <1>10, WriteDoes DEF Runs
  <2>2. h = run[s].obj /\ h \in 1..Len(info) /\ h # 0 /\ info[h].pos <= Size
    BY <1>9, <2>1
  <2>3. SameMemory \/ (Changed(h) /\ info'[h].pos = info[h].pos)
    BY <1>1, <1>10, <2>2, WriteDoes DEF SameMemory
  <2>4. CASE Changed(h) /\ info'[h].pos = info[h].pos
    <3>1. Held(k)' = h
      BY <2>1 DEF Held
    <3>2. SessionOK(k)' /\ FileOK(k)'
      BY DEF DiskInv
    <3>3. info'[h].off <= Stored(k)' /\ Stored(k)' <= Size
      BY <2>2, <3>1, <3>2 DEF SessionOK, FileOK, Off
    <3>4. info'[h].off \in Int
      <4>1. info'[h] \in Session
        BY <2>2, <2>4 DEF Changed
      <4>. QED  BY <4>1 DEF Session
    <3>5. Stored(k)' \in Nat
      <4>1. disk'[path(k)] \in Seq(Content)
        BY PathsAre DEF StateOK
      <4>. QED  BY <4>1 DEF Stored, path
    <3>6. info'[h].off <= Size
      BY <3>3, <3>4, <3>5, UploadAssumption
    <3>. QED  BY <2>2, <2>4, <3>6, BoundChanges
  <2>. QED  BY <1>3, <2>3, <2>4
<1>11. CASE fileContentRq_failed(s)
  <2>1. /\ run[s].fn = "fileContentRq" /\ run[s].step = "failed" /\ Changed(run[s].obj)
        /\ info'[run[s].obj].off = info[run[s].obj].off - n /\ info'[run[s].obj].pos = info[run[s].obj].pos
    BY <1>1, <1>11, FailedDoes DEF Runs
  <2>2. h = run[s].obj /\ h \in 1..Len(info) /\ info[h].pos <= Size /\ info[h].off <= Size /\ info[h].off \in Int
        /\ n \in 1..(hi - lo - 1)
    BY <1>9, <2>1
  <2>3. info[h].off - n <= Size
    <3>1. n \in Nat
      BY <2>2
    <3>2. \A off \in Int : off <= Size => off - n <= Size
      BY <3>1, UploadAssumption
    <3>. QED  BY <2>2, <3>2
  <2>. QED  BY <2>1, <2>2, <2>3, BoundChanges
<1>12. CASE fileContentRq_advance(s)
  <2>1. /\ run[s].fn = "fileContentRq" /\ run[s].step = "advance" /\ Changed(run[s].obj)
        /\ info'[run[s].obj].off = info[run[s].obj].off /\ info'[run[s].obj].pos = n
    BY <1>1, <1>12, AdvanceDoes DEF Runs
  <2>2. h = run[s].obj /\ h \in 1..Len(info) /\ info[h].off <= Size /\ n = hi /\ hi <= Size
    BY <1>9, <2>1
  <2>. QED  BY <2>1, <2>2, BoundChanges
<1>13. CASE continueUpload_seek(s)
  <2>1. /\ run[s].obj \in 1..Len(info) /\ Changed(run[s].obj) /\ run'[s].n = Len(disk[info[run[s].obj].path])
        /\ info'[run[s].obj].off = run'[s].n /\ info'[run[s].obj].pos = run'[s].n /\ run[s].obj # 0
    BY <1>1, <1>13, SeekDoes DEF Runs
  <2>2. info[run[s].obj].path = path(k)
    BY <1>1, <1>2, <2>1 DEF OwnInv
  <2>3. Stored(k) <= Size
    BY DEF DiskInv, FileOK
  <2>4. run'[s].n <= Size
    BY <2>1, <2>2, <2>3 DEF Stored
  <2>. QED  BY <2>1, <2>4, BoundChanges
<1>. QED  BY <1>4, <1>5, <1>6, <1>7, <1>8, <1>10, <1>11, <1>12, <1>13 DEF uploadFile, fileContentRq, continueUpload

LEMMA BoundInvStep == Separate /\ MemoryInv /\ PosInv /\ DiskInv /\ BoundInv /\ [Next]_vars => BoundInv'
<1>. SUFFICES ASSUME Separate, MemoryInv, PosInv, DiskInv, BoundInv, [Next]_vars, Undisturbed' PROVE BoundInv'
  BY DEF BoundInv
<1>1. StateOK /\ BaseInv /\ StateOK' /\ DiskInv'
  BY BaseInvStep, DiskInvStep DEF MemoryInv, BaseInv
<1>2. Undisturbed
  BY <1>1, FaultsGrow DEF Undisturbed
<1>3. ASSUME NEW s \in Slots, uploadFile(s) \/ fileContentRq(s) \/ continueUpload(s) PROVE BoundInv'
  BY <1>1, <1>2, <1>3, BoundHandles
<1>4. ASSUME SameMemory PROVE BoundInv'
  BY <1>2, <1>4 DEF SameMemory, BoundInv
<1>5. ASSUME NEW s \in Slots, SendData(s) \/ CallFails(s) \/ lost(s) PROVE BoundInv'
  BY <1>1, <1>4, <1>5, SendDataDoes, CallFailsDoes, LostDoes
<1>6. ASSUME NEW k \in Transfers, Client(k) \/ disconnect(k) PROVE BoundInv'
  BY <1>1, <1>4, <1>6, SendUploadDoes, SendBlockDoes, SendContinueDoes, DisconnectDoes DEF Client
<1>7. CASE crash
  BY <1>1, <1>7, CrashDoes DEF BoundInv
<1>8. CASE UNCHANGED vars
  BY <1>4, <1>8 DEF vars, memory, SameMemory
<1>. QED  BY <1>3, <1>5, <1>6, <1>7, <1>8 DEF Next, Handler

LEMMA UploadInvHolds == Separate => (Spec => []UploadInv)
<1>. SUFFICES ASSUME Separate PROVE Spec => []UploadInv
  OBVIOUS
<1>1. Init => UploadInv
  <2>1. Init => BoundInv /\ RowInv /\ SeenInv
    BY DEF Init, BoundInv, RowInv, SeenInv
  <2>. QED  BY <2>1, BaseInvInit, RequestInvInit, OwnInvInit, OpenInvInit, SingleInvInit, OffsetInvInit, PosInvInit, DiskInvInit
            DEF UploadInv, MemoryInv
<1>2. UploadInv /\ [Next]_vars => UploadInv'
  <2>. SUFFICES ASSUME UploadInv, [Next]_vars PROVE UploadInv'
    OBVIOUS
  <2>1. BaseInv /\ RequestInv /\ OwnInv /\ OpenInv /\ SingleInv
    BY DEF UploadInv, MemoryInv
  <2>2. MemoryInv'
    BY <2>1, BaseInvStep, RequestInvStep, OwnInvStep, OpenInvStep, SingleInvStep DEF MemoryInv, Separate
  <2>3. OffsetInv'
    BY <2>1, OffsetInvStep DEF UploadInv
  <2>4. PosInv' /\ DiskInv' /\ BoundInv'
    BY PosInvStep, DiskInvStep, BoundInvStep DEF UploadInv
  <2>5. RowInv' /\ SeenInv'
    BY <2>1, RowInvStep, SeenInvStep DEF UploadInv
  <2>. QED  BY <2>2, <2>3, <2>4, <2>5 DEF UploadInv
<1>. QED  BY <1>1, <1>2, PTL DEF Spec

-----------------------------------------------------------------------------
(* Rows, bytes and sessions stay within their bounds whatever fails, the    *)
(* map never leads to a FileInfo that was deleted, and no handler goes on   *)
(* with one as long as no client resumes beside its own old request.        *)
THEOREM SessionsIntactHolds == Separate => (Spec => []SessionsIntact)
<1>. SUFFICES ASSUME Separate PROVE Spec => []SessionsIntact
  OBVIOUS
<1>1. UploadInv => SessionsIntact
  <2>. SUFFICES ASSUME UploadInv PROVE SessionsIntact
    OBVIOUS
  <2>1. StateOK /\ OwnInv /\ OpenInv /\ SingleInv
    BY DEF UploadInv, MemoryInv, BaseInv
  <2>2. TypeOK
    <3>1. \A i \in 1..Len(t_file) :
            t_file[i] \in [md5 : {md5[k] : k \in Transfers}, path : Paths, state : {0, 1}]
      BY <2>1, RowIsThere DEF Row, Md5s
    <3>2. t_user_file \subseteq [user_dir : {user_dir[k] : k \in Transfers}, fid : 1..Len(t_file)]
      BY <2>1 DEF StateOK, Relation
    <3>3. \A key \in Keys : m_mapTimstampToFileinfo[key] \in 0..Len(info)
      BY <2>1 DEF StateOK
    <3>4. ASSUME NEW o \in 1..Len(info) PROVE info[o].pos \in Nat /\ info[o].off \in Nat
      <4>1. IsFiniteSet(Owed(o)) /\ Cardinality(Owed(o)) <= info[o].off
        BY DEF UploadInv, OffsetInv, Covers
      <4>2. Cardinality(Owed(o)) \in Nat
        BY <4>1, FS_CardinalityType
      <4>. QED  BY <2>1, <4>1, <4>2, SessionIsThere
    <3>5. Undisturbed => \A p \in Paths : Len(disk[p]) <= Size
      BY DEF UploadInv, DiskInv, FileOK, Stored, Paths
    <3>6. Undisturbed => \A o \in 1..Len(info) : info[o].pos <= Size /\ info[o].off <= Size
      BY DEF UploadInv, BoundInv
    <3>. QED  BY <3>1, <3>2, <3>3, <3>4, <3>5, <3>6 DEF TypeOK
  <2>3. MapHoldsLiveSessions
    BY <2>1 DEF OwnInv, OpenInv, Held, Keys, MapHoldsLiveSessions
  <2>4. NoUseAfterDelete
    BY <2>1 DEF SingleInv, Single, Steady, UsingSteps, NoUseAfterDelete
  <2>. QED  BY <2>2, <2>3, <2>4 DEF SessionsIntact
<1>2. Spec => []UploadInv
  BY UploadInvHolds
<1>. QED  BY <1>1, <1>2, PTL

(* Between two requests a session's pos and the offset of its descriptor    *)
(* agree, and lie within what is stored.                                    *)
THEOREM PositionsAgreeHolds == Separate => (Spec => []PositionsAgree)
<1>. SUFFICES ASSUME Separate PROVE Spec => []PositionsAgree
  OBVIOUS
<1>1. UploadInv => PositionsAgree
  <2>. SUFFICES ASSUME UploadInv, Undisturbed, NEW key \in Keys, NEW o, o = m_mapTimstampToFileinfo[key],
                       o # 0, ~InUse(o)
                PROVE  info[o].pos = info[o].off /\ info[o].off <= Len(disk[info[o].path])
    BY DEF PositionsAgree
  <2>1. StateOK /\ BaseInv /\ OwnInv /\ MemoryInv /\ PosInv /\ Steady
    BY UndisturbedIsSteady DEF UploadInv, MemoryInv, BaseInv
  <2>2. PICK k \in Transfers : Held(k) = o
    BY <2>1 DEF OwnInv, Keys, Held
  <2>3. info[o].path = path(k) /\ SessionOK(k)
    BY <2>1, <2>2 DEF OwnInv, UploadInv, DiskInv
  <2>4. ASSUME NEW s \in Slots, run[s] # Idle, run[s].k = k, Moved(s) # 0 PROVE FALSE
    <3>1. run[s].step \in {"failed", "written", "advance"}
      BY <2>1, <2>4, MovedIs
    <3>2. HandlerOK(s) /\ run[s].fn \in Handlers /\ PosOfHandler(s, k)
      BY <2>1, <2>4, AHandlerRuns DEF BaseInv, PosInv
    <3>3. run[s].fn = "fileContentRq"
      BY <3>1, <3>2 DEF HandlerOK, Steps, Handlers
    <3>4. run[s].obj = o
      BY <2>2, <3>1, <3>2, <3>3 DEF PosOfHandler
    <3>. QED  BY <2>4, <3>1, <3>4 DEF InUse
  <2>5. Off(k) <= Stored(k) /\ Off(k) = info[o].pos
    BY <2>2, <2>3, <2>4 DEF SessionOK
  <2>. QED  BY <2>2, <2>3, <2>5 DEF Off, Stored
<1>2. Spec => []UploadInv
  BY UploadInvHolds
<1>. QED  BY <1>1, <1>2, PTL

(* As long as no write has failed with -1 and no client has resumed beside  *)
(* its own old request, a file that the database calls complete is whole.   *)
LEMMA UndisturbedIsWhole == UploadInv /\ Undisturbed => CompleteFileIsWhole
<1>. SUFFICES ASSUME UploadInv, Undisturbed, NEW i \in 1..Len(t_file), t_file[i].state = 1
              PROVE  disk[t_file[i].path] = Whole(t_file[i].md5)
  BY DEF CompleteFileIsWhole
<1>1. StateOK
  BY DEF UploadInv, MemoryInv, BaseInv
<1>2. PICK k \in Transfers : t_file[i].path = path(k)
  BY <1>1, RowIsThere DEF Paths
<1>3. t_file[i].md5 = md5[k]
  BY <1>2 DEF UploadInv, RowInv, path
<1>4. Stored(k) = Size /\ FileOK(k)
  BY <1>2 DEF UploadInv, DiskInv, Stored
<1>. PICK file \in Seq(Content) : file = disk[path(k)]
  BY <1>1, SizesAre
<1>5. Len(file) = Size /\ \A n \in 1..Size : file[n] = Byte(md5[k], n)
  BY <1>4 DEF Stored, FileOK
<1>6. file = [n \in 1..Size |-> Byte(md5[k], n)]
  <2>1. file \in [1..Size -> Content]
    BY <1>5, LenProperties
  <2>. QED  BY <1>5, <2>1
<1>. QED  BY <1>2, <1>3, <1>6 DEF Whole

(* Where neither can go wrong, whatever else does: a file that the database *)
(* calls complete is whole, byte by byte.                                   *)
THEOREM CompleteFileIsWholeHolds ==
  Separate /\ FaultKinds \cap {"write", "reconnect"} = {} => (Spec => []CompleteFileIsWhole)
<1>. SUFFICES ASSUME Separate, FaultKinds \cap {"write", "reconnect"} = {} PROVE Spec => []CompleteFileIsWhole
  OBVIOUS
<1>1. UploadInv => Undisturbed
  BY DEF UploadInv, SeenInv, Undisturbed
<1>2. UploadInv => CompleteFileIsWhole
  BY <1>1, UndisturbedIsWhole
<1>3. Spec => []UploadInv
  BY UploadInvHolds
<1>. QED  BY <1>2, <1>3, PTL

-----------------------------------------------------------------------------
(* Uploading implements Transfer.                                           *)
LEMMA PrefixIs ==
  ASSUME NEW file \in Seq(Content), NEW m, \A i \in 1..Len(file) : file[i] = Byte(m, i)
  PROVE  GoodPrefix(file, m) = Len(file)
<1>. PICK n \in Nat : n = Len(file)
  BY LenProperties
<1>1. {j \in 1..Len(file) : \A i \in 1..j : file[i] = Byte(m, i)} = 1..n
  OBVIOUS
<1>2. Cardinality(1..n) = n
  <2>1. Cardinality(1..n) = IF 1 > n THEN 0 ELSE n - 1 + 1
    BY FS_Interval, 1 \in Int, n \in Int
  <2>. QED  BY <2>1
<1>. QED  BY <1>1, <1>2 DEF GoodPrefix

Bytes == [k \in Transfers |-> GoodPrefix(disk[path(k)], md5[k])]
Told == [k \in Transfers |-> client[k].pos]
HasRow(k) == \E i \in 1..Len(t_file) : t_file[i].path = path(k) /\ t_file[i].state = 1
Called == [k \in Transfers |-> HasRow(k)]

LEMMA BytesAre ==
  ASSUME UploadInv, Undisturbed, NEW k \in Transfers
  PROVE  Bytes[k] = Stored(k) /\ Stored(k) \in 0..Size /\ (HasRow(k) => Stored(k) = Size)
<1>1. StateOK /\ DiskInv
  BY DEF UploadInv, MemoryInv, BaseInv
<1>2. disk[path(k)] \in Seq(Content) /\ FileOK(k) /\ Stored(k) \in Nat
  BY <1>1, SizesAre DEF DiskInv
<1>3. Bytes[k] = Stored(k)
  BY <1>2, PrefixIs DEF Bytes, Stored, FileOK
<1>4. HasRow(k) => Stored(k) = Size
  BY <1>1 DEF HasRow, DiskInv, Stored
<1>. QED  BY <1>2, <1>3, <1>4, UploadAssumption DEF FileOK

LEMMA BytesAreNext ==
  ASSUME UploadInv', Undisturbed', NEW k \in Transfers
  PROVE  Bytes'[k] = Stored(k)' /\ Stored(k)' \in 0..Size
<1>1. StateOK' /\ DiskInv'
  BY DEF UploadInv, MemoryInv, BaseInv
<1>2. path(k) \in Paths
  BY PathsAre
<1>3. disk'[path(k)] \in Seq(Content)
  BY <1>1, <1>2 DEF StateOK
<1>. PICK file \in Seq(Content) : file = disk'[path(k)]
  BY <1>3
<1>4. FileOK(k)' /\ Stored(k)' = Len(file)
  BY <1>1 DEF DiskInv, Stored, path
<1>5. Len(file) \in Nat /\ Len(file) <= Size /\ \A i \in 1..Len(file) : file[i] = Byte(md5[k], i)
  BY <1>4 DEF FileOK, path, Byte
<1>6. GoodPrefix(file, md5[k]) = Len(file)
  BY <1>5, PrefixIs
<1>7. Bytes'[k] = GoodPrefix(file, md5[k])
  BY DEF Bytes, path, GoodPrefix, Byte
<1>. QED  BY <1>4, <1>5, <1>6, <1>7, UploadAssumption

(* The steps of Transfer, said of Bytes, Told and Called.                   *)
LEMMA ItStutters ==
  ASSUME Bytes' = Bytes, Told' = Told, Called' = Called, Undisturbed, Undisturbed'
  PROVE  UNCHANGED Sender!vars
BY DEF Sender!vars, Bytes, Told, Called, HasRow

LEMMA ItStores ==
  ASSUME NEW c \in Transfers, ~Called[c], NEW n \in Bytes[c]..Size, Bytes' = [Bytes EXCEPT ![c] = n],
         Told' = Told, Called' = Called, Undisturbed, Undisturbed'
  PROVE  Sender!Store(c)
BY DEF Sender!Store, Bytes, Told, Called, HasRow

LEMMA ItAcknowledges ==
  ASSUME NEW c \in Transfers, NEW n \in 0..Bytes[c], Told' = [Told EXCEPT ![c] = n],
         Bytes' = Bytes, Called' = Called, Undisturbed, Undisturbed'
  PROVE  Sender!Acknowledge(c)
BY DEF Sender!Acknowledge, Bytes, Told, Called, HasRow

LEMMA ItFinishes ==
  ASSUME NEW c \in Transfers, Bytes[c] = Size, Called' = [Called EXCEPT ![c] = TRUE],
         Bytes' = Bytes, Told' = Told, Undisturbed, Undisturbed'
  PROVE  Sender!Finish(c)
BY DEF Sender!Finish, Bytes, Told, Called, HasRow

LEMMA SenderInit == Separate /\ Init => Sender!Init
<1>. SUFFICES ASSUME Init PROVE Sender!Init
  OBVIOUS
<1>1. ASSUME NEW k \in Transfers PROVE GoodPrefix(disk[path(k)], md5[k]) = 0 /\ client[k].pos = 0
  <2>1. disk[path(k)] = <<>> /\ client[k].pos = 0
    BY PathsAre DEF Init
  <2>2. <<>> \in Seq(Content) /\ Len(<<>>) = 0
    OBVIOUS
  <2>3. \A i \in 1..Len(<<>>) : <<>>[i] = Byte(md5[k], i)
    BY <2>2
  <2>4. GoodPrefix(<<>>, md5[k]) = 0
    BY <2>2, <2>3, PrefixIs
  <2>. QED  BY <2>1, <2>4
<1>2. Len(t_file) = 0 /\ Undisturbed
  BY DEF Init, Undisturbed
<1>3. 1..0 = {}
  OBVIOUS
<1>. QED  BY <1>1, <1>2, <1>3 DEF Sender!Init

LEMMA SenderStep ==
  ASSUME Separate, UploadInv, UploadInv', [Next]_vars
  PROVE  [Sender!Next]_(Sender!vars)
<1>. SUFFICES ASSUME Undisturbed' PROVE [Sender!Next]_(Sender!vars)
  BY DEF Sender!Next
<1>1. StateOK /\ BaseInv /\ OwnInv /\ MemoryInv /\ PosInv /\ DiskInv /\ StateOK'
  BY DEF UploadInv, MemoryInv, BaseInv
<1>2. Undisturbed /\ Steady
  BY <1>1, FaultsGrow DEF Undisturbed, Steady
<1>3. \A k \in Transfers : /\ Bytes[k] = Stored(k) /\ Bytes'[k] = Stored(k)' /\ Stored(k) \in 0..Size /\ Stored(k)' \in 0..Size
                           /\ HasRow(k) => Stored(k) = Size
  BY <1>2, BytesAre, BytesAreNext
<1>4. ASSUME UNCHANGED disk PROVE Bytes' = Bytes
  <2>1. \A k \in Transfers : GoodPrefix(disk'[path(k)], md5[k]) = GoodPrefix(disk[path(k)], md5[k])
    BY <1>4
  <2>. QED  BY <2>1 DEF Bytes, path, GoodPrefix, Byte
<1>5. UNCHANGED client => Told' = Told
  BY DEF Told
<1>6. ASSUME UNCHANGED t_file PROVE Called' = Called
  BY <1>6 DEF Called, HasRow, path
<1>7. ASSUME UNCHANGED <<disk, client, t_file>> PROVE UNCHANGED Sender!vars
  BY <1>2, <1>4, <1>5, <1>6, <1>7, ItStutters
<1>8. ASSUME NEW s \in Slots, uploadFile(s) PROVE [Sender!Next]_(Sender!vars)
  <2>1. CASE uploadFile_quick(s) \/ uploadFile_quickInsert(s) \/ uploadFile_selectId(s) \/ uploadFile_insertRel(s)
    BY <1>1, <1>7, <2>1, QuickDoes, QuickInsertDoes, SelectIdDoes, InsertRelDoes DEF SameDb, Relates
  <2>2. CASE uploadFile_insertFile(s)
    <3>. PICK new \in Nat : new = Len(t_file) + 1
      BY <1>1 DEF StateOK
    <3>1. /\ UNCHANGED <<disk, client>> /\ Len(t_file') = new /\ \A i \in 1..Len(t_file) : t_file'[i] = t_file[i]
          /\ t_file'[new] = [md5 |-> md5[run[s].k], path |-> path(run[s].k), state |-> 0]
      BY <1>1, <2>2, InsertFileDoes
    <3>2. t_file'[new].state = 0
      BY <3>1
    <3>3. \A i \in 1..new : i \in 1..Len(t_file) \/ i = new
      BY <1>1 DEF StateOK
    <3>4. \A i \in 1..Len(t_file) : i \in 1..new
      BY <1>1 DEF StateOK
    <3>5. ASSUME NEW k \in Transfers PROVE HasRow(k)' = HasRow(k)
      BY <3>1, <3>2, <3>3, <3>4 DEF HasRow, path
    <3>6. Called' = Called
      BY <3>5 DEF Called
    <3>. QED  BY <1>2, <1>4, <1>5, <3>1, <3>6, ItStutters
  <2>3. CASE uploadFile_open(s)
    <3>1. /\ run[s] # Idle /\ run[s].fn = "uploadFile" /\ disk' = [disk EXCEPT ![path(run[s].k)] = <<>>]
          /\ UNCHANGED <<client, t_file>>
      BY <1>1, <2>3, OpenDoes, HandlingIsNotIdle DEF Runs, SameDb
    <3>. PICK k \in Transfers : k = run[s].k
      BY <1>1, <3>1, AHandlerRuns
    <3>2. disk[path(k)] = <<>>
      <4>1. Stored(k) = 0
        BY <1>1, <1>2, <3>1, DiskNow DEF DiskAt
      <4>2. disk[path(k)] \in Seq(Content)
        BY <1>1, SizesAre
      <4>. QED  BY <4>1, <4>2, EmptySeq DEF Stored
    <3>3. disk' = disk
      BY <1>1, <3>1, <3>2 DEF StateOK
    <3>. QED  BY <1>7, <3>1, <3>3
  <2>. QED  BY <1>8, <2>1, <2>2, <2>3 DEF uploadFile
<1>9. ASSUME NEW s \in Slots, fileContentRq_write(s) PROVE [Sender!Next]_(Sender!vars)
  <2>1. run[s] # Idle /\ run[s].fn = "fileContentRq" /\ run[s].step = "write" /\ UNCHANGED <<client, t_file>>
    BY <1>1, <1>9, WriteDoes, HandlingIsNotIdle DEF Runs, SameDb
  <2>. PICK k \in Transfers : k = run[s].k
    BY <1>1, <2>1, AHandlerRuns
  <2>2. OtherFiles(k)
    BY <1>1, <1>9, HandlerApart DEF Apart, fileContentRq
  <2>3. Stored(k) <= Stored(k)'
    BY <1>1, <1>2, <1>9, WriteStores
  <2>. PICK n \in 0..Size : n = Stored(k)'
    BY <1>3
  <2>4. n \in Bytes[k]..Size
    BY <1>3, <2>3
  <2>5. Bytes' = [Bytes EXCEPT ![k] = n]
    <3>1. ASSUME NEW l \in Transfers PROVE Bytes'[l] = IF l = k THEN n ELSE Bytes[l]
      <4>1. CASE l = k
        BY <1>3, <4>1
      <4>2. CASE l # k
        <5>1. disk'[path(l)] = disk[path(l)]
          BY <2>2, <4>2 DEF OtherFiles
        <5>. QED  BY <1>3, <4>2, <5>1 DEF Stored, path
      <4>. QED  BY <4>1, <4>2
    <3>. QED  BY <3>1 DEF Bytes
  <2>6. CASE Called[k]
    <3>1. Bytes[k] = Size
      BY <1>3, <2>6 DEF Called
    <3>2. n = Bytes[k]
      BY <2>4, <3>1, UploadAssumption
    <3>3. Bytes' = Bytes
      BY <2>5, <3>2 DEF Bytes
    <3>. QED  BY <1>2, <1>5, <1>6, <2>1, <3>3, ItStutters
  <2>7. CASE ~Called[k]
    BY <1>2, <1>5, <1>6, <2>1, <2>4, <2>5, <2>7, ItStores DEF Sender!Next
  <2>. QED  BY <2>6, <2>7
<1>10. ASSUME NEW s \in Slots, fileContentRq_update(s) PROVE [Sender!Next]_(Sender!vars)
  <2>1. /\ run[s] # Idle /\ run[s].fn = "fileContentRq" /\ run[s].step = "update" /\ UNCHANGED <<disk, client>>
        /\ run[s].fid \in 1..Len(t_file) /\ (Completes(run[s].fid) \/ UNCHANGED t_file)
    BY <1>1, <1>10, UpdateDoes, HandlingIsNotIdle DEF Runs
  <2>. PICK k \in Transfers, fid \in 1..Len(t_file) : k = run[s].k /\ fid = run[s].fid
    BY <1>1, <2>1, AHandlerRuns
  <2>2. t_file[fid].path = path(k)
    BY <1>1, <2>1 DEF BaseInv, HandlerOK, RowOf
  <2>3. Bytes[k] = Size
    <3>1. run[s].hi >= Size /\ run[s].hi <= Stored(k) /\ run[s].hi \in Nat
      BY <1>1, <1>2, <2>1, WriterIs
    <3>2. Stored(k) \in 0..Size
      BY <1>3
    <3>. QED  BY <1>3, <3>1, <3>2, UploadAssumption
  <2>4. CASE UNCHANGED t_file
    BY <1>7, <2>1, <2>4
  <2>5. CASE Completes(fid)
    <3>1. Called' = [Called EXCEPT ![k] = TRUE]
      <4>1. HasRow(k)' = TRUE
        BY <2>2, <2>5 DEF HasRow, Completes, path
      <4>2. ASSUME NEW l \in Transfers, l # k PROVE HasRow(l)' = HasRow(l)
        <5>1. path(l) # path(k)
          BY <4>2 DEF Separate, SeparatePaths
        <5>. QED  BY <2>2, <2>5, <5>1 DEF HasRow, Completes, path
      <4>. QED  BY <4>1, <4>2 DEF Called
    <3>. QED  BY <1>2, <1>4, <1>5, <2>1, <2>3, <3>1, ItFinishes DEF Sender!Next
  <2>. QED  BY <2>1, <2>4, <2>5
<1>11. ASSUME NEW s \in Slots, fileContentRq(s) PROVE [Sender!Next]_(Sender!vars)
  <2>1. CASE fileContentRq_find(s) \/ fileContentRq_failed(s) \/ fileContentRq_read(s) \/ fileContentRq_advance(s)
             \/ fileContentRq_close(s)
    BY <1>1, <1>7, <2>1, FindDoes, FailedDoes, ReadDoes, AdvanceDoes, CloseDoes DEF SameDb
  <2>. QED  BY <1>9, <1>10, <1>11, <2>1 DEF fileContentRq
<1>12. ASSUME NEW s \in Slots, continueUpload(s) PROVE [Sender!Next]_(Sender!vars)
  BY <1>1, <1>7, <1>12, ContinueFindDoes, ContinueSelectDoes, ReopenDoes, SeekDoes DEF continueUpload, SameDb
<1>13. ASSUME NEW s \in Slots, SendData(s) PROVE [Sender!Next]_(Sender!vars)
  <2>1. /\ run[s] # Idle /\ run[s].step \in {"reply", "replyQuick"} /\ UNCHANGED <<disk, t_file>>
        /\ run[s].step = "replyQuick" => run[s].fn = "uploadFile"
        /\ \/ UNCHANGED client
           \/ OthersClients(run[s].k) /\ AnswerTo(run[s].k, s)
    BY <1>1, <1>13, SendDataDoes DEF SameDb
  <2>. PICK k \in Transfers, m \in Nat : k = run[s].k /\ m = client[k].pos
    BY <1>1, <2>1, AHandlerRuns, ClientIs
  <2>2. CASE UNCHANGED client
    BY <1>7, <2>1, <2>2
  <2>3. CASE OthersClients(k) /\ AnswerTo(k, s)
    <3>1. run[s].fn \in Handlers /\ DiskAt(s, k) /\ run[s].n \in Int /\ run[s].hi \in Nat /\ HandlerOK(s)
      BY <1>1, <1>2, <2>1, AHandlerRuns, DiskNow DEF BaseInv
    <3>2. client'[k].pos = m \/ client'[k].pos \in 0..Stored(k)
      <4>1. Stored(k) \in Nat
        BY <1>3
      <4>2. CASE run[s].fn = "uploadFile"
        BY <2>1, <2>3, <4>1, <4>2 DEF AnswerTo
      <4>3. CASE run[s].fn = "fileContentRq"
        <5>1. run[s].step = "reply"
          BY <2>1, <4>3
        <5>2. run[s].n = 1 => run[s].hi <= Stored(k)
          BY <3>1, <4>3, <5>1 DEF DiskAt
        <5>. QED  BY <2>3, <3>1, <4>1, <4>3, <5>2 DEF AnswerTo
      <4>4. CASE run[s].fn = "continueUpload"
        <5>1. run[s].step = "reply"
          BY <2>1, <4>4
        <5>2. run[s].n <= Stored(k) /\ run[s].n \in Nat
          BY <3>1, <4>4, <5>1 DEF DiskAt, HandlerOK
        <5>. QED  BY <2>3, <4>1, <4>4, <5>2 DEF AnswerTo
      <4>. QED  BY <3>1, <4>2, <4>3, <4>4 DEF Handlers
    <3>. PICK n : n = client'[k].pos
      OBVIOUS
    <3>3. Told' = [Told EXCEPT ![k] = n]
      BY <2>3 DEF Told, OthersClients
    <3>4. CASE n = m
      <4>1. Told' = Told
        BY <3>3, <3>4 DEF Told
      <4>. QED  BY <1>2, <1>4, <1>6, <2>1, <4>1, ItStutters
    <3>5. CASE n \in 0..Stored(k)
      <4>1. n \in 0..Bytes[k]
        BY <1>3, <3>5
      <4>. QED  BY <1>2, <1>4, <1>6, <2>1, <3>3, <4>1, ItAcknowledges DEF Sender!Next
    <3>. QED  BY <3>2, <3>4, <3>5
  <2>. QED  BY <2>1, <2>2, <2>3
<1>14. ASSUME NEW s \in Slots, CallFails(s) \/ lost(s) PROVE [Sender!Next]_(Sender!vars)
  BY <1>1, <1>7, <1>14, CallFailsDoes, LostDoes DEF SameDb
<1>15. ASSUME UNCHANGED <<disk, t_file>>, \A k \in Transfers : client'[k].pos = client[k].pos PROVE UNCHANGED Sender!vars
  <2>1. Told' = Told
    BY <1>15 DEF Told
  <2>. QED  BY <1>2, <1>4, <1>6, <1>15, <2>1, ItStutters
<1>16. ASSUME NEW k \in Transfers, Client(k) \/ disconnect(k) PROVE [Sender!Next]_(Sender!vars)
  <2>1. UNCHANGED <<disk, t_file>> /\ OthersClients(k) /\ client'[k].pos = client[k].pos
    BY <1>1, <1>16, SendUploadDoes, SendBlockDoes, SendContinueDoes, DisconnectDoes DEF Client, SameDb, Becomes, GoesOffline
  <2>. QED  BY <1>15, <2>1 DEF OthersClients
<1>17. CASE crash
  <2>1. UNCHANGED <<disk, t_file>> /\ \A k \in Transfers : client'[k].pos = client[k].pos
    BY <1>1, <1>17, CrashDoes DEF SameDb, GoesOffline
  <2>. QED  BY <1>15, <2>1
<1>18. CASE UNCHANGED vars
  BY <1>7, <1>18 DEF vars, db
<1>. QED  BY <1>8, <1>11, <1>12, <1>13, <1>14, <1>16, <1>17, <1>18 DEF Next, Handler

(* Short writes, failing calls and restarts between any two steps of the    *)
(* handlers lose no byte that was stored or that a client was told of, and  *)
(* a file is called complete only when all of it is stored.                 *)
THEOREM KeepsPromisesHolds == Separate => (Spec => KeepsPromises)
<1>. SUFFICES ASSUME Separate PROVE Spec => KeepsPromises
  OBVIOUS
<1>1. Init => Sender!Init
  BY SenderInit
<1>2. UploadInv /\ UploadInv' /\ [Next]_vars => [Sender!Next]_(Sender!vars)
  BY SenderStep
<1>3. Spec => []UploadInv
  BY UploadInvHolds
<1>. QED  BY <1>1, <1>2, <1>3, PTL DEF Spec, KeepsPromises, Sender!Spec

-----------------------------------------------------------------------------
(* ListInv.                                                                 *)
LEMMA ListMoves ==
  ASSUME StateOK, StateOK', RowsKept, t_user_file \subseteq t_user_file', ListInv, Calm,
         \A t \in Slots : run'[t] # Idle => run'[t] = run[t] \/ ListOfHandler(t, run[t].k)',
         \A k \in Transfers : client'[k] = client[k] \/ ListOfClient(k)'
  PROVE  ListInv'
<1>1. /\ \A k, fid : Related(k, fid) => Related(k, fid)'
      /\ \A k, fid : fid \in Complete(md5[k]) => fid \in Complete(md5[k])'
  BY RowsStay DEF Related
<1>2. ASSUME NEW t \in Slots, run'[t] # Idle PROVE ListOfHandler(t, run[t].k)'
  <2>1. CASE run'[t] = run[t]
    <3>1. ListOfHandler(t, run[t].k)
      BY <1>2, <2>1 DEF ListInv
    <3>. PICK k : k = run[t].k
      OBVIOUS
    <3>2. ListOfHandler(t, k)'
      BY <1>1, <2>1, <3>1 DEF ListOfHandler
    <3>. QED  BY <2>1, <3>2 DEF ListOfHandler, Related, Complete
  <2>. QED  BY <1>2, <2>1
<1>3. ASSUME NEW k \in Transfers PROVE ListOfClient(k)'
  <2>1. CASE client'[k] = client[k]
    <3>1. ListOfClient(k)
      BY DEF ListInv
    <3>2. \A fid : InList(k, fid) => InList(k, fid)'
      BY <1>1 DEF InList
    <3>. QED  BY <1>1, <2>1, <3>1, <3>2 DEF ListOfClient
  <2>. QED  BY <2>1
<1>. QED  BY <1>2, <1>3 DEF ListInv

LEMMA SameLists == SameDb => RowsKept /\ t_user_file \subseteq t_user_file'
BY SameRows DEF SameDb

LEMMA RelatesKeeps ==
  ASSUME StateOK, NEW s \in Slots, NEW fid, Relates(s, fid), NEW k \in Transfers, k = run[s].k
  PROVE  RowsKept /\ t_user_file \subseteq t_user_file' /\ Related(k, fid)'
BY DEF Relates, RowsKept, Related, StateOK

LEMMA ListUpload ==
  ASSUME BaseInv, StateOK', ListInv, Calm, NEW s \in Slots, uploadFile(s)
  PROVE  ListInv'
<1>1. StateOK
  BY DEF BaseInv
<1>2. run[s] # Idle /\ OthersRun(s) /\ UNCHANGED client
  BY HandlerMoves
<1>. PICK k \in Transfers : k = run[s].k
  BY <1>1, <1>2, AHandlerRuns
<1>3. ASSUME RowsKept, t_user_file \subseteq t_user_file', run'[s].fn = "uploadFile", run'[s].k = k,
             run'[s].step \in {"reply", "replyQuick"} => Related(k, run[s].fid)'
      PROVE  ListInv'
  <2>1. ListOfHandler(s, k)'
    BY <1>3 DEF ListOfHandler
  <2>2. ListOfHandler(s, run[s].k)'
    BY <1>3, <2>1 DEF ListOfHandler, Related, Complete
  <2>3. \A t \in Slots : run'[t] # Idle => run'[t] = run[t] \/ ListOfHandler(t, run[t].k)'
    BY <1>2, <2>2 DEF OthersRun
  <2>. QED  BY <1>1, <1>2, <1>3, <2>3, ListMoves
<1>4. CASE uploadFile_quick(s) \/ uploadFile_open(s) \/ uploadFile_selectId(s)
  <2>1. SameDb /\ run'[s].fn = "uploadFile" /\ run'[s].k = k /\ run'[s].step \in {"open", "quick", "insertFile", "insertRel"}
    BY <1>1, <1>4, QuickDoes, OpenDoes, SelectIdDoes DEF Runs, GoesOn
  <2>. QED  BY <1>3, <2>1, SameLists
<1>5. CASE uploadFile_insertFile(s)
  <2>1. /\ run'[s].fn = "uploadFile" /\ run'[s].k = k /\ run'[s].step = "selectId" /\ UNCHANGED t_user_file
        /\ Len(t_file') = Len(t_file) + 1 /\ \A i \in 1..Len(t_file) : t_file'[i] = t_file[i]
    BY <1>1, <1>5, InsertFileDoes DEF Runs, GoesOn
  <2>2. RowsKept
    BY <1>1, <2>1 DEF RowsKept, StateOK
  <2>. QED  BY <1>3, <2>1, <2>2
<1>6. CASE uploadFile_quickInsert(s) \/ uploadFile_insertRel(s)
  <2>. PICK fid : fid = run[s].fid
    OBVIOUS
  <2>1. run'[s].fn = "uploadFile" /\ run'[s].k = k /\ Relates(s, fid) /\ run'[s].fid = fid
    BY <1>1, <1>6, QuickInsertDoes, InsertRelDoes DEF Runs, GoesOn
  <2>2. RowsKept /\ t_user_file \subseteq t_user_file' /\ Related(k, fid)'
    BY <1>1, <2>1, RelatesKeeps
  <2>3. Related(k, run[s].fid)'
    BY <2>1, <2>2 DEF Related
  <2>. QED  BY <1>3, <2>1, <2>2, <2>3
<1>. QED  BY <1>4, <1>5, <1>6 DEF uploadFile

LEMMA ListContent ==
  ASSUME BaseInv, StateOK', PosInv, Steady, ListInv, Calm, Calm', NEW s \in Slots, fileContentRq(s)
  PROVE  ListInv'
<1>1. StateOK
  BY DEF BaseInv
<1>2. run[s] # Idle /\ OthersRun(s) /\ UNCHANGED client
  BY HandlerMoves
<1>3. run[s].fn = "fileContentRq"
  BY <1>1, <1>2, FindDoes, WriteDoes, FailedDoes, ReadDoes, AdvanceDoes, UpdateDoes, CloseDoes DEF fileContentRq, Runs
<1>. PICK k \in Transfers, fid \in Nat, hi \in Nat : k = run[s].k /\ fid = run[s].fid /\ hi = run[s].hi
  BY <1>1, <1>2, AHandlerRuns
<1>4. ListOfHandler(s, k) /\ PosOfHandler(s, k) /\ HandlerOK(s)
  BY <1>2 DEF ListInv, PosInv, BaseInv
<1>5. Related(k, fid)
  BY <1>3, <1>4 DEF ListOfHandler
<1>6. ASSUME RowsKept, UNCHANGED t_user_file,
             \/ run'[s] = Idle
             \/ /\ run'[s].fn = "fileContentRq" /\ run'[s].k = k /\ run'[s].fid = fid /\ run'[s].hi = hi
                /\ hi >= Size /\ (run'[s].step = "close" \/ (run'[s].step = "reply" /\ run'[s].n = 1))
                     => fid \in Complete(md5[k])'
      PROVE  ListInv'
  <2>1. ASSUME run'[s] # Idle PROVE ListOfHandler(s, run[s].k)'
    <3>1. Related(k, fid)'
      BY <1>5, <1>6 DEF Related
    <3>2. ListOfHandler(s, k)'
      BY <1>6, <2>1, <3>1 DEF ListOfHandler, Related
    <3>. QED  BY <1>6, <2>1, <3>2 DEF ListOfHandler, Related, Complete
  <2>2. \A t \in Slots : run'[t] # Idle => run'[t] = run[t] \/ ListOfHandler(t, run[t].k)'
    BY <1>2, <2>1 DEF OthersRun
  <2>. QED  BY <1>1, <1>2, <1>6, <2>2, ListMoves
<1>7. CASE fileContentRq_find(s) \/ fileContentRq_write(s) \/ fileContentRq_read(s)
  <2>1. /\ SameDb
        /\ \/ run'[s] = Idle
           \/ /\ run'[s].fn = "fileContentRq" /\ run'[s].k = k /\ run'[s].fid = fid /\ run'[s].hi = hi
              /\ run'[s].step \in {"write", "written", "failed", "advance"}
    BY <1>1, <1>7, FindDoes, WriteDoes, ReadDoes DEF Runs, GoesOn, Ends
  <2>. QED  BY <1>6, <2>1, SameRows DEF SameDb
<1>8. CASE fileContentRq_failed(s)
  <2>1. /\ SameDb /\ run'[s].fn = "fileContentRq" /\ run'[s].k = k /\ run'[s].fid = fid /\ run'[s].hi = hi
        /\ run'[s].step = "reply" /\ run'[s].n = 0
    BY <1>1, <1>8, FailedDoes DEF Runs, GoesOn
  <2>. QED  BY <1>6, <2>1, SameRows DEF SameDb
<1>9. CASE fileContentRq_advance(s)
  <2>1. /\ SameDb /\ run'[s].fn = "fileContentRq" /\ run'[s].k = k /\ run'[s].fid = fid /\ run'[s].hi = hi
        /\ run[s].step = "advance"
        /\ \/ run'[s].step = "update"
           \/ run[s].n < Size
    BY <1>1, <1>9, AdvanceDoes DEF Runs, GoesOn
  <2>2. run[s].n = hi
    BY <1>3, <1>4, <2>1 DEF PosOfHandler
  <2>3. run'[s].step = "update" \/ ~(hi >= Size)
    BY <2>1, <2>2, UploadAssumption
  <2>. QED  BY <1>6, <2>1, <2>3, SameRows DEF SameDb
<1>10. CASE fileContentRq_update(s)
  <2>1. ~Fault("call")
    BY <1>1, FaultDoes DEF Calm
  <2>2. /\ run'[s].fn = "fileContentRq" /\ run'[s].k = k /\ run'[s].fid = fid /\ run'[s].hi = hi
        /\ UNCHANGED t_user_file /\ Completes(fid) /\ fid \in 1..Len(t_file)
    BY <1>1, <1>10, <2>1, UpdateDoes DEF Runs, GoesOn
  <2>3. t_file[fid].md5 = md5[k]
    BY <1>3, <1>4 DEF HandlerOK, RowOf
  <2>4. RowsKept
    BY <1>1, <2>2 DEF Completes, RowsKept, StateOK
  <2>5. fid \in Complete(md5[k])'
    BY <2>2, <2>3 DEF Completes, Complete
  <2>. QED  BY <1>6, <2>2, <2>4, <2>5
<1>11. CASE fileContentRq_close(s)
  <2>1. /\ SameDb /\ run'[s].fn = "fileContentRq" /\ run'[s].k = k /\ run'[s].fid = fid /\ run'[s].hi = hi
        /\ run[s].step = "close"
    BY <1>1, <1>11, CloseDoes DEF Runs, GoesOn
  <2>2. hi >= Size
    BY <1>3, <1>4, <2>1 DEF PosOfHandler
  <2>3. fid \in Complete(md5[k])
    BY <1>3, <1>4, <2>1, <2>2 DEF ListOfHandler
  <2>4. fid \in Complete(md5[k])'
    BY <2>1, <2>3 DEF SameDb, Complete
  <2>. QED  BY <1>6, <2>1, <2>4, SameRows DEF SameDb
<1>. QED  BY <1>7, <1>8, <1>9, <1>10, <1>11 DEF fileContentRq

LEMMA ListSendData ==
  ASSUME MemoryInv, StateOK', ListInv, Calm, Steady, NEW s \in Slots, SendData(s)
  PROVE  ListInv'
<1>1. StateOK /\ BaseInv
  BY DEF MemoryInv, BaseInv
<1>2. /\ run[s] # Idle /\ run[s].step \in {"reply", "replyQuick"} /\ Ends(s)
      /\ run[s].step = "replyQuick" => run[s].fn = "uploadFile"
      /\ SameDb
      /\ \/ UNCHANGED client
         \/ /\ client' \in [Transfers -> Peer] /\ OthersClients(run[s].k) /\ AnswerTo(run[s].k, s)
  BY <1>1, SendDataDoes
<1>. PICK k \in Transfers, fid \in Nat : k = run[s].k /\ fid = run[s].fid
  BY <1>1, <1>2, AHandlerRuns
<1>3. ListOfHandler(s, k) /\ ListOfClient(k) /\ HandlerOK(s) /\ run[s].fn \in Handlers
  BY <1>1, <1>2, AHandlerRuns DEF ListInv, BaseInv
<1>4. ASSUME \A l \in Transfers : client'[l] = client[l] \/ ListOfClient(l)' PROVE ListInv'
  <2>1. \A t \in Slots : run'[t] # Idle => run'[t] = run[t] \/ ListOfHandler(t, run[t].k)'
    BY <1>2 DEF Ends, OthersRun
  <2>. QED  BY <1>1, <1>2, <1>4, <2>1, SameLists, ListMoves
<1>5. CASE UNCHANGED client
  BY <1>4, <1>5
<1>6. CASE OthersClients(k) /\ AnswerTo(k, s)
  <2>1. /\ \A g : Related(k, g)' <=> Related(k, g)
        /\ \A g : InList(k, g)' <=> InList(k, g)
    BY <1>2 DEF Related, InList, Complete, SameDb
  <2>2. ASSUME ListOfClient(k)' PROVE ListInv'
    BY <1>4, <1>6, <2>2 DEF OthersClients
  <2>3. ASSUME client'[k].phase \in {"sending", "done"}, NEW g, client'[k].fid = g,
               client'[k].phase = "sending" => Related(k, g),
               client'[k].phase = "done" => \E i \in Nat : InList(k, i)
        PROVE  ListInv'
    <3>1. ListOfClient(k)'
      BY <2>1, <2>3 DEF ListOfClient, Related
    <3>. QED  BY <2>2, <3>1
  <2>4. CASE run[s].fn = "uploadFile" /\ run[s].step = "replyQuick"
    <3>1. client'[k].phase = "done" /\ client'[k].fid = fid
      BY <1>6, <2>4 DEF AnswerTo
    <3>2. InList(k, fid)
      BY <1>3, <2>4 DEF HandlerOK, ListOfHandler, InList
    <3>. QED  BY <2>3, <3>1, <3>2
  <2>5. CASE run[s].fn = "uploadFile" /\ run[s].step = "reply"
    <3>1. client'[k].phase = "sending" /\ client'[k].fid = fid /\ Related(k, fid)
      BY <1>3, <1>6, <2>5 DEF AnswerTo, ListOfHandler
    <3>. QED  BY <2>3, <3>1
  <2>6. CASE run[s].fn = "fileContentRq"
    <3>1. client[k].phase = "waiting"
      BY <1>2, <2>6, ClientWaits DEF PhaseOf
    <3>2. Related(k, client[k].fid) /\ Related(k, fid) /\ run[s].step = "reply"
      BY <1>2, <1>3, <2>6, <3>1 DEF ListOfClient, ListOfHandler
    <3>3. client'[k].fid = client[k].fid
      BY <1>6, <2>6 DEF AnswerTo
    <3>4. CASE run[s].n = 1
      <4>1. client'[k].phase = AllSent(run[s].hi)
        BY <1>6, <2>6, <3>4 DEF AnswerTo
      <4>2. client'[k].phase = "sending" \/ (client'[k].phase = "done" /\ run[s].hi >= Size)
        BY <4>1 DEF AllSent
      <4>3. run[s].hi >= Size => InList(k, fid)
        BY <1>3, <2>6, <3>2, <3>4 DEF ListOfHandler, InList
      <4>. QED  BY <2>3, <3>2, <3>3, <4>2, <4>3
    <3>5. CASE run[s].n # 1
      <4>1. client'[k].phase = "sending"
        BY <1>6, <2>6, <3>5 DEF AnswerTo
      <4>. QED  BY <2>3, <3>2, <3>3, <4>1
    <3>. QED  BY <3>4, <3>5
  <2>. QED  BY <1>2, <1>3, <2>4, <2>5, <2>6 DEF ListOfHandler, Handlers
<1>. QED  BY <1>2, <1>5, <1>6

LEMMA ListClient ==
  ASSUME BaseInv, StateOK', ListInv, Calm, NEW k \in Transfers, Client(k)
  PROVE  ListInv'
<1>1. StateOK /\ ListOfClient(k)
  BY DEF BaseInv, ListInv
<1>2. ASSUME SameDb, NEW s \in Slots, NEW fn, NEW lo, NEW hi, Asks(k, s, fn, lo, hi), NEW phase, Becomes(k, phase),
             \/ fn = "uploadFile" /\ phase = "asked"
             \/ fn = "fileContentRq" /\ phase = "waiting" /\ Related(k, client[k].fid)
      PROVE  ListInv'
  <2>. PICK fid : fid = client[k].fid
    OBVIOUS
  <2>1. /\ run'[s].fn = fn /\ run'[s].k = k /\ run'[s].step = "start" /\ run'[s].fid = fid /\ OthersRun(s)
        /\ client'[k].phase = phase /\ client'[k].fid = fid
    BY <1>2 DEF Asks, Becomes
  <2>2. Related(k, fid) => Related(k, fid)'
    BY <1>2 DEF Related, SameDb
  <2>3. ListOfHandler(s, k)' /\ ListOfClient(k)'
    BY <1>2, <2>1, <2>2 DEF ListOfHandler, ListOfClient, Related
  <2>4. ListOfHandler(s, run[s].k)'
    BY <2>1, <2>3 DEF ListOfHandler, Related, Complete
  <2>5. \A t \in Slots : run'[t] # Idle => run'[t] = run[t] \/ ListOfHandler(t, run[t].k)'
    BY <2>1, <2>4 DEF OthersRun
  <2>6. \A l \in Transfers : client'[l] = client[l] \/ ListOfClient(l)'
    BY <1>2, <2>3 DEF Becomes, OthersClients
  <2>. QED  BY <1>1, <1>2, <2>5, <2>6, SameLists, ListMoves
<1>3. CASE sendUpload(k)
  BY <1>1, <1>2, <1>3, SendUploadDoes
<1>4. CASE sendBlock(k)
  <2>1. client[k].phase = "sending" /\ Related(k, client[k].fid)
    BY <1>1, <1>4, SendBlockDoes DEF ListOfClient
  <2>. QED  BY <1>1, <1>2, <1>4, <2>1, SendBlockDoes
<1>5. CASE sendContinue(k)
  BY <1>1, <1>5, SendContinueDoes DEF ListOfClient
<1>. QED  BY <1>3, <1>4, <1>5 DEF Client

LEMMA ListInvInit == Init => ListInv
BY DEF Init, ListInv, ListOfClient

LEMMA ListInvStep == MemoryInv /\ PosInv /\ ListInv /\ StateOK' /\ [Next]_vars => ListInv'
<1>. SUFFICES ASSUME MemoryInv, PosInv, ListInv, StateOK', [Next]_vars, Calm' PROVE ListInv'
  BY DEF ListInv
<1>1. StateOK /\ BaseInv
  BY DEF MemoryInv, BaseInv
<1>2. Calm /\ Steady
  BY <1>1, FaultsGrow DEF Calm, Steady
<1>3. ASSUME NEW kind \in {"call", "reconnect", "crash"}, Fault(kind) PROVE FALSE
  BY <1>1, <1>3, FaultDoes DEF Calm
<1>4. ASSUME NEW s \in Slots, uploadFile(s) \/ fileContentRq(s) \/ SendData(s) PROVE ListInv'
  BY <1>1, <1>2, <1>4, ListUpload, ListContent, ListSendData
<1>5. ASSUME NEW s \in Slots, continueUpload(s) PROVE FALSE
  <2>1. run[s] # Idle /\ run[s].fn = "continueUpload"
    BY <1>1, <1>5, HandlerMoves, ContinueFindDoes, ContinueSelectDoes, ReopenDoes, SeekDoes DEF continueUpload, Runs
  <2>. QED  BY <1>2, <2>1 DEF ListInv, ListOfHandler
<1>6. ASSUME NEW s \in Slots, CallFails(s) PROVE FALSE
  BY <1>1, <1>3, <1>6, CallFailsDoes
<1>7. ASSUME NEW s \in Slots, lost(s) PROVE ListInv'
  <2>1. SameDb /\ UNCHANGED client /\ run'[s] = Idle /\ OthersRun(s)
    BY <1>1, <1>7, LostDoes DEF Ends
  <2>2. \A t \in Slots : run'[t] # Idle => run'[t] = run[t] \/ ListOfHandler(t, run[t].k)'
    BY <2>1 DEF OthersRun
  <2>. QED  BY <1>1, <1>2, <2>1, <2>2, SameLists, ListMoves
<1>8. ASSUME NEW k \in Transfers, Client(k) PROVE ListInv'
  BY <1>1, <1>2, <1>8, ListClient
<1>9. ASSUME NEW k \in Transfers, disconnect(k) PROVE FALSE
  BY <1>1, <1>3, <1>9, DisconnectDoes
<1>10. CASE crash
  BY <1>1, <1>3, <1>10, CrashDoes
<1>11. CASE UNCHANGED vars
  <2>1. SameDb /\ UNCHANGED <<client, run>>
    BY <1>11 DEF vars, db, SameDb
  <2>. QED  BY <1>1, <1>2, <2>1, SameLists, ListMoves
<1>. QED  BY <1>4, <1>5, <1>6, <1>7, <1>8, <1>9, <1>10, <1>11 DEF Next, Handler

(* As long as nothing but writes goes wrong, a client that was told that    *)
(* its last block has arrived has the file in its list.                     *)
THEOREM DoneMeansListedHolds ==
  Separate /\ FaultKinds \subseteq {"write"} => (Spec => []DoneMeansListed)
<1>. SUFFICES ASSUME Separate, FaultKinds \subseteq {"write"} PROVE Spec => []DoneMeansListed
  OBVIOUS
<1>1. Init => ListInv
  BY ListInvInit
<1>2. UploadInv /\ UploadInv' /\ ListInv /\ [Next]_vars => ListInv'
  BY ListInvStep DEF UploadInv, MemoryInv, BaseInv
<1>3. UploadInv /\ ListInv => DoneMeansListed
  <2>. SUFFICES ASSUME UploadInv, ListInv, NEW k \in Transfers, client[k].phase = "done" PROVE Listed(k)
    BY DEF DoneMeansListed
  <2>1. Calm
    BY DEF UploadInv, SeenInv, Calm
  <2>2. PICK fid \in Nat : InList(k, fid)
    BY <2>1 DEF ListInv, ListOfClient
  <2>. QED  BY <2>2 DEF InList, Related, Complete, Listed
<1>4. Spec => []UploadInv
  BY UploadInvHolds
<1>. QED  BY <1>1, <1>2, <1>3, <1>4, PTL DEF Spec

=============================================================================
