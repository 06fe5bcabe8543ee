--------------------------- MODULE DownloadProofs ---------------------------
(***************************************************************************)
(* Theorems about Download, for every tree of files, number of slots, size *)
(* of a file and of a block, and every number of faults.                   *)
(*                                                                         *)
(* They are about requests that do not compete for timestamps (Apart): a   *)
(* folder takes any timestamp from that of its request on, so no file is   *)
(* asked for under one of those.  With two folders asked for at once the   *)
(* map loses sessions.                                                     *)
(*                                                                         *)
(* The invariants stand on one another:                                    *)
(*   BaseInv     what every variable holds, and what a handler remembers    *)
(*   OwnerInv    whose request a timestamp is, and who walks a folder       *)
(*   TimesInv    what session, client and requests of a timestamp know of   *)
(*               one another, and that a free timestamp is free             *)
(*   SteadyInv   without a reconnect every open FileInfo is in the map      *)
(*   SizeInv     the offsets of all descriptors                             *)
(* Each is shown to be kept by every step, from those before it.            *)
(***************************************************************************)
EXTENDS Download, FiniteSetTheorems, SequenceTheorems, TLAPS

(* The timestamps that a request may use. *)
Own(r, t) == IF r[2] \in Folders THEN r[1] <= t ELSE r[1] = t
Apart == \A q, r \in Requests, t \in Times : Own(q, t) /\ Own(r, t) => q = r

Piece  == Files \X Nat
Frame  == [time : Times, rest : Seq(Files \cup Folders)]
Object == [file : Files, time : Times, pos : Nat, off : Nat, alive : BOOLEAN]

WalkSteps  == {"downloadFolderByDir", "next", "find"}
OpenSteps  == {"downloadFile", "open", "IsExist", "header"}
ReplySteps == {"downloadFileHeadRs", "first", "fileContentRs", "advance", "close",
               "continueDownload", "reopen", "seek"}
AllSteps   == WalkSteps \cup OpenSteps \cup ReplySteps \cup {"block"}
Handling ==
  [step : AllSteps, epoch : Nat, time : Times, file : Files \cup Folders, frames : Seq(Frame),
   obj : Nat, bytes : Seq(Piece), n : Int, result : BOOLEAN]
Phases == {"none", "header", "waiting", "answer", "offline", "done"}
Peer   == [file : Files \cup {"none"}, got : Seq(Piece), phase : Phases, n : Nat]

(* What every variable holds.                                               *)
StateOK ==
  /\ m_mapTimstampToFileinfo \in [Keys -> Nat]
  /\ info \in Seq(Object)
  /\ run \in [Slots -> Handling \cup {Idle}]
  /\ epoch \in Nat /\ asked \subseteq Requests
  /\ client \in [Times -> Peer]
  /\ faults \in [left : Nat, seen : SUBSET (AllFaults \cup {"overtaken"})]

(* The session under a timestamp is open and is one of that timestamp; none *)
(* is under a timestamp alone.                                              *)
Held(t) == m_mapTimstampToFileinfo[user_time(t)]
MapOK(t) ==
  /\ m_mapTimstampToFileinfo[<<0, t>>] = 0
  /\ Held(t) # 0 => Held(t) \in 1..Len(info) /\ info[Held(t)].time = t /\ info[Held(t)].alive

(* A handler is at one of its steps, and what it remembers exists.          *)
HandlerOK(s) ==
  LET h == run[s]
  IN  /\ h.obj # 0 => h.obj \in 1..Len(info) /\ info[h.obj].time = h.time
      /\ h.step \in {"first", "advance", "close", "seek"} => h.obj # 0
      /\ h.step \in WalkSteps \cup OpenSteps => h.obj = 0
      /\ h.step \in OpenSteps \cup ReplySteps => h.file \in Files
      /\ h.step = "downloadFolderByDir" => h.file \in Folders
      /\ h.step \in {"next", "find"} => h.frames # <<>>
      /\ h.step \in ReplySteps \cup {"block"} => h.frames = <<>>
      /\ h.step \in ReplySteps => h.n \in Nat
ClientOK(t) == client[t].phase # "none" => client[t].file \in Files

BaseInv ==
  /\ StateOK
  /\ \A t \in Times : MapOK(t) /\ ClientOK(t)
  /\ \A s \in Slots : run[s] # Idle => HandlerOK(s) /\ run[s].epoch <= epoch

-----------------------------------------------------------------------------
(* Whose timestamps are used: those of requests that were sent, and those   *)
(* of a folder by its handler only.                                         *)
Started(t) == \E r \in asked : Own(r, t)
FolderStarted(t) == \E r \in asked : r[2] \in Folders /\ r[1] <= t
Works(s) == run[s] # Idle /\ run[s].step \in WalkSteps \cup OpenSteps
Walks(s) == Works(s) /\ (run[s].step \in WalkSteps \/ run[s].frames # <<>>)

HandlerOwns(s) ==
  /\ Started(run[s].time)
  /\ Walks(s) => FolderStarted(run[s].time)
  /\ \A i \in 1..Len(run[s].frames) : FolderStarted(run[s].frames[i].time)
OwnerInv ==
  /\ \A t \in Times : Held(t) # 0 \/ client[t].phase # "none" => Started(t)
  /\ \A s \in Slots : run[s] # Idle => HandlerOwns(s)
  /\ \A s, u \in Slots, r \in Requests :
       Works(s) /\ Works(u) /\ Own(r, run[s].time) /\ Own(r, run[u].time) => s = u

-----------------------------------------------------------------------------
(* What session, client and requests of a timestamp know of one another, as *)
(* long as no client has resumed beside its own old request.  A request is  *)
(* under way until its answer has arrived; the answer for a connection that *)
(* was lost does not count.                                                 *)
Calm == "overtaken" \notin faults.seen
At(s, t) == run[s] # Idle /\ run[s].time = t
Replies(s, t) ==
  /\ At(s, t)
  /\ run[s].step \in ReplySteps \/ (run[s].step = "block" /\ run[s].epoch = epoch)
Opens(s, t) == At(s, t) /\ run[s].step \in OpenSteps

Got(t) == Len(client[t].got)
Is(t, f) == Held(t) # 0 /\ info[Held(t)].file = f
Stands(t, pos, off) == Held(t) # 0 /\ info[Held(t)].pos = pos /\ info[Held(t)].off = off

PhaseOK(s, t) ==
  LET h == run[s]
  IN  IF h.epoch = epoch
      THEN \/ client[t].phase = "waiting"
           \/ client[t].phase = "done" /\ h.step \in {"fileContentRs", "advance", "close", "block"}
      ELSE client[t].phase \in {"offline", "done"}
ReplyOK(s, t) ==
  LET h == run[s]
      c == client[t]
  IN  /\ PhaseOK(s, t)
      /\ Held(t) # 0 => info[Held(t)].file = c.file
      /\ h.step \in {"first", "advance", "close", "seek"} => h.obj = Held(t) /\ Held(t) # 0
      /\ h.step \in {"downloadFileHeadRs", "first"} => Got(t) = 0 /\ Stands(t, 0, 0)
      /\ h.step \in {"fileContentRs", "advance"} /\ h.result =>
           /\ Held(t) # 0 /\ info[Held(t)].pos + h.n = Got(t) /\ info[Held(t)].off = Got(t)
           /\ c.phase # "done" => Got(t) < Size[c.file]
      /\ h.step \in {"fileContentRs", "advance"} /\ ~h.result =>
           Stands(t, Got(t), Got(t) + h.n) /\ Got(t) + h.n <= Size[c.file]
      /\ h.step = "close" => c.phase = "done"
      /\ h.step \in {"continueDownload", "reopen", "seek"} =>
           h.n = Got(t) /\ h.file = c.file /\ c.phase # "done" /\ Got(t) < Size[c.file]
      /\ h.step = "block" /\ c.phase = "waiting" /\ h.n >= 0 =>
           /\ Stands(t, Got(t), Got(t) + h.n) /\ Got(t) + h.n <= Size[c.file]
           /\ h.bytes = Bytes(c.file, Got(t), Got(t) + h.n)

PeerOK(t) ==
  LET c == client[t]
  IN  /\ c.phase # "none" => Got(t) <= Size[c.file] /\ c.got = Bytes(c.file, 0, Got(t))
      /\ c.phase = "done" => Got(t) = Size[c.file]
      /\ c.phase = "offline" => Got(t) < Size[c.file]
      /\ c.phase \in Active \cup {"offline"} /\ Held(t) # 0 => info[Held(t)].file = c.file
      /\ c.phase = "header" => Got(t) = 0 /\ Stands(t, 0, 0)
      /\ c.phase = "answer" => /\ Held(t) # 0 /\ info[Held(t)].pos + c.n = Got(t)
                               /\ info[Held(t)].off = Got(t)

Quiet(t) == client[t].phase \in {"none", "done"} /\ \A s \in Slots : ~Replies(s, t)
OpenerOK(s, t) ==
  /\ Quiet(t)
  /\ run[s].step \in {"downloadFile", "open"} => Held(t) = 0
  /\ run[s].step \in {"IsExist", "header"} => Is(t, run[s].file) /\ Stands(t, 0, 0)

TimeOK(t) ==
  /\ \A s, u \in Slots : Replies(s, t) /\ Replies(u, t) => s = u
  /\ \A s \in Slots : Replies(s, t) => ReplyOK(s, t)
  /\ \A s \in Slots : Opens(s, t) => OpenerOK(s, t)
  /\ PeerOK(t)

(* While a folder is walked, a timestamp that looks free is free.           *)
Walked == \E s \in Slots : Walks(s)
FreeOK(t) == Walked /\ FolderStarted(t) /\ Held(t) = 0 => Quiet(t)

TimesInv == Calm => \A t \in Times : TimeOK(t) /\ FreeOK(t)

-----------------------------------------------------------------------------
(* Without a reconnect no request is older than its client's connection,    *)
(* and a session is only opened under a timestamp that has none.            *)
Steady == "reconnect" \notin faults.seen
NoneIsLost == \A o \in 1..Len(info) : info[o].alive => Held(info[o].time) = o
AllSteady ==
  /\ \A s \in Slots : run[s] # Idle => run[s].epoch = epoch
  /\ \A s \in Slots, t \in Times :
       At(s, t) /\ run[s].step \in {"continueDownload", "reopen"} => Held(t) = 0
  /\ \A t \in Times : client[t].phase = "offline" => Held(t) = 0
  /\ NoneIsLost
SteadyInv == Steady => Calm /\ AllSteady

Fresh == faults.seen \cap {"read", "overtaken"} = {}
AllSizes == \A o \in 1..Len(info) : info[o].off <= Size[info[o].file]
SizeInv == Fresh => AllSizes

-----------------------------------------------------------------------------
LEMMA HandlingIsNotIdle == \A h \in Handling : h # Idle
<1>. SUFFICES ASSUME NEW h \in Handling PROVE h # Idle
  OBVIOUS
<1>1. "time" \in DOMAIN h /\ "time" \notin DOMAIN Idle
  BY DEF Handling, Idle
<1>. QED  BY <1>1

LEMMA AHandlerRuns ==
  ASSUME StateOK, NEW s \in Slots, run[s] # Idle
  PROVE  /\ run[s] \in Handling /\ run[s].step \in AllSteps /\ run[s].epoch \in Nat /\ run[s].time \in Times
         /\ run[s].file \in Files \cup Folders /\ run[s].frames \in Seq(Frame) /\ run[s].obj \in Nat
         /\ run[s].bytes \in Seq(Piece) /\ run[s].n \in Int /\ run[s].result \in BOOLEAN
BY DEF StateOK, Handling

LEMMA IdleDoesNothing == \A step \in AllSteps : Idle.step # step
BY DEF Idle, AllSteps, WalkSteps, OpenSteps, ReplySteps

LEMMA DoingIsRunning ==
  ASSUME StateOK, NEW s \in Slots, NEW step \in AllSteps, Doing(s, step)
  PROVE  run[s] # Idle /\ run[s] \in Handling /\ run[s].step = step
BY IdleDoesNothing, AHandlerRuns DEF Doing

LEMMA TimesAre ==
  /\ LastTime \in Nat /\ LastTime \in Times
  /\ \A t \in Times : t \in Nat /\ t <= LastTime /\ user_time(t) \in Keys /\ <<0, t>> \in Keys
  /\ \A t \in Times : t < LastTime => t + 1 \in Times
  /\ \A t, u \in Times : (user_time(t) = user_time(u) => t = u) /\ user_time(t) # <<0, u>>
<1>1. LastTime \in Nat /\ LastTime \in Times /\ (\A t \in Times : t \in Nat /\ t <= LastTime)
      /\ (\A t \in Times : t < LastTime => t + 1 \in Times)
  BY DownloadAssumption DEF Times
<1>2. \A t \in Times : user_time(t) \in Keys /\ <<0, t>> \in Keys
  BY DEF user_time, Keys
<1>3. userid # 0
  BY DownloadAssumption
<1>4. \A t, u \in Times : (user_time(t) = user_time(u) => t = u) /\ user_time(t) # <<0, u>>
  BY <1>3 DEF user_time
<1>. QED  BY <1>1, <1>2, <1>4

LEMMA HeldIsNat == ASSUME StateOK, NEW t \in Times PROVE Held(t) \in Nat
BY TimesAre DEF Held, StateOK

LEMMA ObjectIsThere ==
  ASSUME StateOK, NEW o \in 1..Len(info)
  PROVE  /\ info[o] \in Object /\ info[o].file \in Files /\ info[o].time \in Times /\ info[o].pos \in Nat
         /\ info[o].off \in Nat /\ info[o].alive \in BOOLEAN
<1>1. info \in Seq(Object)
  BY DEF StateOK
<1>2. info[o] \in Object
  BY <1>1
<1>. QED  BY <1>2 DEF Object

LEMMA PeerIsThere ==
  ASSUME StateOK, NEW t \in Times
  PROVE  /\ client[t] \in Peer /\ client[t].got \in Seq(Piece) /\ client[t].phase \in Phases
         /\ client[t].n \in Nat /\ Got(t) \in Nat
<1>1. client[t] \in Peer /\ client[t].got \in Seq(Piece) /\ client[t].phase \in Phases /\ client[t].n \in Nat
  BY DEF StateOK, Peer
<1>2. Got(t) \in Nat
  BY <1>1, LenProperties DEF Got
<1>. QED  BY <1>1, <1>2

-----------------------------------------------------------------------------
(* The bytes of a file from one place to another.                           *)
LEMMA BytesAre ==
  ASSUME NEW f \in Files, NEW lo \in Nat, NEW hi \in Nat, lo <= hi
  PROVE  /\ Bytes(f, lo, hi) \in Seq(Piece) /\ Len(Bytes(f, lo, hi)) = hi - lo
         /\ \A i \in 1..(hi - lo) : Bytes(f, lo, hi)[i] = <<f, lo + i>>
<1>1. hi - lo \in Nat
  OBVIOUS
<1>2. \A i \in 1..(hi - lo) : <<f, lo + i>> \in Piece
  <2>1. \A i \in 1..(hi - lo) : lo + i \in Nat
    OBVIOUS
  <2>. QED  BY <2>1 DEF Piece
<1>3. Bytes(f, lo, hi) \in [1..(hi - lo) -> Piece]
  BY <1>2 DEF Bytes
<1>4. Bytes(f, lo, hi) \in Seq(Piece)
  BY <1>1, <1>3, SeqDef
<1>5. DOMAIN Bytes(f, lo, hi) = 1..(hi - lo)
  BY <1>3
<1>6. Len(Bytes(f, lo, hi)) = hi - lo
  BY <1>1, <1>4, <1>5, LenProperties
<1>. QED  BY <1>4, <1>6 DEF Bytes

LEMMA NoBytes == \A f \in Files, lo \in Nat : Bytes(f, lo, lo) = <<>>
<1>. SUFFICES ASSUME NEW f \in Files, NEW lo \in Nat PROVE Bytes(f, lo, lo) = <<>>
  OBVIOUS
<1>1. Bytes(f, lo, lo) \in Seq(Piece) /\ Len(Bytes(f, lo, lo)) = lo - lo
  BY BytesAre
<1>. QED  BY <1>1, EmptySeq

LEMMA FromStart ==
  ASSUME NEW f \in Files, NEW a \in Nat
  PROVE  Bytes(f, 0, a) \in Seq(Piece) /\ Len(Bytes(f, 0, a)) = a /\ \A i \in 1..a : Bytes(f, 0, a)[i] = <<f, i>>
<1>1. 0 \in Nat /\ 0 <= a /\ a - 0 = a
  OBVIOUS
<1>2. /\ Bytes(f, 0, a) \in Seq(Piece) /\ Len(Bytes(f, 0, a)) = a
      /\ \A i \in 1..a : Bytes(f, 0, a)[i] = <<f, 0 + i>>
  BY <1>1, BytesAre
<1>3. \A i \in 1..a : 0 + i = i
  OBVIOUS
<1>. QED  BY <1>2, <1>3

LEMMA BytesJoin ==
  ASSUME NEW f \in Files, NEW a \in Nat, NEW b \in Nat, a <= b
  PROVE  Bytes(f, 0, a) \o Bytes(f, a, b) = Bytes(f, 0, b)
<1>. PICK x, y, z : x = Bytes(f, 0, a) /\ y = Bytes(f, a, b) /\ z = Bytes(f, 0, b)
  OBVIOUS
<1>1. x \in Seq(Piece) /\ Len(x) = a /\ \A i \in 1..a : x[i] = <<f, i>>
  BY FromStart
<1>2. y \in Seq(Piece) /\ Len(y) = b - a /\ \A i \in 1..(b - a) : y[i] = <<f, a + i>>
  BY BytesAre
<1>3. z \in Seq(Piece) /\ Len(z) = b /\ \A i \in 1..b : z[i] = <<f, i>>
  BY FromStart
<1>4. x \o y \in Seq(Piece) /\ Len(x \o y) = Len(x) + Len(y)
      /\ \A i \in 1..Len(x) + Len(y) : (x \o y)[i] = IF i <= Len(x) THEN x[i] ELSE y[i - Len(x)]
  BY <1>1, <1>2, ConcatProperties
<1>5. Len(x) + Len(y) = b
  <2>1. a + (b - a) = b
    OBVIOUS
  <2>2. Len(x) = a /\ Len(y) = b - a
    BY <1>1, <1>2
  <2>. QED  BY <2>1, <2>2
<1>6. ASSUME NEW i \in 1..b PROVE (x \o y)[i] = z[i]
  <2>1. CASE i <= a
    <3>1. i \in 1..a
      BY <2>1
    <3>. QED  BY <1>1, <1>3, <1>4, <1>5, <2>1, <3>1
  <2>2. CASE ~(i <= a)
    <3>1. i - a \in 1..(b - a) /\ a + (i - a) = i
      BY <2>2
    <3>2. (x \o y)[i] = y[i - a]
      BY <1>1, <1>4, <1>5, <2>2
    <3>. QED  BY <1>2, <1>3, <3>1, <3>2
  <2>. QED  BY <2>1, <2>2
<1>7. x \o y = z
  BY <1>3, <1>4, <1>5, <1>6, SeqEqual
<1>. QED  BY <1>7

LEMMA BytesCut ==
  ASSUME NEW f \in Files, NEW a \in Nat, NEW b \in Nat, a <= b
  PROVE  SubSeq(Bytes(f, 0, b), 1, a) = Bytes(f, 0, a)
<1>. PICK x, z : x = Bytes(f, 0, a) /\ z = Bytes(f, 0, b)
  OBVIOUS
<1>1. x \in Seq(Piece) /\ Len(x) = a /\ \A i \in 1..a : x[i] = <<f, i>>
  BY FromStart
<1>2. z \in Seq(Piece) /\ Len(z) = b /\ \A i \in 1..b : z[i] = <<f, i>>
  BY FromStart
<1>3. SubSeq(z, 1, a) \in Seq(Piece) /\ Len(SubSeq(z, 1, a)) = a /\ \A i \in 1..a : SubSeq(z, 1, a)[i] = z[i]
  BY <1>2
<1>4. \A i \in 1..a : SubSeq(z, 1, a)[i] = x[i]
  <2>1. \A i \in 1..a : i \in 1..b
    OBVIOUS
  <2>. QED  BY <1>1, <1>2, <1>3, <2>1
<1>5. SubSeq(z, 1, a) = x
  BY <1>1, <1>3, <1>4, SeqEqual
<1>. QED  BY <1>5

(* Where a read of a block ends.                                            *)
End(f, off) == IF off + Block <= Size[f] THEN off + Block ELSE IF off <= Size[f] THEN Size[f] ELSE off
LEMMA ReadIs ==
  ASSUME NEW f \in Files, NEW off \in Nat
  PROVE  /\ Read(f, off) = Bytes(f, off, End(f, off)) /\ End(f, off) \in Nat /\ off <= End(f, off)
         /\ off <= Size[f] => End(f, off) <= Size[f]
         /\ Size[f] \in Nat
         /\ Read(f, off) \in Seq(Piece) /\ Len(Read(f, off)) \in Nat /\ off + Len(Read(f, off)) = End(f, off)
<1>1. Size[f] \in Nat /\ Block \in Nat
  BY DownloadAssumption
<1>2. Read(f, off) = Bytes(f, off, End(f, off))
  BY DEF Read, End
<1>3. End(f, off) \in Nat /\ off <= End(f, off) /\ (off <= Size[f] => End(f, off) <= Size[f])
  BY <1>1 DEF End
<1>4. Bytes(f, off, End(f, off)) \in Seq(Piece) /\ Len(Bytes(f, off, End(f, off))) = End(f, off) - off
  BY <1>3, BytesAre
<1>5. End(f, off) - off \in Nat /\ off + (End(f, off) - off) = End(f, off)
  BY <1>3
<1>. QED  BY <1>1, <1>2, <1>3, <1>4, <1>5

-----------------------------------------------------------------------------
(* What each action does.  A handler goes on to a step, returns to the      *)
(* folder that called it, or ends.                                          *)
Runs(s, step) == run[s] # Idle /\ run[s] \in Handling /\ run[s].step = step
OthersRun(s) == \A u \in Slots \ {s} : run'[u] = run[u]
Turns(s) == run' \in [Slots -> Handling \cup {Idle}] /\ OthersRun(s)
Ends(s) == Turns(s) /\ run'[s] = Idle
SameRest(s) == run'[s].obj = run[s].obj /\ run'[s].bytes = run[s].bytes /\ run'[s].n = run[s].n
GoesOn(s, step) ==
  /\ Turns(s) /\ run'[s] \in Handling
  /\ run'[s].step = step
  /\ run'[s].epoch = run[s].epoch /\ run'[s].time = run[s].time /\ run'[s].file = run[s].file
  /\ run'[s].frames = run[s].frames /\ run'[s].result = run[s].result

(* Calls of downloadFolderByDir that work under timestamps of this handler. *)
Inherits(s, frames) ==
  /\ frames \in Seq(Frame)
  /\ \A i \in 1..Len(frames) :
       \/ frames[i].time = run[s].time /\ run[s].step \in WalkSteps
       \/ \E j \in 1..Len(run[s].frames) : frames[i].time = run[s].frames[j].time
BackTo(s, frames) ==
  \/ frames = <<>> /\ Ends(s)
  \/ /\ frames # <<>> /\ Turns(s) /\ run'[s] \in Handling
     /\ run'[s].step = "next" /\ run'[s].frames = frames
     /\ run'[s].epoch = run[s].epoch /\ run'[s].time = run[s].time /\ run'[s].obj = run[s].obj
     /\ run'[s].n = run[s].n
GoesBack(s) == \E frames : Inherits(s, frames) /\ BackTo(s, frames)
Moves(s, t) ==
  /\ Turns(s) /\ run'[s] \in Handling
  /\ run'[s].step = "find" /\ run'[s].time = t
  /\ run'[s].frames # <<>> /\ Inherits(s, run'[s].frames)
  /\ run'[s].epoch = run[s].epoch /\ run'[s].obj = run[s].obj

SameSessions == UNCHANGED <<m_mapTimstampToFileinfo, info>>
SameClient == UNCHANGED <<epoch, asked, client>>
Worsens(kinds) ==
  /\ faults' \in [left : Nat, seen : SUBSET (AllFaults \cup {"overtaken"})]
  /\ faults'.seen = faults.seen \cup kinds

LEMMA FaultWorsens ==
  ASSUME StateOK, NEW kind \in AllFaults, Fault(kind)
  PROVE  Worsens({kind})
<1>1. faults.left \in Nat /\ faults.left > 0 /\ faults.seen \in SUBSET (AllFaults \cup {"overtaken"})
  BY DEF StateOK, Fault
<1>2. faults.left - 1 \in Nat /\ faults.seen \cup {kind} \in SUBSET (AllFaults \cup {"overtaken"})
  BY <1>1
<1>. QED  BY <1>2 DEF Fault, Worsens

LEMMA NoFaultIsFine == ASSUME StateOK, UNCHANGED faults PROVE Worsens({})
BY DEF StateOK, Worsens

LEMMA TurnsTo ==
  ASSUME StateOK, NEW s \in Slots, NEW h \in Handling \cup {Idle}, run' = [run EXCEPT ![s] = h]
  PROVE  Turns(s) /\ run'[s] = h
BY DEF StateOK, Turns, OthersRun

LEMMA GotoDoes ==
  ASSUME StateOK, NEW s \in Slots, run[s] # Idle, NEW step \in AllSteps, Goto(s, step)
  PROVE  GoesOn(s, step) /\ SameRest(s)
<1>1. run[s] \in Handling
  BY AHandlerRuns
<1>2. [run[s] EXCEPT !.step = step] \in Handling
  BY <1>1 DEF Handling
<1>3. run' = [run EXCEPT ![s] = [run[s] EXCEPT !.step = step]]
  BY DEF Goto
<1>4. Turns(s) /\ run'[s] = [run[s] EXCEPT !.step = step]
  BY <1>2, <1>3, TurnsTo
<1>. QED  BY <1>1, <1>2, <1>4 DEF GoesOn, SameRest, Handling

LEMMA ReturnDoes == ASSUME StateOK, NEW s \in Slots, Return(s) PROVE Ends(s)
BY TurnsTo DEF Return, Ends

Becomes(s, h) == run' = [run EXCEPT ![s] = h]
WithObj(h, step, o) == [h EXCEPT !.step = step, !.obj = o]
Sendable(b, m) == b \in Seq(Piece) /\ m \in Int
WithBytes(h, step, b, m) == [h EXCEPT !.step = step, !.bytes = b, !.n = m]

LEMMA GoesWithObj ==
  ASSUME StateOK, NEW s \in Slots, run[s] # Idle, NEW step \in AllSteps, NEW m \in Nat,
         Becomes(s, WithObj(run[s], step, m))
  PROVE  GoesOn(s, step) /\ run'[s].obj = m /\ run'[s].bytes = run[s].bytes /\ run'[s].n = run[s].n
<1>1. run[s] \in Handling
  BY AHandlerRuns
<1>2. WithObj(run[s], step, m) \in Handling
  BY <1>1 DEF WithObj, Handling
<1>3. Turns(s) /\ run'[s] = WithObj(run[s], step, m)
  BY <1>2, TurnsTo DEF Becomes
<1>. QED  BY <1>1, <1>2, <1>3 DEF WithObj, GoesOn, Handling

LEMMA GoesWithBytes ==
  ASSUME StateOK, NEW s \in Slots, run[s] # Idle, NEW step \in AllSteps, NEW b, NEW m, Sendable(b, m),
         Becomes(s, WithBytes(run[s], step, b, m))
  PROVE  GoesOn(s, step) /\ run'[s].obj = run[s].obj /\ run'[s].bytes = b /\ run'[s].n = m
<1>1. run[s] \in Handling
  BY AHandlerRuns
<1>2. WithBytes(run[s], step, b, m) \in Handling
  BY <1>1 DEF WithBytes, Sendable, Handling
<1>3. Turns(s) /\ run'[s] = WithBytes(run[s], step, b, m)
  BY <1>2, TurnsTo DEF Becomes
<1>. QED  BY <1>1, <1>2, <1>3 DEF WithBytes, GoesOn, Handling

LEMMA BackDoes ==
  ASSUME StateOK, NEW s \in Slots, run[s] # Idle, NEW frames \in Seq(Frame), Back(s, frames)
  PROVE  BackTo(s, frames)
<1>1. run[s] \in Handling
  BY AHandlerRuns
<1>2. CASE frames = <<>>
  BY <1>2, TurnsTo DEF Back, BackTo, Ends
<1>3. CASE frames # <<>>
  <2>. PICK h : h = [run[s] EXCEPT !.step = "next", !.frames = frames]
    OBVIOUS
  <2>1. "next" \in AllSteps
    BY DEF AllSteps, WalkSteps
  <2>2. h \in Handling /\ h.step = "next" /\ h.frames = frames /\ h.epoch = run[s].epoch /\ h.time = run[s].time
        /\ h.obj = run[s].obj /\ h.n = run[s].n
    BY <1>1, <2>1 DEF Handling
  <2>3. run' = [run EXCEPT ![s] = h]
    BY <1>3 DEF Back
  <2>4. Turns(s) /\ run'[s] = h
    BY <2>2, <2>3, TurnsTo
  <2>. QED  BY <1>3, <2>2, <2>4 DEF BackTo
<1>. QED  BY <1>2, <1>3

LEMMA OwnFrames ==
  ASSUME StateOK, NEW s \in Slots, run[s] # Idle
  PROVE  Inherits(s, run[s].frames)
BY AHandlerRuns DEF Inherits

(* Sessions: one is opened, or the numbers of one change.                   *)
Opened(t, f, pos) ==
  /\ info' \in Seq(Object) /\ Len(info') = Len(info) + 1
  /\ \A o \in 1..Len(info) : info'[o] = info[o]
  /\ info'[Len(info) + 1] = [file |-> f, time |-> t, pos |-> pos, off |-> 0, alive |-> TRUE]
  /\ m_mapTimstampToFileinfo' = [m_mapTimstampToFileinfo EXCEPT ![user_time(t)] = Len(info) + 1]
  /\ m_mapTimstampToFileinfo' \in [Keys -> Nat]
Changed(o) ==
  /\ info' \in Seq(Object) /\ Len(info') = Len(info)
  /\ \A j \in (1..Len(info)) \ {o} : info'[j] = info[j]
  /\ info'[o].file = info[o].file /\ info'[o].time = info[o].time

LEMMA OneChanges ==
  ASSUME StateOK, NEW o \in 1..Len(info), NEW x \in Object, info' = [info EXCEPT ![o] = x],
         x.file = info[o].file, x.time = info[o].time
  PROVE  Changed(o) /\ info'[o] = x
<1>1. info \in Seq(Object)
  BY DEF StateOK
<1>2. info' \in Seq(Object) /\ Len(info') = Len(info)
  BY <1>1
<1>. QED  BY <1>1, <1>2 DEF Changed

LEMMA OneOpens ==
  ASSUME StateOK, NEW s \in Slots, run[s] # Idle, run[s].file \in Files, NEW pos \in Nat, NewSession(s, pos)
  PROVE  Opened(run[s].time, run[s].file, pos)
<1>. PICK t \in Times : t = run[s].time
  BY AHandlerRuns
<1>. PICK x : x = [file |-> run[s].file, time |-> t, pos |-> pos, off |-> 0, alive |-> TRUE]
  OBVIOUS
<1>1. info \in Seq(Object) /\ x \in Object /\ x = FileInfo(s, pos)
  BY DEF StateOK, Object, FileInfo
<1>2. info' = Append(info, x)
  BY <1>1 DEF NewSession
<1>3. /\ info' \in Seq(Object) /\ Len(info') = Len(info) + 1 /\ info'[Len(info) + 1] = x
      /\ \A o \in 1..Len(info) : info'[o] = info[o]
  <2>1. info \in Seq(Object) /\ x \in Object
    BY <1>1
  <2>. QED  BY <1>2, <2>1, AppendProperties
<1>4. user_time(t) \in Keys
  BY TimesAre
<1>5. m_mapTimstampToFileinfo' = [m_mapTimstampToFileinfo EXCEPT ![user_time(t)] = Len(info) + 1]
  BY DEF NewSession
<1>6. m_mapTimstampToFileinfo' \in [Keys -> Nat]
  <2>1. Len(info) + 1 \in Nat
    BY <1>1, LenProperties
  <2>. QED  BY <1>4, <1>5, <2>1 DEF StateOK
<1>. QED  BY <1>3, <1>5, <1>6 DEF Opened

-----------------------------------------------------------------------------
(* A frame on top of a stack.                                               *)
LEMMA PushProperties ==
  ASSUME NEW S, NEW x \in S, NEW q \in Seq(S), NEW r, r = <<x>> \o q
  PROVE  /\ r \in Seq(S) /\ Len(r) = 1 + Len(q) /\ r[1] = x
         /\ \A i \in 2..(1 + Len(q)) : r[i] = q[i - 1]
<1>. PICK p : p = <<x>>
  OBVIOUS
<1>1. p \in Seq(S) /\ Len(p) = 1 /\ p[1] = x
  OBVIOUS
<1>2. Len(q) \in Nat
  BY LenProperties
<1>3. /\ p \o q \in Seq(S)
      /\ Len(p \o q) = Len(p) + Len(q)
      /\ \A i \in 1..(Len(p) + Len(q)) : (p \o q)[i] = IF i <= Len(p) THEN p[i] ELSE q[i - Len(p)]
  BY <1>1, ConcatProperties
<1>4. /\ r \in Seq(S)
      /\ Len(r) = Len(p) + Len(q)
      /\ \A i \in 1..(Len(p) + Len(q)) : r[i] = IF i <= Len(p) THEN p[i] ELSE q[i - Len(p)]
  BY <1>3, Zenon
<1>. QED  BY <1>1, <1>2, <1>4

(* downloadFolderByDir and downloadFile.                                    *)
LEMMA SelectDoes ==
  ASSUME BaseInv, NEW s \in Slots, downloadFolderByDir_select(s)
  PROVE  /\ Runs(s, "downloadFolderByDir") /\ SameSessions /\ SameClient /\ GoesBack(s)
         /\ Worsens({}) \/ Worsens({"call"})
<1>1. StateOK /\ Doing(s, "downloadFolderByDir") /\ UNCHANGED <<m_mapTimstampToFileinfo, info, epoch, asked, client>>
  BY DEF BaseInv, downloadFolderByDir_select, memory, user
<1>2. Runs(s, "downloadFolderByDir")
  BY <1>1, DoingIsRunning DEF Runs, AllSteps, WalkSteps
<1>3. run[s].time \in Times /\ run[s].file \in Folders /\ run[s].frames \in Seq(Frame)
  BY <1>1, <1>2, AHandlerRuns DEF Runs, BaseInv, HandlerOK
<1>. PICK frame, frames : frame = [time |-> run[s].time, rest |-> entries[run[s].file]]
                          /\ frames = <<frame>> \o run[s].frames
  OBVIOUS
<1>4. frame \in Frame
  BY <1>3, DownloadAssumption DEF Frame
<1>6. frames \in Seq(Frame) /\ Len(frames) = 1 + Len(run[s].frames) /\ frames[1] = frame
      /\ \A i \in 2..(1 + Len(run[s].frames)) : frames[i] = run[s].frames[i - 1]
  BY <1>3, <1>4, PushProperties
<1>7. Inherits(s, frames)
  <2>. SUFFICES ASSUME NEW i \in 1..Len(frames)
                PROVE  \/ frames[i].time = run[s].time /\ run[s].step \in WalkSteps
                       \/ \E j \in 1..Len(run[s].frames) : frames[i].time = run[s].frames[j].time
    BY <1>6 DEF Inherits
  <2>1. Len(run[s].frames) \in Nat
    BY <1>3, LenProperties
  <2>2. CASE i = 1
    BY <1>2, <1>6, <2>1, <2>2 DEF Runs, WalkSteps
  <2>3. CASE i # 1
    BY <1>6, <2>1, <2>3
  <2>. QED  BY <2>2, <2>3
<1>8. CASE Back(s, frames) /\ UNCHANGED faults
  BY <1>1, <1>2, <1>6, <1>7, <1>8, BackDoes, NoFaultIsFine DEF Runs, SameSessions, SameClient, GoesBack
<1>9. CASE Fault("call") /\ Back(s, run[s].frames)
  BY <1>1, <1>2, <1>3, <1>9, BackDoes, OwnFrames, FaultWorsens DEF Runs, SameSessions, SameClient, GoesBack, AllFaults
<1>. QED  BY <1>8, <1>9 DEF downloadFolderByDir_select

LEMMA NextDoes ==
  ASSUME BaseInv, NEW s \in Slots, downloadFolderByDir_next(s)
  PROVE  /\ Runs(s, "next") /\ SameSessions /\ SameClient /\ Worsens({})
         /\ \/ GoesBack(s)
            \/ /\ run[s].frames # <<>> /\ run[s].frames[1].time < LastTime
               /\ Moves(s, run[s].frames[1].time + 1) /\ run'[s].file \in Files \cup Folders
<1>1. StateOK /\ Doing(s, "next") /\ UNCHANGED <<m_mapTimstampToFileinfo, info, epoch, asked, client, faults>>
  BY DEF BaseInv, downloadFolderByDir_next, memory, user
<1>2. Runs(s, "next")
  BY <1>1, DoingIsRunning DEF Runs, AllSteps, WalkSteps
<1>3. run[s].frames \in Seq(Frame) /\ run[s].frames # <<>>
  BY <1>1, <1>2, AHandlerRuns DEF Runs, BaseInv, HandlerOK
<1>4. SameSessions /\ SameClient /\ Worsens({})
  BY <1>1, NoFaultIsFine DEF SameSessions, SameClient
<1>. PICK frame, callers : frame = Head(run[s].frames) /\ callers = Tail(run[s].frames)
  OBVIOUS
<1>5. /\ frame \in Frame /\ frame = run[s].frames[1] /\ callers \in Seq(Frame) /\ Len(run[s].frames) \in Nat \ {0}
      /\ Len(callers) = Len(run[s].frames) - 1 /\ \A i \in 1..Len(callers) : callers[i] = run[s].frames[i + 1]
  BY <1>3
<1>6. frame.time \in Times /\ frame.rest \in Seq(Files \cup Folders)
  BY <1>5 DEF Frame
<1>7. CASE frame.rest = <<>>
  <2>1. Back(s, callers)
    BY <1>7 DEF downloadFolderByDir_next
  <2>2. Inherits(s, callers)
    <3>1. \A i \in 1..Len(callers) : i + 1 \in 1..Len(run[s].frames)
      BY <1>5
    <3>2. \A i \in 1..Len(callers) : callers[i].time = run[s].frames[i + 1].time
      BY <1>5
    <3>3. \A i \in 1..Len(callers) : \E j \in 1..Len(run[s].frames) : callers[i].time = run[s].frames[j].time
      BY <3>1, <3>2, Zenon
    <3>. QED  BY <1>5, <3>3 DEF Inherits
  <2>. QED  BY <1>1, <1>2, <1>4, <1>5, <2>1, <2>2, BackDoes DEF Runs, GoesBack
<1>8. CASE frame.rest # <<>>
  <2>. PICK rest, first, f : rest = Tail(frame.rest) /\ first = [frame EXCEPT !.rest = rest] /\ f = Head(frame.rest)
    OBVIOUS
  <2>1. rest \in Seq(Files \cup Folders) /\ f \in Files \cup Folders
    BY <1>6, <1>8
  <2>2. first \in Frame /\ first.time = frame.time
    BY <1>5, <2>1 DEF Frame
  <2>. PICK frames : frames = <<first>> \o callers
    OBVIOUS
  <2>4. frames \in Seq(Frame) /\ Len(frames) = 1 + Len(callers) /\ frames[1] = first
        /\ \A i \in 2..(1 + Len(callers)) : frames[i] = callers[i - 1]
    <3>1. callers \in Seq(Frame)
      BY <1>5
    <3>. QED  BY <2>2, <3>1, PushProperties
  <2>5. Len(callers) \in Nat
    BY <1>5, LenProperties
  <2>6. frames # <<>>
    BY <2>4, <2>5
  <2>7. Inherits(s, frames)
    <3>. SUFFICES ASSUME NEW i \in 1..Len(frames)
                  PROVE  \E j \in 1..Len(run[s].frames) : frames[i].time = run[s].frames[j].time
      BY <2>4 DEF Inherits
    <3>1. CASE i = 1
      <4>1. frames[1] = first /\ 1 \in 1..Len(run[s].frames)
        BY <1>5, <2>4, <2>5
      <4>. QED  BY <1>5, <2>2, <3>1, <4>1
    <3>2. CASE i # 1
      <4>1. i - 1 \in 1..Len(callers) /\ i \in 1..Len(run[s].frames) /\ (i - 1) + 1 = i
        BY <1>5, <2>4, <2>5, <3>2
      <4>2. frames[i] = callers[i - 1]
        BY <2>4, <2>5, <3>2
      <4>. QED  BY <1>5, <4>1, <4>2
    <3>. QED  BY <3>1, <3>2
  <2>8. /\ frame.time < LastTime
        /\ run' = [run EXCEPT ![s].step = "find", ![s].time = frame.time + 1, ![s].file = f, ![s].frames = frames]
    BY <1>8 DEF downloadFolderByDir_next
  <2>. PICK t \in Times : t = frame.time + 1
    BY <1>6, <2>8, TimesAre
  <2>. DEFINE r == run[s]
              h == [r EXCEPT !.step = "find", !.time = t, !.file = f, !.frames = frames]
  <2>9. "find" \in AllSteps
    BY DEF AllSteps, WalkSteps
  <2>10. h \in Handling /\ h.step = "find" /\ h.frames = frames /\ h.epoch = run[s].epoch /\ h.time = t
         /\ h.file = f /\ h.obj = run[s].obj
    <3>1. r \in Handling
      BY <1>2 DEF Runs
    <3>. HIDE DEF r
    <3>2. h \in Handling
      BY <2>1, <2>4, <2>9, <3>1 DEF Handling
    <3>3. h.step = "find" /\ h.frames = frames /\ h.epoch = r.epoch /\ h.time = t /\ h.file = f /\ h.obj = r.obj
      BY <3>1 DEF Handling
    <3>. QED  BY <3>2, <3>3 DEF r
  <2>11. run' = [run EXCEPT ![s] = h]
    BY <1>1, <1>2, <2>8 DEF StateOK, Runs
  <2>. HIDE DEF h
  <2>12. Turns(s) /\ run'[s] = h
    BY <1>1, <2>10, <2>11, TurnsTo
  <2>. QED  BY <1>2, <1>3, <1>4, <1>5, <2>1, <2>6, <2>7, <2>8, <2>10, <2>12, Zenon DEF Moves
<1>. QED  BY <1>7, <1>8

LEMMA FreeDoes ==
  ASSUME BaseInv, NEW s \in Slots, downloadFolderByDir_find(s)
  PROVE  /\ Runs(s, "find") /\ SameSessions /\ SameClient /\ Worsens({})
         /\ \/ run[s].time < LastTime /\ Moves(s, run[s].time + 1) /\ run'[s].file = run[s].file
            \/ GoesOn(s, "downloadFolderByDir") /\ SameRest(s) /\ run[s].file \in Folders
            \/ GoesOn(s, "downloadFile") /\ SameRest(s) /\ run[s].file \in Files /\ Held(run[s].time) = 0
<1>1. StateOK /\ Doing(s, "find") /\ UNCHANGED <<m_mapTimstampToFileinfo, info, epoch, asked, client, faults>>
  BY DEF BaseInv, downloadFolderByDir_find, memory, user
<1>2. Runs(s, "find")
  BY <1>1, DoingIsRunning DEF Runs, AllSteps, WalkSteps
<1>3. run[s].frames # <<>> /\ run[s].file \in Files \cup Folders /\ run[s].time \in Times /\ Inherits(s, run[s].frames)
  BY <1>1, <1>2, AHandlerRuns, OwnFrames DEF Runs, BaseInv, HandlerOK
<1>4. SameSessions /\ SameClient /\ Worsens({})
  BY <1>1, NoFaultIsFine DEF SameSessions, SameClient
<1>5. CASE Taken(run[s].time)
  <2>1. run[s].time < LastTime /\ run' = [run EXCEPT ![s].time = @ + 1]
    BY <1>5 DEF downloadFolderByDir_find
  <2>. PICK t \in Times : t = run[s].time + 1
    BY <1>3, <2>1, TimesAre
  <2>. PICK h : h = [run[s] EXCEPT !.time = t]
    OBVIOUS
  <2>2. h \in Handling /\ h.step = "find" /\ h.frames = run[s].frames /\ h.epoch = run[s].epoch /\ h.time = t
        /\ h.file = run[s].file /\ h.obj = run[s].obj
    BY <1>2 DEF Handling, Runs
  <2>3. run' = [run EXCEPT ![s] = h]
    BY <2>1
  <2>4. Turns(s) /\ run'[s] = h
    BY <1>1, <2>2, <2>3, TurnsTo
  <2>5. Moves(s, t)
    BY <1>3, <2>2, <2>4 DEF Moves
  <2>. QED  BY <1>2, <1>4, <2>1, <2>2, <2>4, <2>5
<1>6. CASE ~Taken(run[s].time) /\ run[s].file \in Folders
  <2>1. Goto(s, "downloadFolderByDir")
    BY <1>6 DEF downloadFolderByDir_find, Goto
  <2>. QED  BY <1>1, <1>2, <1>4, <1>6, <2>1, GotoDoes DEF Runs, AllSteps, WalkSteps
<1>7. CASE ~Taken(run[s].time) /\ run[s].file \notin Folders
  <2>1. Goto(s, "downloadFile")
    BY <1>7 DEF downloadFolderByDir_find, Goto
  <2>2. Held(run[s].time) = 0
    BY <1>7 DEF Taken, Held
  <2>. QED  BY <1>1, <1>2, <1>3, <1>4, <1>7, <2>1, <2>2, GotoDoes DEF Runs, AllSteps, OpenSteps
<1>. QED  BY <1>5, <1>6, <1>7

LEMMA FileSelectDoes ==
  ASSUME BaseInv, NEW s \in Slots, downloadFile_select(s)
  PROVE  /\ Runs(s, "downloadFile") /\ SameSessions /\ SameClient
         /\ \/ Worsens({}) /\ GoesOn(s, "open") /\ SameRest(s)
            \/ (Worsens({}) \/ Worsens({"call"})) /\ GoesBack(s)
<1>1. StateOK /\ Doing(s, "downloadFile") /\ UNCHANGED <<m_mapTimstampToFileinfo, info, epoch, asked, client>>
  BY DEF BaseInv, downloadFile_select, memory, user
<1>2. Runs(s, "downloadFile")
  BY <1>1, DoingIsRunning DEF Runs, AllSteps, OpenSteps
<1>3. run[s].frames \in Seq(Frame) /\ SameSessions /\ SameClient /\ Inherits(s, run[s].frames)
  BY <1>1, <1>2, AHandlerRuns, OwnFrames DEF Runs, SameSessions, SameClient
<1>4. CASE Goto(s, "open") /\ UNCHANGED faults
  BY <1>1, <1>2, <1>3, <1>4, GotoDoes, NoFaultIsFine DEF Runs, AllSteps, OpenSteps
<1>5. CASE Back(s, run[s].frames) /\ UNCHANGED faults
  BY <1>1, <1>2, <1>3, <1>5, BackDoes, NoFaultIsFine DEF Runs, GoesBack
<1>6. CASE Back(s, run[s].frames) /\ Fault("call")
  BY <1>1, <1>2, <1>3, <1>6, BackDoes, FaultWorsens DEF Runs, GoesBack, AllFaults
<1>. QED  BY <1>4, <1>5, <1>6 DEF downloadFile_select

LEMMA OpenDoes ==
  ASSUME BaseInv, NEW s \in Slots, downloadFile_open(s)
  PROVE  /\ Runs(s, "open") /\ SameClient
         /\ \/ Worsens({}) /\ GoesOn(s, "IsExist") /\ SameRest(s) /\ Opened(run[s].time, run[s].file, 0)
            \/ Worsens({"call"}) /\ GoesBack(s) /\ SameSessions
<1>1. StateOK /\ Doing(s, "open") /\ UNCHANGED <<epoch, asked, client>>
  BY DEF BaseInv, downloadFile_open, user
<1>2. Runs(s, "open")
  BY <1>1, DoingIsRunning DEF Runs, AllSteps, OpenSteps
<1>3. run[s].file \in Files
  BY <1>2 DEF Runs, BaseInv, HandlerOK, OpenSteps
<1>4. run[s].frames \in Seq(Frame) /\ SameClient /\ Inherits(s, run[s].frames)
  BY <1>1, <1>2, AHandlerRuns, OwnFrames DEF Runs, SameClient
<1>5. CASE NewSession(s, 0) /\ Goto(s, "IsExist") /\ UNCHANGED faults
  <2>1. Opened(run[s].time, run[s].file, 0)
    <3>1. 0 \in Nat
      OBVIOUS
    <3>. QED  BY <1>1, <1>2, <1>3, <1>5, <3>1, OneOpens DEF Runs
  <2>. QED  BY <1>1, <1>2, <1>4, <1>5, <2>1, GotoDoes, NoFaultIsFine DEF Runs, AllSteps, OpenSteps
<1>6. CASE Fault("call") /\ Back(s, run[s].frames) /\ UNCHANGED memory
  <2>1. SameSessions
    BY <1>6 DEF memory, SameSessions
  <2>. QED  BY <1>1, <1>2, <1>4, <1>6, <2>1, BackDoes, FaultWorsens DEF Runs, GoesBack, AllFaults
<1>. QED  BY <1>5, <1>6 DEF downloadFile_open

LEMMA IsExistDoes ==
  ASSUME BaseInv, NEW s \in Slots, downloadFile_IsExist(s)
  PROVE  /\ Runs(s, "IsExist") /\ SameSessions /\ SameClient /\ Worsens({})
         /\ \/ GoesBack(s)
            \/ GoesOn(s, "header") /\ SameRest(s)
<1>1. StateOK /\ Doing(s, "IsExist") /\ UNCHANGED <<m_mapTimstampToFileinfo, info, epoch, asked, client, faults>>
  BY DEF BaseInv, downloadFile_IsExist, memory, user
<1>2. Runs(s, "IsExist")
  BY <1>1, DoingIsRunning DEF Runs, AllSteps, OpenSteps
<1>3. run[s].frames \in Seq(Frame) /\ SameSessions /\ SameClient /\ Worsens({}) /\ Inherits(s, run[s].frames)
  BY <1>1, <1>2, AHandlerRuns, OwnFrames, NoFaultIsFine DEF Runs, SameSessions, SameClient
<1>4. CASE Back(s, run[s].frames)
  BY <1>1, <1>2, <1>3, <1>4, BackDoes DEF Runs, GoesBack
<1>5. CASE Goto(s, "header")
  BY <1>1, <1>2, <1>3, <1>5, GotoDoes DEF Runs, AllSteps, OpenSteps
<1>. QED  BY <1>4, <1>5 DEF downloadFile_IsExist

(* The client hears of one timestamp.                                       *)
Hears(t, c) ==
  /\ client' \in [Times -> Peer] /\ client'[t] = c
  /\ \A u \in Times \ {t} : client'[u] = client[u]
  /\ UNCHANGED <<epoch, asked>>

LEMMA ItHears ==
  ASSUME StateOK, NEW t \in Times, NEW c \in Peer, client' = [client EXCEPT ![t] = c], UNCHANGED <<epoch, asked>>
  PROVE  Hears(t, c)
BY DEF StateOK, Hears

LEMMA HeaderDoes ==
  ASSUME BaseInv, NEW s \in Slots, SendHeader(s)
  PROVE  /\ Runs(s, "header") /\ SameSessions /\ Worsens({}) /\ GoesBack(s)
         /\ \/ run[s].epoch = epoch /\ Hears(run[s].time, Transfer(run[s].file)) /\ run[s].file \in Files
            \/ SameClient
<1>1. StateOK /\ Doing(s, "header") /\ UNCHANGED <<m_mapTimstampToFileinfo, info, epoch, asked, faults>> /\ Back(s, run[s].frames)
  BY DEF BaseInv, SendHeader, memory
<1>2. Runs(s, "header")
  BY <1>1, DoingIsRunning DEF Runs, AllSteps, OpenSteps
<1>3. run[s].file \in Files
  BY <1>2 DEF Runs, BaseInv, HandlerOK, OpenSteps
<1>4. run[s].frames \in Seq(Frame) /\ Inherits(s, run[s].frames) /\ run[s].time \in Times
  BY <1>1, <1>2, AHandlerRuns, OwnFrames DEF Runs
<1>5. SameSessions /\ Worsens({}) /\ GoesBack(s)
  BY <1>1, <1>2, <1>4, BackDoes, NoFaultIsFine DEF Runs, GoesBack, SameSessions
<1>6. CASE run[s].epoch = epoch
  <2>1. Transfer(run[s].file) \in Peer
    BY <1>3 DEF Transfer, Peer, Phases
  <2>2. client' = [client EXCEPT ![run[s].time] = Transfer(run[s].file)]
    BY <1>6 DEF SendHeader
  <2>. QED  BY <1>1, <1>2, <1>3, <1>4, <1>5, <1>6, <2>1, <2>2, ItHears
<1>7. CASE run[s].epoch # epoch
  <2>1. SameClient
    BY <1>1, <1>7 DEF SendHeader, SameClient
  <2>. QED  BY <1>2, <1>5, <2>1
<1>. QED  BY <1>6, <1>7

-----------------------------------------------------------------------------
(* downloadFileHeadRs and fileContentRs.                                    *)
LEMMA HasObject ==
  ASSUME BaseInv, NEW s \in Slots, NEW step \in {"first", "advance", "close", "seek"}, Runs(s, step)
  PROVE  /\ run[s].obj \in 1..Len(info) /\ info[run[s].obj].time = run[s].time /\ run[s].n \in Nat
         /\ info[run[s].obj] \in Object /\ info[run[s].obj].file \in Files
         /\ info[run[s].obj].pos \in Nat /\ info[run[s].obj].off \in Nat /\ info[run[s].obj].alive \in BOOLEAN
<1>1. HandlerOK(s) /\ StateOK
  BY DEF Runs, BaseInv
<1>2. run[s].obj \in 1..Len(info) /\ info[run[s].obj].time = run[s].time /\ run[s].n \in Nat
  BY <1>1 DEF HandlerOK, Runs, ReplySteps
<1>. QED  BY <1>1, <1>2, ObjectIsThere

LEMMA FindDoes ==
  ASSUME BaseInv, NEW s \in Slots, NEW reply \in {"downloadFileHeadRs", "fileContentRs"},
         NEW step \in {"first", "advance"}, find(s, reply, step)
  PROVE  /\ Runs(s, reply) /\ SameSessions /\ SameClient /\ Worsens({})
         /\ \/ Held(run[s].time) = 0 /\ Ends(s)
            \/ /\ GoesOn(s, step) /\ Held(run[s].time) \in 1..Len(info) /\ run'[s].obj = Held(run[s].time)
               /\ info[Held(run[s].time)].time = run[s].time
               /\ run'[s].bytes = run[s].bytes /\ run'[s].n = run[s].n
<1>1. StateOK /\ Doing(s, reply) /\ UNCHANGED <<m_mapTimstampToFileinfo, info, epoch, asked, client, faults>>
  BY DEF BaseInv, find, memory, user
<1>2. Runs(s, reply)
  BY <1>1, DoingIsRunning DEF Runs, AllSteps, ReplySteps
<1>. PICK t \in Times : t = run[s].time
  BY <1>1, <1>2, AHandlerRuns DEF Runs
<1>3. SameSessions /\ SameClient /\ Worsens({}) /\ Session(s) = Held(t)
  BY <1>1, NoFaultIsFine DEF SameSessions, SameClient, Session, Held
<1>4. CASE Held(t) = 0
  <2>1. run' = [run EXCEPT ![s] = Idle]
    BY <1>3, <1>4 DEF find
  <2>. QED  BY <1>1, <1>2, <1>3, <1>4, <2>1, TurnsTo DEF Ends
<1>5. CASE Held(t) # 0
  <2>1. Becomes(s, WithObj(run[s], step, Held(t)))
    BY <1>3, <1>5 DEF find, WithObj, Becomes
  <2>2. Held(t) \in 1..Len(info) /\ info[Held(t)].time = t /\ Held(t) \in Nat /\ step \in AllSteps
    BY <1>1, <1>5, HeldIsNat DEF BaseInv, MapOK, AllSteps, ReplySteps
  <2>3. GoesOn(s, step) /\ run'[s].obj = Held(t) /\ run'[s].bytes = run[s].bytes /\ run'[s].n = run[s].n
    BY <1>1, <1>2, <2>1, <2>2, GoesWithObj DEF Runs
  <2>. QED  BY <1>2, <1>3, <2>2, <2>3
<1>. QED  BY <1>4, <1>5

(* A read of a closed descriptor fails, one of an open one may.             *)
Fails(o) == (info[o].alive /\ Worsens({"read"})) \/ (~info[o].alive /\ Worsens({}))
LEMMA ReadFailsDoes ==
  ASSUME StateOK, NEW o \in 1..Len(info), ReadFails(o)
  PROVE  Fails(o)
BY FaultWorsens, NoFaultIsFine, ObjectIsThere DEF ReadFails, Fails, AllFaults

LEMMA FirstReadDoes ==
  ASSUME BaseInv, NEW s \in Slots, downloadFileHeadRs_read(s),
         NEW o, NEW f, NEW off, o = run[s].obj, f = info[o].file, off = info[o].off
  PROVE  /\ Runs(s, "first") /\ SameClient /\ UNCHANGED m_mapTimstampToFileinfo
         /\ \/ /\ Worsens({}) /\ Changed(o) /\ info'[o].pos = info[o].pos /\ info'[o].off = End(f, off)
               /\ info'[o].alive = info[o].alive
               /\ GoesOn(s, "block") /\ run'[s].obj = o /\ run'[s].bytes = Bytes(f, off, End(f, off))
               /\ run'[s].n \in Nat /\ off + run'[s].n = End(f, off)
            \/ Ends(s) /\ UNCHANGED info /\ Fails(o)
<1>1. StateOK /\ Doing(s, "first") /\ UNCHANGED <<m_mapTimstampToFileinfo, epoch, asked, client>>
  BY DEF BaseInv, downloadFileHeadRs_read, user
<1>2. Runs(s, "first")
  BY <1>1, DoingIsRunning DEF Runs, AllSteps, ReplySteps
<1>3. o \in 1..Len(info) /\ info[o] \in Object /\ f \in Files /\ off \in Nat
  BY <1>2, HasObject
<1>. PICK b, m : b = Read(f, off) /\ m = Len(b)
  OBVIOUS
<1>4. b \in Seq(Piece) /\ b = Bytes(f, off, End(f, off)) /\ m \in Nat /\ off + m = End(f, off) /\ End(f, off) \in Nat
  BY <1>3, ReadIs
<1>5. SameClient
  BY <1>1 DEF SameClient
<1>6. CASE /\ info' = [info EXCEPT ![o].off = @ + m]
           /\ run' = [run EXCEPT ![s].step = "block", ![s].bytes = b, ![s].n = m]
           /\ UNCHANGED faults
  <2>. PICK y \in Object, e \in Nat : y = info[o] /\ e = End(f, off)
    BY <1>3, <1>4
  <2>. PICK x : x = [y EXCEPT !.off = e]
    OBVIOUS
  <2>1. x \in Object /\ x.file = y.file /\ x.time = y.time /\ x.pos = y.pos /\ x.off = e /\ x.alive = y.alive
    BY DEF Object
  <2>2. info' = [info EXCEPT ![o] = x]
    <3>1. info' = [info EXCEPT ![o] = [info[o] EXCEPT !.off = info[o].off + m]]
      BY <1>6
    <3>. QED  BY <1>4, <3>1, Zenon
  <2>10. x \in Object /\ x.file = info[o].file /\ x.time = info[o].time
    BY <2>1, Zenon
  <2>3. Changed(o) /\ info'[o] = x
    BY <1>1, <1>3, <2>2, <2>10, OneChanges
  <2>4. "block" \in AllSteps /\ m \in Int
    BY <1>4 DEF AllSteps
  <2>5. GoesOn(s, "block") /\ run'[s].obj = run[s].obj /\ run'[s].bytes = b /\ run'[s].n = m
    <3>1. Becomes(s, WithBytes(run[s], "block", b, m))
      BY <1>1, <1>2, <1>6 DEF StateOK, Runs, WithBytes, Becomes
    <3>2. Sendable(b, m) /\ StateOK
      BY <1>1, <1>4, <2>4 DEF Sendable
    <3>. QED  BY <1>2, <2>4, <3>1, <3>2, GoesWithBytes DEF Runs
  <2>6. Worsens({})
    BY <1>1, <1>6, NoFaultIsFine
  <2>7. /\ info'[o].pos = info[o].pos /\ info'[o].off = End(f, off) /\ info'[o].alive = info[o].alive
        /\ run'[s].obj = o /\ run'[s].bytes = Bytes(f, off, End(f, off))
    BY <1>4, <2>1, <2>3, <2>5
  <2>8. run'[s].n \in Nat /\ off + run'[s].n = End(f, off)
    BY <1>4, <2>5
  <2>9. UNCHANGED m_mapTimstampToFileinfo
    BY <1>1
  <2>. QED  BY <1>2, <1>5, <2>3, <2>5, <2>6, <2>7, <2>8, <2>9
<1>7. CASE ReadFails(o) /\ Return(s) /\ UNCHANGED info
  BY <1>1, <1>2, <1>3, <1>5, <1>7, ReadFailsDoes, ReturnDoes
<1>. QED  BY <1>6, <1>7 DEF downloadFileHeadRs_read

LEMMA RefusedDoes ==
  ASSUME BaseInv, NEW s \in Slots, fileContentRs_refused(s), NEW o, o = run[s].obj
  PROVE  /\ Runs(s, "advance") /\ ~run[s].result /\ SameClient /\ UNCHANGED m_mapTimstampToFileinfo /\ Worsens({})
         /\ Changed(o) /\ info'[o].pos = info[o].pos /\ info'[o].off = SeekBack(info[o].off, run[s].n)
         /\ info'[o].alive = info[o].alive
         /\ GoesOn(s, "block") /\ run'[s].obj = o /\ run'[s].bytes = <<>> /\ run'[s].n = 0
<1>1. /\ StateOK /\ Doing(s, "advance") /\ ~run[s].result
      /\ UNCHANGED <<m_mapTimstampToFileinfo, epoch, asked, client, faults>>
      /\ run' = [run EXCEPT ![s].step = "block", ![s].bytes = <<>>, ![s].n = 0]
      /\ info' = [info EXCEPT ![o].off = SeekBack(@, run[s].n)]
  BY DEF BaseInv, fileContentRs_refused, user
<1>2. Runs(s, "advance")
  BY <1>1, DoingIsRunning DEF Runs, AllSteps, ReplySteps
<1>3. o \in 1..Len(info) /\ info[o] \in Object /\ info[o].off \in Nat /\ run[s].n \in Nat
  BY <1>2, HasObject
<1>. PICK back \in Nat : back = SeekBack(info[o].off, run[s].n)
  BY <1>3 DEF SeekBack
<1>. PICK x : x = [info[o] EXCEPT !.off = back]
  OBVIOUS
<1>4. x \in Object /\ x.file = info[o].file /\ x.time = info[o].time /\ x.pos = info[o].pos /\ x.off = back
      /\ x.alive = info[o].alive
  BY <1>3 DEF Object
<1>5. info' = [info EXCEPT ![o] = x]
  BY <1>1
<1>6. Changed(o) /\ info'[o] = x
  BY <1>1, <1>3, <1>4, <1>5, OneChanges, Zenon
<1>7. "block" \in AllSteps /\ 0 \in Int /\ <<>> \in Seq(Piece)
  BY DEF AllSteps
<1>8. GoesOn(s, "block") /\ run'[s].obj = run[s].obj /\ run'[s].bytes = <<>> /\ run'[s].n = 0
  <2>1. Becomes(s, WithBytes(run[s], "block", <<>>, 0))
    BY <1>1, <1>2 DEF StateOK, Runs, WithBytes, Becomes
  <2>2. Sendable(<<>>, 0) /\ StateOK
    BY <1>1, <1>7 DEF Sendable
  <2>. QED  BY <2>2, <1>2, <1>7, <2>1, GoesWithBytes DEF Runs
<1>. QED  BY <1>1, <1>2, <1>4, <1>6, <1>8, NoFaultIsFine DEF SameClient


(* A FileInfo and a handler as the replies leave them.                      *)
Shifts(o, p, q) == info' = [info EXCEPT ![o].pos = p, ![o].off = q]
Readies(s, step, b, m) == run' = [run EXCEPT ![s].step = step, ![s].bytes = b, ![s].n = m]

LEMMA ShiftsDoes ==
  ASSUME StateOK, NEW o \in 1..Len(info), NEW p \in Nat, NEW q \in Nat, Shifts(o, p, q)
  PROVE  Changed(o) /\ info'[o].pos = p /\ info'[o].off = q /\ info'[o].alive = info[o].alive
<1>1. info[o] \in Object
  BY ObjectIsThere
<1>. DEFINE y == info[o]
            x == [y EXCEPT !.pos = p, !.off = q]
<1>2. info' = [info EXCEPT ![o] = x]
  BY <1>1 DEF StateOK, Shifts, Object
<1>. HIDE DEF y
<1>3. x \in Object
  BY <1>1 DEF y, Object
<1>4. x.file = y.file /\ x.time = y.time /\ x.alive = y.alive
  BY <1>1 DEF y, Object
<1>5. x.pos = p /\ x.off = q
  BY <1>1 DEF y, Object
<1>. HIDE DEF x
<1>6. x.file = info[o].file /\ x.time = info[o].time
  BY <1>4 DEF y
<1>7. Changed(o) /\ info'[o] = x
  BY <1>2, <1>3, <1>6, OneChanges
<1>. QED  BY <1>4, <1>5, <1>7 DEF y

LEMMA ReadiesDoes ==
  ASSUME StateOK, NEW s \in Slots, run[s] # Idle, NEW step \in AllSteps, NEW b, NEW m, Sendable(b, m),
         Readies(s, step, b, m)
  PROVE  GoesOn(s, step) /\ run'[s].obj = run[s].obj /\ run'[s].bytes = b /\ run'[s].n = m
<1>1. Becomes(s, WithBytes(run[s], step, b, m))
  BY DEF StateOK, WithBytes, Becomes, Readies
<1>. QED  BY <1>1, GoesWithBytes

LEMMA ContentReadIs ==
  ASSUME NEW s \in Slots, fileContentRs_read(s)
  PROVE  LET o == run[s].obj
             b == Read(info[o].file, info[o].off)
             p == info[o].pos + run[s].n
         IN  \/ /\ Shifts(o, p, info[o].off + Len(b)) /\ UNCHANGED faults
                /\ Readies(s, IF AtEnd(p, Size[info[o].file]) THEN "close" ELSE "block", b, Len(b))
             \/ /\ Shifts(o, p, IF info[o].alive THEN info[o].off + 1 ELSE info[o].off) /\ ReadFails(o)
                /\ Readies(s, "block", <<>>, -1)
<1>. DEFINE o == run[s].obj
            b == Read(info[o].file, info[o].off)
            p == info[o].pos + run[s].n
            again == IF info[o].alive THEN info[o].off + 1 ELSE info[o].off
            step == IF AtEnd(p, Size[info[o].file]) THEN "close" ELSE "block"
<1>1. \/ /\ info' = [info EXCEPT ![o].pos = p, ![o].off = @ + Len(b)]
         /\ run' = [run EXCEPT ![s].step = step, ![s].bytes = b, ![s].n = Len(b)]
         /\ UNCHANGED faults
      \/ /\ ReadFails(o)
         /\ info' = [info EXCEPT ![o].pos = p, ![o].off = IF info[o].alive THEN @ + 1 ELSE @]
         /\ run' = [run EXCEPT ![s].step = "block", ![s].bytes = <<>>, ![s].n = -1]
  BY DEF fileContentRs_read
<1>. HIDE DEF b, p, step
<1>2. CASE /\ info' = [info EXCEPT ![o].pos = p, ![o].off = @ + Len(b)]
           /\ run' = [run EXCEPT ![s].step = step, ![s].bytes = b, ![s].n = Len(b)]
           /\ UNCHANGED faults
  BY <1>2 DEF Shifts, Readies, b, p, step
<1>3. CASE /\ ReadFails(o)
           /\ info' = [info EXCEPT ![o].pos = p, ![o].off = IF info[o].alive THEN @ + 1 ELSE @]
           /\ run' = [run EXCEPT ![s].step = "block", ![s].bytes = <<>>, ![s].n = -1]
  <2>1. CASE info[o].alive
    BY <1>3, <2>1 DEF Shifts, Readies, b, p, step
  <2>2. CASE ~info[o].alive
    BY <1>3, <2>2 DEF Shifts, Readies, b, p, step
  <2>. QED  BY <2>1, <2>2
<1>. QED  BY <1>1, <1>2, <1>3, Zenon

LEMMA ContentReadDoes ==
  ASSUME BaseInv, NEW s \in Slots, fileContentRs_read(s),
         NEW o, NEW f, NEW off, o = run[s].obj, f = info[o].file, off = info[o].off
  PROVE  /\ Runs(s, "advance") /\ run[s].result /\ SameClient /\ UNCHANGED m_mapTimstampToFileinfo
         /\ Changed(o) /\ info'[o].pos = info[o].pos + run[s].n /\ info'[o].alive = info[o].alive /\ run'[s].obj = o
         /\ \/ /\ Worsens({}) /\ info'[o].off = End(f, off)
               /\ \/ AtEnd(info[o].pos + run[s].n, Size[f]) /\ GoesOn(s, "close")
                  \/ ~AtEnd(info[o].pos + run[s].n, Size[f]) /\ GoesOn(s, "block")
               /\ run'[s].bytes = Bytes(f, off, End(f, off)) /\ run'[s].n \in Nat /\ off + run'[s].n = End(f, off)
            \/ /\ Fails(o) /\ info'[o].off = IF info[o].alive THEN off + 1 ELSE off
               /\ GoesOn(s, "block") /\ run'[s].bytes = <<>> /\ run'[s].n = -1
<1>1. StateOK /\ Doing(s, "advance") /\ run[s].result /\ UNCHANGED <<m_mapTimstampToFileinfo, epoch, asked, client>>
  BY DEF BaseInv, fileContentRs_read, user
<1>2. Runs(s, "advance")
  BY <1>1, DoingIsRunning DEF Runs, AllSteps, ReplySteps
<1>3. o \in 1..Len(info) /\ f \in Files /\ off \in Nat
  BY <1>2, HasObject
<1>12. info[o].pos \in Nat /\ run[s].n \in Nat
  BY <1>2, HasObject
<1>. DEFINE b == Read(f, off)
            p == info[o].pos + run[s].n
            e == End(f, off)
            step == IF AtEnd(p, Size[f]) THEN "close" ELSE "block"
            stop == IF info[o].alive THEN off + 1 ELSE off
<1>4. b \in Seq(Piece) /\ b = Bytes(f, off, e) /\ Len(b) \in Nat /\ off + Len(b) = e /\ e \in Nat
  BY <1>3, ReadIs
<1>5. p \in Nat /\ stop \in Nat
  <2>1. p \in Nat
    BY <1>12
  <2>2. off + 1 \in Nat /\ off \in Nat
    BY <1>3
  <2>. QED  BY <2>1, <2>2
<1>6. "block" \in AllSteps /\ step \in AllSteps /\ StateOK /\ run[s] # Idle
  BY <1>1, <1>2 DEF AllSteps, ReplySteps, Runs
<1>7. \/ Shifts(o, p, e) /\ UNCHANGED faults /\ Readies(s, step, b, Len(b))
      \/ Shifts(o, p, stop) /\ ReadFails(o) /\ Readies(s, "block", <<>>, -1)
  BY <1>4, ContentReadIs
<1>8. SameClient /\ UNCHANGED m_mapTimstampToFileinfo
  BY <1>1 DEF SameClient
<1>9. (step = "close" /\ AtEnd(p, Size[f])) \/ (step = "block" /\ ~AtEnd(p, Size[f]))
  OBVIOUS
<1>. HIDE DEF b, p, e, step, stop
<1>10. CASE Shifts(o, p, e) /\ UNCHANGED faults /\ Readies(s, step, b, Len(b))
  <2>1. Changed(o) /\ info'[o].pos = p /\ info'[o].off = e /\ info'[o].alive = info[o].alive
    BY <1>3, <1>4, <1>5, <1>6, <1>10, ShiftsDoes
  <2>2. Sendable(b, Len(b))
    BY <1>4 DEF Sendable
  <2>3. GoesOn(s, step) /\ run'[s].obj = o /\ run'[s].bytes = b /\ run'[s].n = Len(b)
    BY <1>6, <1>10, <2>2, ReadiesDoes
  <2>4. Worsens({})
    BY <1>6, <1>10, NoFaultIsFine
  <2>5. run'[s].n \in Nat /\ off + run'[s].n = e
    BY <1>4, <2>3
  <2>6. \/ AtEnd(p, Size[f]) /\ GoesOn(s, "close")
        \/ ~AtEnd(p, Size[f]) /\ GoesOn(s, "block")
    BY <1>9, <2>3
  <2>. QED  BY <1>1, <1>2, <1>4, <1>8, <2>1, <2>3, <2>4, <2>5, <2>6 DEF p, e
<1>11. CASE Shifts(o, p, stop) /\ ReadFails(o) /\ Readies(s, "block", <<>>, -1)
  <2>1. Changed(o) /\ info'[o].pos = p /\ info'[o].off = stop /\ info'[o].alive = info[o].alive
    BY <1>3, <1>5, <1>6, <1>11, ShiftsDoes
  <2>2. Sendable(<<>>, -1)
    BY DEF Sendable
  <2>3. GoesOn(s, "block") /\ run'[s].obj = o /\ run'[s].bytes = <<>> /\ run'[s].n = -1
    BY <1>6, <1>11, <2>2, ReadiesDoes
  <2>4. Fails(o)
    BY <1>3, <1>6, <1>11, ReadFailsDoes
  <2>. QED  BY <1>1, <1>2, <1>8, <2>1, <2>3, <2>4 DEF p, stop
<1>. QED  BY <1>7, <1>10, <1>11

LEMMA CloseDoes ==
  ASSUME BaseInv, NEW s \in Slots, fileContentRs_close(s), NEW o, NEW t, o = run[s].obj, t = run[s].time
  PROVE  /\ Runs(s, "close") /\ SameClient /\ Worsens({}) /\ Ends(s)
         /\ Changed(o) /\ info'[o].pos = info[o].pos /\ info'[o].off = info[o].off /\ info'[o].alive = FALSE
         /\ m_mapTimstampToFileinfo' = [m_mapTimstampToFileinfo EXCEPT ![user_time(t)] = 0]
         /\ m_mapTimstampToFileinfo' \in [Keys -> Nat]
<1>1. /\ StateOK /\ Doing(s, "close") /\ UNCHANGED <<epoch, asked, client, faults>> /\ Return(s)
      /\ info' = [info EXCEPT ![o].alive = FALSE]
      /\ m_mapTimstampToFileinfo' = [m_mapTimstampToFileinfo EXCEPT ![user_time(t)] = 0]
  BY DEF BaseInv, fileContentRs_close, user
<1>2. Runs(s, "close")
  BY <1>1, DoingIsRunning DEF Runs, AllSteps, ReplySteps
<1>3. o \in 1..Len(info) /\ info[o] \in Object
  BY <1>2, HasObject
<1>. PICK x : x = [info[o] EXCEPT !.alive = FALSE]
  OBVIOUS
<1>4. x \in Object /\ x.file = info[o].file /\ x.time = info[o].time /\ x.pos = info[o].pos /\ x.off = info[o].off
      /\ x.alive = FALSE
  BY <1>3 DEF Object
<1>5. Changed(o) /\ info'[o] = x
  BY <1>1, <1>3, <1>4, OneChanges
<1>6. m_mapTimstampToFileinfo' \in [Keys -> Nat]
  <2>1. 0 \in Nat /\ m_mapTimstampToFileinfo \in [Keys -> Nat]
    BY <1>1 DEF StateOK
  <2>. QED  BY <1>1, <2>1
<1>7. Ends(s) /\ Worsens({}) /\ SameClient
  BY <1>1, ReturnDoes, NoFaultIsFine DEF SameClient
<1>. QED  BY <1>1, <1>2, <1>4, <1>5, <1>6, <1>7

-----------------------------------------------------------------------------
(* continueDownload.                                                        *)
LEMMA ContFindDoes ==
  ASSUME BaseInv, NEW s \in Slots, continueDownload_find(s)
  PROVE  /\ Runs(s, "continueDownload") /\ SameSessions /\ SameClient /\ Worsens({})
         /\ GoesOn(s, "reopen") /\ run'[s].obj = 0 /\ run'[s].bytes = run[s].bytes /\ run'[s].n = run[s].n
<1>1. /\ StateOK /\ Doing(s, "continueDownload")
      /\ UNCHANGED <<m_mapTimstampToFileinfo, info, epoch, asked, client, faults>>
  BY DEF BaseInv, continueDownload_find, memory, user
<1>2. Runs(s, "continueDownload")
  BY <1>1, DoingIsRunning DEF Runs, AllSteps, ReplySteps
<1>3. run[s].time \in Times
  BY <1>1, <1>2, AHandlerRuns DEF Runs
<1>4. m_mapTimstampToFileinfo[<<0, run[s].time>>] = 0
  BY <1>3 DEF BaseInv, MapOK
<1>5. Becomes(s, WithObj(run[s], "reopen", 0))
  BY <1>1, <1>2, <1>4 DEF continueDownload_find, StateOK, Runs, Becomes, WithObj
<1>6. "reopen" \in AllSteps /\ 0 \in Nat /\ StateOK
  BY <1>1 DEF AllSteps, ReplySteps
<1>7. GoesOn(s, "reopen") /\ run'[s].obj = 0 /\ run'[s].bytes = run[s].bytes /\ run'[s].n = run[s].n
  BY <1>2, <1>5, <1>6, GoesWithObj DEF Runs
<1>. QED  BY <1>1, <1>2, <1>7, NoFaultIsFine DEF SameSessions, SameClient

LEMMA ContOpenDoes ==
  ASSUME BaseInv, NEW s \in Slots, continueDownload_open(s)
  PROVE  /\ Runs(s, "reopen") /\ SameClient
         /\ \/ /\ Worsens({}) /\ Opened(run[s].time, run[s].file, run[s].n) /\ run[s].n \in Nat
               /\ GoesOn(s, "seek") /\ run'[s].obj = Len(info) + 1
               /\ run'[s].bytes = run[s].bytes /\ run'[s].n = run[s].n
            \/ Worsens({"call"}) /\ Ends(s) /\ SameSessions
<1>1. StateOK /\ Doing(s, "reopen") /\ UNCHANGED <<epoch, asked, client>>
  BY DEF BaseInv, continueDownload_open, user
<1>2. Runs(s, "reopen")
  BY <1>1, DoingIsRunning DEF Runs, AllSteps, ReplySteps
<1>3. run[s].file \in Files /\ run[s].n \in Nat
  BY <1>2 DEF Runs, BaseInv, HandlerOK, ReplySteps
<1>4. CASE /\ NewSession(s, run[s].n) /\ UNCHANGED faults
           /\ run' = [run EXCEPT ![s].step = "seek", ![s].obj = Len(info) + 1]
  <2>1. Opened(run[s].time, run[s].file, run[s].n)
    BY <1>1, <1>2, <1>3, <1>4, OneOpens DEF Runs
  <2>2. Becomes(s, WithObj(run[s], "seek", Len(info) + 1))
    BY <1>1, <1>2, <1>4 DEF StateOK, Runs, Becomes, WithObj
  <2>3. Len(info) + 1 \in Nat
    BY <1>1, LenProperties DEF StateOK
  <2>4. "seek" \in AllSteps /\ StateOK
    BY <1>1 DEF AllSteps, ReplySteps
  <2>5. GoesOn(s, "seek") /\ run'[s].obj = Len(info) + 1 /\ run'[s].bytes = run[s].bytes /\ run'[s].n = run[s].n
    BY <1>2, <2>2, <2>3, <2>4, GoesWithObj DEF Runs
  <2>. QED  BY <1>1, <1>2, <1>3, <1>4, <2>1, <2>5, NoFaultIsFine DEF SameClient
<1>5. CASE Fault("call") /\ Return(s) /\ UNCHANGED memory
  BY <1>1, <1>2, <1>5, ReturnDoes, FaultWorsens DEF SameClient, SameSessions, memory, AllFaults
<1>. QED  BY <1>4, <1>5 DEF continueDownload_open

Placed(y, p, q) == [y EXCEPT !.pos = p, !.off = q]
MovedOn(y, k) == [y EXCEPT !.off = @ + k]

LEMMA JumpIs ==
  ASSUME NEW y \in Object, NEW p \in Nat, NEW k \in Nat
  PROVE  /\ Jump(y, p).file = y.file /\ Jump(y, p).off = p
         /\ MovedOn(Jump(y, p), k) = Placed(y, p, p + k)
<1>1. Jump(y, p).file = y.file /\ Jump(y, p).pos = p /\ Jump(y, p).off = p
  BY DEF Jump, Object
<1>2. MovedOn(Jump(y, p), k) = Placed(y, p, p + k)
  BY DEF Jump, Object, MovedOn, Placed
<1>. QED  BY <1>1, <1>2

LEMMA ContReadDoes ==
  ASSUME BaseInv, NEW s \in Slots, continueDownload_read(s),
         NEW o, NEW f, NEW n, o = run[s].obj, f = info[o].file, n = run[s].n
  PROVE  /\ Runs(s, "seek") /\ SameClient /\ UNCHANGED m_mapTimstampToFileinfo
         /\ Changed(o) /\ info'[o].pos = n /\ info'[o].alive = info[o].alive
         /\ \/ Worsens({}) /\ info'[o].off = n /\ Ends(s)
            \/ Fails(o) /\ info'[o].off = n /\ Ends(s)
            \/ /\ Worsens({}) /\ info'[o].off = End(f, n) /\ GoesOn(s, "block") /\ run'[s].obj = o
               /\ run'[s].bytes = Bytes(f, n, End(f, n)) /\ run'[s].n \in Nat /\ n + run'[s].n = End(f, n)
<1>1. StateOK /\ Doing(s, "seek") /\ UNCHANGED <<m_mapTimstampToFileinfo, epoch, asked, client>>
  BY DEF BaseInv, continueDownload_read, user
<1>2. Runs(s, "seek")
  BY <1>1, DoingIsRunning DEF Runs, AllSteps, ReplySteps
<1>3. o \in 1..Len(info) /\ info[o] \in Object /\ f \in Files /\ n \in Nat
  BY <1>2, HasObject
<1>. DEFINE there == Jump(info[o], n)
            b == Read(f, n)
            e == End(f, n)
<1>4. b \in Seq(Piece) /\ b = Bytes(f, n, e) /\ Len(b) \in Nat /\ n + Len(b) = e /\ e \in Nat
  BY <1>3, ReadIs
<1>5. there.file = f /\ there.off = n /\ MovedOn(there, Len(b)) = Placed(info[o], n, n + Len(b))
  BY <1>3, <1>4, JumpIs, Zenon
<1>6. StateOK /\ run[s] # Idle /\ "block" \in AllSteps
  BY <1>1, <1>2 DEF Runs, AllSteps
<1>7. \/ /\ info' = [info EXCEPT ![o] = [there EXCEPT !.off = @ + Len(b)]]
         /\ run' = [run EXCEPT ![s] = IF b = <<>> THEN Idle ELSE
                                        [@ EXCEPT !.step = "block", !.bytes = b, !.n = Len(b)]]
         /\ UNCHANGED faults
      \/ ReadFails(o) /\ info' = [info EXCEPT ![o] = there] /\ Return(s)
  <2>. PICK bb : bb = Read(there.file, there.off)
    OBVIOUS
  <2>1. bb = b
    BY <1>5
  <2>2. \/ /\ info' = [info EXCEPT ![o] = [there EXCEPT !.off = @ + Len(bb)]]
           /\ run' = [run EXCEPT ![s] = IF bb = <<>> THEN Idle ELSE
                                        [@ EXCEPT !.step = "block", !.bytes = bb, !.n = Len(bb)]]
           /\ UNCHANGED faults
        \/ ReadFails(o) /\ info' = [info EXCEPT ![o] = there] /\ Return(s)
    <3>. HIDE DEF there
    <3>. QED  BY DEF continueDownload_read, there
  <2>. HIDE DEF b
  <2>. QED  BY <2>1, <2>2
<1>8. SameClient /\ UNCHANGED m_mapTimstampToFileinfo
  BY <1>1 DEF SameClient
<1>9. CASE /\ info' = [info EXCEPT ![o] = [there EXCEPT !.off = @ + Len(b)]]
           /\ run' = [run EXCEPT ![s] = IF b = <<>> THEN Idle ELSE
                                        [@ EXCEPT !.step = "block", !.bytes = b, !.n = Len(b)]]
           /\ UNCHANGED faults
  <2>. HIDE DEF there, b, e
  <2>1. Shifts(o, n, e)
    <3>1. info' = [info EXCEPT ![o] = MovedOn(there, Len(b))]
      BY <1>9 DEF MovedOn
    <3>2. info' = [info EXCEPT ![o] = Placed(info[o], n, e)]
      BY <1>4, <1>5, <3>1
    <3>. QED  BY <1>1, <1>3, <3>2 DEF Shifts, StateOK, Object, Placed
  <2>2. Changed(o) /\ info'[o].pos = n /\ info'[o].off = e /\ info'[o].alive = info[o].alive
    BY <1>3, <1>4, <1>6, <2>1, ShiftsDoes
  <2>3. Worsens({})
    BY <1>6, <1>9, NoFaultIsFine
  <2>4. CASE b = <<>>
    <3>1. Ends(s)
      BY <1>6, <1>9, <2>4, TurnsTo DEF Ends
    <3>2. Len(b) = 0
      BY <2>4
    <3>3. e = n
      BY <1>3, <1>4, <3>2
    <3>. QED  BY <1>2, <1>8, <2>2, <2>3, <3>1, <3>3
  <2>5. CASE b # <<>>
    <3>1. Becomes(s, WithBytes(run[s], "block", b, Len(b)))
      BY <1>9, <2>5 DEF Becomes, WithBytes
    <3>2. Sendable(b, Len(b))
      BY <1>4 DEF Sendable
    <3>3. GoesOn(s, "block") /\ run'[s].obj = o /\ run'[s].bytes = b /\ run'[s].n = Len(b)
      BY <1>6, <3>1, <3>2, GoesWithBytes
    <3>4. run'[s].n \in Nat /\ n + run'[s].n = e
      BY <1>4, <3>3
    <3>. QED  BY <1>2, <1>4, <1>8, <2>2, <2>3, <3>3, <3>4 DEF e
  <2>. QED  BY <2>4, <2>5
<1>10. CASE ReadFails(o) /\ info' = [info EXCEPT ![o] = there] /\ Return(s)
  <2>1. Shifts(o, n, n)
    BY <1>1, <1>3, <1>10 DEF Shifts, StateOK, Object, Jump
  <2>2. Changed(o) /\ info'[o].pos = n /\ info'[o].off = n /\ info'[o].alive = info[o].alive
    BY <1>3, <1>6, <2>1, ShiftsDoes
  <2>3. Fails(o) /\ Ends(s)
    BY <1>3, <1>6, <1>10, ReadFailsDoes, ReturnDoes
  <2>. QED  BY <1>2, <1>8, <2>2, <2>3
<1>. QED  BY <1>7, <1>9, <1>10

-----------------------------------------------------------------------------
(* What the client gets and sends.                                          *)
LEMMA BlockDoes ==
  ASSUME BaseInv, NEW s \in Slots, SendBlock(s)
  PROVE  /\ Runs(s, "block") /\ SameSessions /\ Worsens({}) /\ Ends(s)
         /\ \/ run[s].epoch = epoch /\ Hears(run[s].time, Stored(client[run[s].time], run[s]))
            \/ run[s].epoch # epoch /\ SameClient
<1>1. StateOK /\ Doing(s, "block") /\ UNCHANGED <<m_mapTimstampToFileinfo, info, epoch, asked, faults>> /\ Return(s)
  BY DEF BaseInv, SendBlock, memory
<1>2. Runs(s, "block")
  BY <1>1, DoingIsRunning DEF Runs, AllSteps
<1>3. SameSessions /\ Worsens({}) /\ Ends(s)
  BY <1>1, NoFaultIsFine, ReturnDoes DEF SameSessions
<1>4. run[s].time \in Times /\ run[s].bytes \in Seq(Piece) /\ run[s].n \in Int
  BY <1>1, <1>2, AHandlerRuns DEF Runs
<1>5. CASE run[s].epoch = epoch
  <2>. DEFINE c == client[run[s].time]
              b == run[s].bytes
              n == run[s].n
  <2>1. c \in Peer /\ c.got \in Seq(Piece) /\ b \in Seq(Piece) /\ n \in Int
    BY <1>1, <1>4, PeerIsThere
  <2>2. client' = [client EXCEPT ![run[s].time] = Stored(c, run[s])]
    BY <1>5 DEF SendBlock
  <2>3. Stored(c, run[s]) = IF c.phase \in {"waiting", "answer"} /\ n >= 0
                            THEN [c EXCEPT !.got = c.got \o b, !.phase = "answer", !.n = n] ELSE c
    BY DEF Stored
  <2>. HIDE DEF c, b, n
  <2>4. Stored(c, run[s]) \in Peer
    <3>1. CASE n >= 0
      <4>1. c.got \o b \in Seq(Piece) /\ n \in Nat /\ "answer" \in Phases
        BY <2>1, <3>1, ConcatProperties DEF Phases
      <4>2. [c EXCEPT !.got = c.got \o b, !.phase = "answer", !.n = n] \in Peer
        BY <2>1, <4>1 DEF Peer
      <4>. QED  BY <2>1, <2>3, <4>2
    <3>2. CASE ~(n >= 0)
      BY <2>1, <2>3, <3>2
    <3>. QED  BY <3>1, <3>2
  <2>5. Hears(run[s].time, Stored(c, run[s]))
    BY <1>1, <1>4, <2>2, <2>4, ItHears
  <2>. QED  BY <1>2, <1>3, <1>5, <2>5 DEF c
<1>6. CASE run[s].epoch # epoch
  <2>1. SameClient
    BY <1>1, <1>6 DEF SendBlock, SameClient
  <2>. QED  BY <1>2, <1>3, <1>6, <2>1
<1>. QED  BY <1>5, <1>6

(* A request is in the server.                                              *)
Starts(s, step, t, f, n, result) ==
  /\ run[s] = Idle /\ Turns(s) /\ run'[s] \in Handling
  /\ run'[s].step = step /\ run'[s].epoch = epoch /\ run'[s].time = t /\ run'[s].file = f
  /\ run'[s].frames = <<>> /\ run'[s].obj = 0 /\ run'[s].bytes = <<>>
  /\ run'[s].n = n /\ run'[s].result = result
Begins(step, t, f, n, result) == \E s \in Slots : Starts(s, step, t, f, n, result)
Wants(q, step, t, f, n, result) ==
  /\ q \in Handling
  /\ q.step = step /\ q.epoch = epoch /\ q.time = t /\ q.file = f
  /\ q.frames = <<>> /\ q.obj = 0 /\ q.bytes = <<>>
  /\ q.n = n /\ q.result = result

Numbered(q, n) == [q EXCEPT !.n = n]
Refusing(q, n) == [q EXCEPT !.n = n, !.result = FALSE]

LEMMA RequestWants ==
  ASSUME StateOK, NEW step \in AllSteps, NEW t \in Times, NEW f \in Files \cup Folders, NEW n \in Int
  PROVE  /\ Wants(Request(step, t, f), step, t, f, 0, TRUE)
         /\ Wants(Numbered(Request(step, t, f), n), step, t, f, n, TRUE)
         /\ Wants(Refusing(Request(step, t, f), n), step, t, f, n, FALSE)
<1>. DEFINE q == Request(step, t, f)
<1>1. <<>> \in Seq(Frame) /\ <<>> \in Seq(Piece) /\ 0 \in Nat /\ epoch \in Nat
  BY DEF StateOK
<1>2. q \in Handling
  BY <1>1 DEF Request, Handling
<1>3. /\ q.step = step /\ q.epoch = epoch /\ q.time = t /\ q.file = f /\ q.frames = <<>>
      /\ q.obj = 0 /\ q.bytes = <<>> /\ q.n = 0 /\ q.result = TRUE
  BY DEF Request
<1>. HIDE DEF q
<1>4. Wants(q, step, t, f, 0, TRUE)
  BY <1>2, <1>3 DEF Wants
<1>5. [q EXCEPT !.n = n] \in Handling
  BY <1>2 DEF Handling
<1>6. Wants([q EXCEPT !.n = n], step, t, f, n, TRUE)
  BY <1>2, <1>3, <1>5 DEF Wants, Handling
<1>7. [q EXCEPT !.n = n, !.result = FALSE] \in Handling
  BY <1>2 DEF Handling
<1>8. Wants([q EXCEPT !.n = n, !.result = FALSE], step, t, f, n, FALSE)
  BY <1>2, <1>3, <1>7 DEF Wants, Handling
<1>. QED  BY <1>4, <1>6, <1>8 DEF q, Numbered, Refusing

LEMMA SubmitDoes ==
  ASSUME StateOK, NEW q, NEW step, NEW t, NEW f, NEW n, NEW result, Wants(q, step, t, f, n, result), Submit(q)
  PROVE  Begins(step, t, f, n, result)
<1>1. PICK s \in Slots : run[s] = Idle /\ run' = [run EXCEPT ![s] = q]
  BY DEF Submit
<1>2. Turns(s) /\ run'[s] = q
  BY <1>1, TurnsTo DEF Wants
<1>. QED  BY <1>1, <1>2 DEF Starts, Begins, Wants

Phased(t, phase) == [client[t] EXCEPT !.phase = phase]
LEMMA PhasedIs ==
  ASSUME StateOK, NEW t \in Times, NEW phase \in Phases
  PROVE  /\ Phased(t, phase) \in Peer /\ Phased(t, phase).file = client[t].file /\ Phased(t, phase).got = client[t].got
         /\ Phased(t, phase).phase = phase /\ Phased(t, phase).n = client[t].n
BY PeerIsThere DEF Phased, Peer

LEMMA RequestDoes ==
  ASSUME BaseInv, NEW r \in Requests, sendRequest(r)
  PROVE  /\ r \notin asked /\ asked' = asked \cup {r} /\ SameSessions /\ UNCHANGED <<epoch, client>> /\ Worsens({})
         /\ r[1] \in Times /\ r[2] \in Files \cup Folders
         /\ \/ r[2] \in Folders /\ Begins("downloadFolderByDir", r[1], r[2], 0, TRUE)
            \/ r[2] \in Files /\ r[2] \notin Folders /\ Begins("downloadFile", r[1], r[2], 0, TRUE)
<1>1. /\ StateOK /\ r \notin asked /\ asked' = asked \cup {r}
      /\ UNCHANGED <<m_mapTimstampToFileinfo, info, epoch, client, faults>>
  BY DEF BaseInv, sendRequest, memory
<1>. PICK t, f : t = r[1] /\ f = r[2]
  OBVIOUS
<1>2. t \in Times /\ f \in Files \cup Folders
  BY DownloadAssumption
<1>3. SameSessions /\ Worsens({})
  BY <1>1, NoFaultIsFine DEF SameSessions
<1>4. 0 \in Int /\ TRUE \in BOOLEAN /\ "downloadFolderByDir" \in AllSteps /\ "downloadFile" \in AllSteps
  BY DEF AllSteps, WalkSteps, OpenSteps
<1>5. CASE f \in Folders
  <2>1. Submit(Request("downloadFolderByDir", t, f))
    BY <1>5 DEF sendRequest
  <2>2. Wants(Request("downloadFolderByDir", t, f), "downloadFolderByDir", t, f, 0, TRUE)
    BY <1>1, <1>2, <1>4, RequestWants
  <2>3. Begins("downloadFolderByDir", t, f, 0, TRUE)
    BY <1>1, <2>1, <2>2, SubmitDoes
  <2>. QED  BY <1>1, <1>2, <1>3, <1>5, <2>3
<1>6. CASE f \notin Folders
  <2>1. Submit(Request("downloadFile", t, f))
    BY <1>6 DEF sendRequest
  <2>2. Wants(Request("downloadFile", t, f), "downloadFile", t, f, 0, TRUE)
    BY <1>1, <1>2, <1>4, RequestWants
  <2>3. Begins("downloadFile", t, f, 0, TRUE)
    BY <1>1, <2>1, <2>2, SubmitDoes
  <2>. QED  BY <1>1, <1>2, <1>3, <1>6, <2>3
<1>. QED  BY <1>5, <1>6

LEMMA HeaderRsDoes ==
  ASSUME BaseInv, NEW t \in Times, sendHeaderRs(t)
  PROVE  /\ client[t].phase = "header" /\ SameSessions /\ Worsens({}) /\ Hears(t, Phased(t, "waiting"))
         /\ client[t].file \in Files /\ Begins("downloadFileHeadRs", t, client[t].file, 0, TRUE)
<1>1. /\ StateOK /\ client[t].phase = "header" /\ UNCHANGED <<m_mapTimstampToFileinfo, info, epoch, asked, faults>>
      /\ client' = [client EXCEPT ![t] = Phased(t, "waiting")]
  BY DEF BaseInv, sendHeaderRs, memory, Phased
<1>2. client[t].file \in Files
  BY <1>1 DEF BaseInv, ClientOK
<1>3. Hears(t, Phased(t, "waiting"))
  BY <1>1, PhasedIs, ItHears DEF Phases
<1>4. Submit(Request("downloadFileHeadRs", t, client[t].file))
  BY DEF sendHeaderRs
<1>5. 0 \in Int /\ "downloadFileHeadRs" \in AllSteps /\ client[t].file \in Files \cup Folders
  BY <1>2 DEF AllSteps, ReplySteps
<1>6. Wants(Request("downloadFileHeadRs", t, client[t].file), "downloadFileHeadRs", t, client[t].file, 0, TRUE)
  BY <1>1, <1>5, RequestWants
<1>7. Begins("downloadFileHeadRs", t, client[t].file, 0, TRUE)
  BY <1>1, <1>4, <1>6, SubmitDoes
<1>. QED  BY <1>1, <1>2, <1>3, <1>7, NoFaultIsFine DEF SameSessions

LEMMA ContentRsDoes ==
  ASSUME BaseInv, NEW t \in Times, sendContentRs(t)
  PROVE  /\ client[t].phase = "answer" /\ SameSessions /\ Worsens({})
         /\ Hears(t, Phased(t, IF Has(client[t]) THEN "done" ELSE "waiting"))
         /\ client[t].file \in Files /\ client[t].n \in Nat
         /\ Begins("fileContentRs", t, client[t].file, client[t].n, TRUE)
<1>. PICK phase : phase = IF Has(client[t]) THEN "done" ELSE "waiting"
  OBVIOUS
<1>1. /\ StateOK /\ client[t].phase = "answer" /\ UNCHANGED <<m_mapTimstampToFileinfo, info, epoch, asked, faults>>
      /\ client' = [client EXCEPT ![t] = Phased(t, phase)]
  BY DEF BaseInv, sendContentRs, memory, Phased
<1>2. client[t].file \in Files /\ client[t].n \in Nat
  BY <1>1, PeerIsThere DEF BaseInv, ClientOK
<1>3. Hears(t, Phased(t, phase))
  BY <1>1, PhasedIs, ItHears DEF Phases
<1>4. Submit(Numbered(Request("fileContentRs", t, client[t].file), client[t].n))
  BY DEF sendContentRs, Numbered
<1>5. client[t].n \in Int /\ "fileContentRs" \in AllSteps /\ client[t].file \in Files \cup Folders
  BY <1>2 DEF AllSteps, ReplySteps
<1>6. Wants(Numbered(Request("fileContentRs", t, client[t].file), client[t].n),
            "fileContentRs", t, client[t].file, client[t].n, TRUE)
  BY <1>1, <1>5, RequestWants
<1>7. Begins("fileContentRs", t, client[t].file, client[t].n, TRUE)
  BY <1>1, <1>4, <1>6, SubmitDoes
<1>. QED  BY <1>1, <1>2, <1>3, <1>7, NoFaultIsFine DEF SameSessions

Without(t, n) == [client[t] EXCEPT !.phase = "waiting", !.got = SubSeq(@, 1, Len(@) - n)]
LEMMA RefuseDoes ==
  ASSUME BaseInv, NEW t \in Times, refuse(t)
  PROVE  /\ client[t].phase = "answer" /\ client[t].n > 0 /\ SameSessions /\ Worsens({"refuse"})
         /\ Hears(t, Without(t, client[t].n)) /\ client[t].file \in Files /\ client[t].n \in Nat
         /\ Begins("fileContentRs", t, client[t].file, client[t].n, FALSE)
<1>1. /\ StateOK /\ client[t].phase = "answer" /\ client[t].n > 0 /\ Fault("refuse")
      /\ UNCHANGED <<m_mapTimstampToFileinfo, info, epoch, asked>>
  BY DEF BaseInv, refuse, memory
<1>2. client' = [client EXCEPT ![t] = Without(t, client[t].n)]
  BY <1>1 DEF refuse, Without, StateOK, Peer
<1>3. client[t] \in Peer /\ client[t].n \in Nat /\ client[t].got \in Seq(Piece) /\ client[t].file \in Files
  BY <1>1, PeerIsThere DEF BaseInv, ClientOK
<1>4. Without(t, client[t].n) \in Peer
  <2>. PICK k \in Int : k = Len(client[t].got) - client[t].n
    BY <1>3, LenProperties
  <2>1. k <= Len(client[t].got)
    BY <1>3, LenProperties
  <2>2. SubSeq(client[t].got, 1, k) \in Seq(Piece)
    BY <1>3, <2>1
  <2>3. "waiting" \in Phases
    BY DEF Phases
  <2>4. Without(t, client[t].n) = [client[t] EXCEPT !.phase = "waiting", !.got = SubSeq(client[t].got, 1, k)]
    BY <1>3 DEF Without
  <2>. QED  BY <1>3, <2>2, <2>3, <2>4 DEF Peer
<1>5. Hears(t, Without(t, client[t].n))
  BY <1>1, <1>2, <1>4, ItHears
<1>6. Submit(Refusing(Request("fileContentRs", t, client[t].file), client[t].n))
  BY DEF refuse, Refusing
<1>7. client[t].n \in Int /\ "fileContentRs" \in AllSteps /\ client[t].file \in Files \cup Folders
  BY <1>3 DEF AllSteps, ReplySteps
<1>10. Wants(Refusing(Request("fileContentRs", t, client[t].file), client[t].n),
             "fileContentRs", t, client[t].file, client[t].n, FALSE)
  BY <1>1, <1>7, RequestWants
<1>8. Begins("fileContentRs", t, client[t].file, client[t].n, FALSE)
  BY <1>1, <1>6, <1>10, SubmitDoes
<1>9. Worsens({"refuse"})
  BY <1>1, FaultWorsens DEF AllFaults
<1>. QED  BY <1>1, <1>3, <1>5, <1>8, <1>9 DEF SameSessions

LEMMA ContinueDoes ==
  ASSUME BaseInv, NEW t \in Times, sendContinue(t)
  PROVE  /\ client[t].phase = "offline" /\ SameSessions /\ Hears(t, Phased(t, "waiting"))
         /\ (Earlier(t) /\ Worsens({"overtaken"})) \/ (~Earlier(t) /\ Worsens({}))
         /\ client[t].file \in Files /\ Got(t) \in Nat
         /\ Begins("continueDownload", t, client[t].file, Got(t), TRUE)
<1>1. /\ StateOK /\ client[t].phase = "offline" /\ UNCHANGED <<m_mapTimstampToFileinfo, info, epoch, asked>>
      /\ client' = [client EXCEPT ![t] = Phased(t, "waiting")]
      /\ faults' = [faults EXCEPT !.seen = @ \cup IF Earlier(t) THEN {"overtaken"} ELSE {}]
  BY DEF BaseInv, sendContinue, memory, Phased
<1>2. client[t].file \in Files /\ Got(t) \in Nat
  BY <1>1, PeerIsThere DEF BaseInv, ClientOK
<1>3. Hears(t, Phased(t, "waiting"))
  BY <1>1, PhasedIs, ItHears DEF Phases
<1>4. Submit(Numbered(Request("continueDownload", t, client[t].file), Got(t)))
  BY DEF sendContinue, Got, Numbered
<1>5. Got(t) \in Int /\ "continueDownload" \in AllSteps /\ client[t].file \in Files \cup Folders
  BY <1>2 DEF AllSteps, ReplySteps
<1>8. Wants(Numbered(Request("continueDownload", t, client[t].file), Got(t)),
            "continueDownload", t, client[t].file, Got(t), TRUE)
  BY <1>1, <1>5, RequestWants
<1>6. Begins("continueDownload", t, client[t].file, Got(t), TRUE)
  BY <1>1, <1>4, <1>8, SubmitDoes
<1>7. (Earlier(t) /\ Worsens({"overtaken"})) \/ (~Earlier(t) /\ Worsens({}))
  BY <1>1 DEF Worsens, StateOK
<1>. QED  BY <1>1, <1>2, <1>3, <1>6, <1>7 DEF SameSessions

(* The client loses its connection.                                         *)
Dropped(t) ==
  IF client[t].phase \in Active THEN Phased(t, IF Has(client[t]) THEN "done" ELSE "offline") ELSE client[t]
Drops ==
  /\ epoch' \in Nat /\ epoch' = epoch + 1 /\ asked' = asked
  /\ client' \in [Times -> Peer] /\ \A t \in Times : client'[t] = Dropped(t)

LEMMA DropsDoes == ASSUME StateOK, ConnectionLost PROVE Drops
<1>1. epoch' \in Nat /\ epoch' = epoch + 1 /\ asked' = asked
  BY DEF StateOK, ConnectionLost
<1>2. client' = [t \in Times |-> Dropped(t)]
  BY DEF ConnectionLost, Dropped, Phased
<1>3. \A t \in Times : Dropped(t) \in Peer
  BY PeerIsThere, PhasedIs DEF Dropped, Phases
<1>. QED  BY <1>1, <1>2, <1>3 DEF Drops

LEMMA DisconnectDoes ==
  ASSUME BaseInv, disconnect
  PROVE  SameSessions /\ UNCHANGED run /\ Worsens({"reconnect"}) /\ Drops
BY DropsDoes, FaultWorsens DEF BaseInv, disconnect, SameSessions, memory, AllFaults

LEMMA LostDoes ==
  ASSUME BaseInv, NEW s \in Slots, lost(s)
  PROVE  /\ SameSessions /\ SameClient /\ Worsens({}) /\ Ends(s)
         /\ run[s] # Idle /\ run[s].epoch # epoch /\ run[s].frames = <<>>
BY ReturnDoes, NoFaultIsFine DEF BaseInv, lost, SameSessions, memory, user, SameClient

LEMMA CrashDoes ==
  ASSUME BaseInv, crash
  PROVE  /\ Worsens({"crash"}) /\ Drops /\ info' = <<>> /\ run' = [s \in Slots |-> Idle]
         /\ m_mapTimstampToFileinfo' = [key \in Keys |-> 0]
BY DropsDoes, FaultWorsens DEF BaseInv, crash, AllFaults

-----------------------------------------------------------------------------
(* BaseInv.  What a step leaves of the sessions, of the clients and of its  *)
(* handler.                                                                 *)
Keeps ==
  /\ Len(info) <= Len(info')
  /\ \A o \in 1..Len(info) : info'[o].time = info[o].time /\ info'[o].file = info[o].file
SessionsOK ==
  /\ Keeps /\ m_mapTimstampToFileinfo' \in [Keys -> Nat] /\ info' \in Seq(Object)
  /\ \A u \in Times : MapOK(u)'
PeersOK ==
  /\ epoch' \in Nat /\ epoch <= epoch' /\ asked' \subseteq Requests /\ client' \in [Times -> Peer]
  /\ \A u \in Times : ClientOK(u)'
Connected(s) == run'[s].epoch = epoch \/ (run[s] # Idle /\ run'[s].epoch = run[s].epoch)
RunsOK(s) == Turns(s) /\ (run'[s] # Idle => HandlerOK(s)' /\ Connected(s))

LEMMA LensAre == ASSUME StateOK PROVE Len(info) \in Nat /\ info \in Seq(Object)
BY LenProperties DEF StateOK

LEMMA SameSessionsKeep ==
  ASSUME BaseInv, SameSessions
  PROVE  SessionsOK /\ \A u \in Times : Held(u)' = Held(u)
<1>1. StateOK /\ UNCHANGED <<m_mapTimstampToFileinfo, info>>
  BY DEF BaseInv, SameSessions
<1>2. Keeps
  BY <1>1, LensAre DEF Keeps
<1>3. \A u \in Times : Held(u)' = Held(u)
  BY <1>1 DEF Held
<1>4. ASSUME NEW u \in Times PROVE MapOK(u)'
  <2>1. MapOK(u) /\ Held(u)' = Held(u)
    BY <1>3 DEF BaseInv
  <2>. QED  BY <1>1, <2>1 DEF MapOK
<1>. QED  BY <1>1, <1>2, <1>3, <1>4 DEF SessionsOK, StateOK

LEMMA OpenedKeeps ==
  ASSUME BaseInv, NEW t \in Times, NEW f, NEW pos, Opened(t, f, pos)
  PROVE  /\ SessionsOK /\ Held(t)' = Len(info) + 1 /\ \A u \in Times \ {t} : Held(u)' = Held(u)
         /\ Len(info) + 1 \in 1..Len(info') /\ info'[Len(info) + 1].time = t /\ info'[Len(info) + 1].alive
         /\ info'[Len(info) + 1].file = f /\ info'[Len(info) + 1].pos = pos /\ info'[Len(info) + 1].off = 0
<1>1. StateOK /\ Len(info) \in Nat
  BY LensAre DEF BaseInv
<1>2. Len(info') = Len(info) + 1 /\ (\A o \in 1..Len(info) : info'[o] = info[o])
  BY DEF Opened
<1>3. /\ info'[Len(info) + 1].time = t /\ info'[Len(info) + 1].alive /\ info'[Len(info) + 1].file = f
      /\ info'[Len(info) + 1].pos = pos /\ info'[Len(info) + 1].off = 0
  BY DEF Opened
<1>4. Keeps
  BY <1>1, <1>2 DEF Keeps
<1>5. m_mapTimstampToFileinfo \in [Keys -> Nat] /\ m_mapTimstampToFileinfo' = [m_mapTimstampToFileinfo EXCEPT ![user_time(t)] = Len(info) + 1]
  BY <1>1 DEF Opened, StateOK
<1>6. Held(t)' = Len(info) + 1 /\ \A u \in Times \ {t} : Held(u)' = Held(u)
  BY <1>5, TimesAre DEF Held
<1>7. ASSUME NEW u \in Times PROVE m_mapTimstampToFileinfo'[<<0, u>>] = m_mapTimstampToFileinfo[<<0, u>>]
  <2>1. user_time(t) # <<0, u>> /\ <<0, u>> \in Keys
    BY TimesAre
  <2>. QED  BY <1>5, <2>1
<1>8. Len(info) + 1 \in 1..Len(info')
  BY <1>1, <1>2
<1>9. ASSUME NEW u \in Times PROVE MapOK(u)'
  <2>1. MapOK(u)
    BY DEF BaseInv
  <2>2. CASE u = t
    BY <1>3, <1>6, <1>7, <1>8, <2>1, <2>2 DEF MapOK
  <2>3. CASE u # t
    <3>1. \A o \in 1..Len(info) : o \in 1..Len(info') /\ info'[o] = info[o]
      BY <1>1, <1>2
    <3>. QED  BY <1>6, <1>7, <2>1, <2>3, <3>1 DEF MapOK
  <2>. QED  BY <2>2, <2>3
<1>. QED  BY <1>3, <1>4, <1>6, <1>8, <1>9 DEF SessionsOK, Opened

LEMMA ChangedKeeps ==
  ASSUME BaseInv, NEW o \in 1..Len(info), Changed(o), info'[o].alive = info[o].alive, UNCHANGED m_mapTimstampToFileinfo
  PROVE  /\ SessionsOK /\ \A u \in Times : Held(u)' = Held(u)
         /\ \A j \in 1..Len(info) : info'[j].alive = info[j].alive
<1>1. StateOK /\ Len(info) \in Nat /\ info' \in Seq(Object) /\ Len(info') = Len(info)
  BY LensAre DEF BaseInv, Changed
<1>2. \A j \in 1..Len(info) : info'[j].time = info[j].time /\ info'[j].file = info[j].file /\ info'[j].alive = info[j].alive
  BY DEF Changed
<1>3. Keeps
  BY <1>1, <1>2 DEF Keeps
<1>4. \A u \in Times : Held(u)' = Held(u)
  BY DEF Held
<1>5. ASSUME NEW u \in Times PROVE MapOK(u)'
  <2>1. MapOK(u) /\ Held(u)' = Held(u)
    BY <1>4 DEF BaseInv
  <2>. QED  BY <1>1, <1>2, <2>1 DEF MapOK
<1>. QED  BY <1>1, <1>2, <1>3, <1>4, <1>5 DEF SessionsOK, StateOK

LEMMA ClosedKeeps ==
  ASSUME BaseInv, NEW t \in Times, NEW o \in 1..Len(info), Changed(o), info[o].time = t,
         m_mapTimstampToFileinfo' = [m_mapTimstampToFileinfo EXCEPT ![user_time(t)] = 0],
         m_mapTimstampToFileinfo' \in [Keys -> Nat]
  PROVE  SessionsOK /\ Held(t)' = 0 /\ \A u \in Times \ {t} : Held(u)' = Held(u)
<1>1. StateOK /\ Len(info) \in Nat /\ info' \in Seq(Object) /\ Len(info') = Len(info)
  BY LensAre DEF BaseInv, Changed
<1>2. \A j \in 1..Len(info) : info'[j].time = info[j].time /\ info'[j].file = info[j].file
  BY DEF Changed
<1>3. Keeps
  BY <1>1, <1>2 DEF Keeps
<1>4. m_mapTimstampToFileinfo \in [Keys -> Nat]
  BY <1>1 DEF StateOK
<1>5. Held(t)' = 0 /\ \A u \in Times \ {t} : Held(u)' = Held(u)
  BY <1>4, TimesAre DEF Held
<1>6. ASSUME NEW u \in Times PROVE m_mapTimstampToFileinfo'[<<0, u>>] = m_mapTimstampToFileinfo[<<0, u>>]
  <2>1. user_time(t) # <<0, u>> /\ <<0, u>> \in Keys
    BY TimesAre
  <2>. QED  BY <1>4, <2>1
<1>7. ASSUME NEW u \in Times PROVE MapOK(u)'
  <2>1. MapOK(u)
    BY DEF BaseInv
  <2>2. CASE u = t
    BY <1>5, <1>6, <2>1, <2>2 DEF MapOK
  <2>3. CASE u # t
    <3>1. Held(u) # 0 => Held(u) # o /\ Held(u) \in 1..Len(info)
      BY <2>1, <2>3 DEF MapOK
    <3>2. Held(u) # 0 => info'[Held(u)] = info[Held(u)]
      BY <3>1 DEF Changed
    <3>. QED  BY <1>1, <1>5, <1>6, <2>1, <2>3, <3>1, <3>2 DEF MapOK
  <2>. QED  BY <2>2, <2>3
<1>. QED  BY <1>1, <1>3, <1>5, <1>7 DEF SessionsOK

LEMMA SameClientKeeps == ASSUME BaseInv, SameClient PROVE PeersOK
<1>1. epoch \in Nat /\ epoch' = epoch
  BY DEF BaseInv, StateOK, SameClient
<1>2. epoch <= epoch'
  BY <1>1
<1>. QED  BY <1>2 DEF BaseInv, StateOK, SameClient, PeersOK, ClientOK

LEMMA HearsKeeps ==
  ASSUME BaseInv, NEW t \in Times, NEW c, Hears(t, c), c.phase # "none" => c.file \in Files
  PROVE  PeersOK
<1>1. epoch \in Nat /\ epoch' = epoch
  BY DEF BaseInv, StateOK, Hears
<1>2. epoch <= epoch'
  BY <1>1
<1>. QED  BY <1>2 DEF BaseInv, StateOK, Hears, PeersOK, ClientOK

LEMMA DropsKeeps == ASSUME BaseInv, Drops PROVE PeersOK
<1>1. epoch' \in Nat /\ epoch' = epoch + 1 /\ asked' \subseteq Requests /\ client' \in [Times -> Peer]
  BY DEF BaseInv, StateOK, Drops
<1>3. epoch <= epoch'
  BY <1>1 DEF BaseInv, StateOK
<1>2. \A u \in Times : ClientOK(u)'
  <2>. TAKE u \in Times
  <2>1. StateOK /\ ClientOK(u) /\ client'[u] = Dropped(u)
    BY DEF BaseInv, Drops
  <2>2. Dropped(u).phase # "none" => Dropped(u).file = client[u].file /\ client[u].phase # "none"
    BY <2>1, PhasedIs DEF Dropped, Phases, Active
  <2>. QED  BY <2>1, <2>2 DEF ClientOK
<1>. QED  BY <1>1, <1>2, <1>3 DEF PeersOK

LEMMA BaseIsKept ==
  ASSUME BaseInv, SessionsOK, PeersOK, NEW s \in Slots, RunsOK(s), NEW kinds, Worsens(kinds)
  PROVE  BaseInv'
<1>1. StateOK'
  BY DEF StateOK, SessionsOK, PeersOK, RunsOK, Turns, Worsens
<1>4. epoch \in Nat /\ epoch' \in Nat /\ epoch <= epoch'
  BY DEF BaseInv, StateOK, PeersOK
<1>2. \A t \in Times : MapOK(t)' /\ ClientOK(t)'
  BY DEF SessionsOK, PeersOK
<1>3. ASSUME NEW u \in Slots, run'[u] # Idle PROVE HandlerOK(u)'
  <2>1. CASE u = s
    BY <1>3, <2>1 DEF RunsOK
  <2>2. CASE u # s
    <3>1. run'[u] = run[u] /\ HandlerOK(u)
      BY <1>3, <2>2 DEF RunsOK, Turns, OthersRun, BaseInv
    <3>2. \A o \in 1..Len(info) : o \in 1..Len(info') /\ info'[o].time = info[o].time
      <4>1. Len(info) \in Nat /\ Len(info') \in Nat /\ Len(info) <= Len(info')
        BY <1>1, LensAre, LenProperties DEF BaseInv, StateOK, SessionsOK, Keeps
      <4>. QED  BY <4>1 DEF SessionsOK, Keeps
    <3>. QED  BY <3>1, <3>2 DEF HandlerOK
  <2>. QED  BY <2>1, <2>2
<1>5. ASSUME NEW u \in Slots, run'[u] # Idle PROVE run'[u].epoch <= epoch'
  <2>1. run'[u].epoch = epoch \/ (run[u] # Idle /\ run'[u].epoch = run[u].epoch)
    BY <1>5 DEF RunsOK, Connected, Turns, OthersRun
  <2>2. CASE run'[u].epoch = epoch
    BY <1>4, <2>2
  <2>3. CASE run[u] # Idle /\ run'[u].epoch = run[u].epoch
    <3>1. run[u].epoch \in Nat /\ run[u].epoch <= epoch
      BY <2>3, AHandlerRuns DEF BaseInv
    <3>. QED  BY <1>4, <2>3, <3>1
  <2>. QED  BY <2>1, <2>2, <2>3
<1>. QED  BY <1>1, <1>2, <1>3, <1>5 DEF BaseInv

LEMMA EndsOK == ASSUME NEW s \in Slots, Ends(s) PROVE RunsOK(s)
BY DEF Ends, RunsOK

LEMMA ObjectStays ==
  ASSUME BaseInv, SessionsOK, NEW s \in Slots, run[s] # Idle, run[s].obj # 0
  PROVE  run[s].obj \in 1..Len(info') /\ info'[run[s].obj].time = run[s].time
<1>1. run[s].obj \in 1..Len(info) /\ info[run[s].obj].time = run[s].time
  BY DEF BaseInv, HandlerOK
<1>2. Len(info) \in Nat /\ Len(info') \in Nat /\ Len(info) <= Len(info')
  BY LensAre, LenProperties DEF BaseInv, SessionsOK, Keeps
<1>. QED  BY <1>1, <1>2 DEF SessionsOK, Keeps

LEMMA GoesBackOK ==
  ASSUME BaseInv, NEW s \in Slots, run[s] # Idle, run[s].step \in WalkSteps \cup OpenSteps, GoesBack(s)
  PROVE  RunsOK(s)
<1>1. run[s].obj = 0
  BY DEF BaseInv, HandlerOK
<1>2. PICK frames : Inherits(s, frames) /\ BackTo(s, frames)
  BY DEF GoesBack
<1>3. CASE Ends(s)
  BY <1>3, EndsOK
<1>4. CASE ~Ends(s)
  <2>1. frames # <<>> /\ Turns(s) /\ run'[s].step = "next" /\ run'[s].frames = frames /\ run'[s].obj = 0
    BY <1>1, <1>2, <1>4 DEF BackTo
  <2>2. Connected(s)
    BY <1>2, <1>4 DEF BackTo, Connected
  <2>. QED  BY <2>1, <2>2 DEF RunsOK, HandlerOK, WalkSteps, OpenSteps, ReplySteps
<1>. QED  BY <1>3, <1>4

LEMMA MovesOK ==
  ASSUME BaseInv, NEW s \in Slots, run[s] # Idle, run[s].step \in WalkSteps, NEW t, Moves(s, t)
  PROVE  RunsOK(s)
<1>1. run[s].obj = 0
  BY DEF BaseInv, HandlerOK
<1>2. Turns(s) /\ run'[s].step = "find" /\ run'[s].frames # <<>> /\ run'[s].obj = 0
  BY <1>1 DEF Moves
<1>3. Connected(s)
  BY DEF Moves, Connected
<1>. QED  BY <1>2, <1>3 DEF RunsOK, HandlerOK, WalkSteps, OpenSteps, ReplySteps

LEMMA GoesOnOK ==
  ASSUME BaseInv, NEW s \in Slots, run[s] # Idle, NEW step \in AllSteps \ {"next", "find"}, GoesOn(s, step),
         run'[s].obj # 0 => run'[s].obj \in 1..Len(info') /\ info'[run'[s].obj].time = run[s].time,
         step \in {"first", "advance", "close", "seek"} => run'[s].obj # 0,
         step \in WalkSteps \cup OpenSteps => run'[s].obj = 0,
         step \in OpenSteps \cup ReplySteps => run[s].file \in Files,
         step = "downloadFolderByDir" => run[s].file \in Folders,
         step \in ReplySteps \cup {"block"} => run[s].frames = <<>>,
         step \in ReplySteps => run'[s].n \in Nat
  PROVE  RunsOK(s)
<1>1. Connected(s)
  BY DEF GoesOn, Connected
<1>. QED  BY <1>1 DEF RunsOK, GoesOn, HandlerOK

LEMMA SelectBase == ASSUME BaseInv, NEW s \in Slots, downloadFolderByDir_select(s) PROVE BaseInv'
<1>1. Runs(s, "downloadFolderByDir") /\ SameSessions /\ SameClient /\ GoesBack(s) /\ \E k : Worsens(k)
  BY SelectDoes
<1>2. RunsOK(s)
  BY <1>1, GoesBackOK DEF Runs, WalkSteps
<1>. QED  BY <1>1, <1>2, SameSessionsKeep, SameClientKeeps, BaseIsKept

LEMMA NextBase == ASSUME BaseInv, NEW s \in Slots, downloadFolderByDir_next(s) PROVE BaseInv'
<1>1. /\ Runs(s, "next") /\ SameSessions /\ SameClient /\ Worsens({})
      /\ GoesBack(s) \/ Moves(s, run[s].frames[1].time + 1)
  BY NextDoes
<1>2. RunsOK(s)
  BY <1>1, GoesBackOK, MovesOK DEF Runs, WalkSteps
<1>. QED  BY <1>1, <1>2, SameSessionsKeep, SameClientKeeps, BaseIsKept

LEMMA FreeBase == ASSUME BaseInv, NEW s \in Slots, downloadFolderByDir_find(s) PROVE BaseInv'
<1>1. /\ Runs(s, "find") /\ SameSessions /\ SameClient /\ Worsens({})
      /\ \/ Moves(s, run[s].time + 1)
         \/ GoesOn(s, "downloadFolderByDir") /\ SameRest(s) /\ run[s].file \in Folders
         \/ GoesOn(s, "downloadFile") /\ SameRest(s) /\ run[s].file \in Files
  BY FreeDoes
<1>2. run[s].obj = 0
  BY <1>1 DEF Runs, BaseInv, HandlerOK, WalkSteps
<1>3. ASSUME Moves(s, run[s].time + 1) PROVE RunsOK(s)
  BY <1>1, <1>3, MovesOK DEF Runs, WalkSteps
<1>4. ASSUME GoesOn(s, "downloadFolderByDir") /\ SameRest(s) /\ run[s].file \in Folders PROVE RunsOK(s)
  BY <1>1, <1>2, <1>4, GoesOnOK DEF Runs, SameRest, AllSteps, WalkSteps, OpenSteps, ReplySteps
<1>5. ASSUME GoesOn(s, "downloadFile") /\ SameRest(s) /\ run[s].file \in Files PROVE RunsOK(s)
  BY <1>1, <1>2, <1>5, GoesOnOK DEF Runs, SameRest, AllSteps, WalkSteps, OpenSteps, ReplySteps
<1>. QED  BY <1>1, <1>3, <1>4, <1>5, SameSessionsKeep, SameClientKeeps, BaseIsKept

LEMMA FileSelectBase == ASSUME BaseInv, NEW s \in Slots, downloadFile_select(s) PROVE BaseInv'
<1>1. Runs(s, "downloadFile") /\ SameClient /\ \E k : Worsens(k)
  BY FileSelectDoes
<1>2. run[s].obj = 0 /\ run[s].file \in Files /\ run[s].time \in Times
  BY <1>1, AHandlerRuns DEF Runs, BaseInv, HandlerOK, OpenSteps
<1>3. SessionsOK
  BY <1>2, FileSelectDoes, SameSessionsKeep
<1>4. GoesBack(s) \/ (GoesOn(s, "open") /\ SameRest(s))
  BY FileSelectDoes
<1>5. ASSUME GoesBack(s) PROVE RunsOK(s)
  BY <1>1, <1>5, GoesBackOK DEF Runs, OpenSteps
<1>6. ASSUME GoesOn(s, "open") /\ SameRest(s) PROVE RunsOK(s)
  BY <1>1, <1>2, <1>6, GoesOnOK DEF Runs, SameRest, AllSteps, WalkSteps, OpenSteps, ReplySteps
<1>. QED  BY <1>1, <1>3, <1>4, <1>5, <1>6, SameClientKeeps, BaseIsKept

LEMMA OpenBase == ASSUME BaseInv, NEW s \in Slots, downloadFile_open(s) PROVE BaseInv'
<1>1. Runs(s, "open") /\ SameClient /\ \E k : Worsens(k)
  BY OpenDoes
<1>2. run[s].obj = 0 /\ run[s].file \in Files /\ run[s].time \in Times
  BY <1>1, AHandlerRuns DEF Runs, BaseInv, HandlerOK, OpenSteps
<1>3. SessionsOK
  BY <1>2, OpenDoes, SameSessionsKeep, OpenedKeeps
<1>4. GoesBack(s) \/ (GoesOn(s, "IsExist") /\ SameRest(s))
  BY OpenDoes
<1>5. ASSUME GoesBack(s) PROVE RunsOK(s)
  BY <1>1, <1>5, GoesBackOK DEF Runs, OpenSteps
<1>6. ASSUME GoesOn(s, "IsExist") /\ SameRest(s) PROVE RunsOK(s)
  BY <1>1, <1>2, <1>6, GoesOnOK DEF Runs, SameRest, AllSteps, WalkSteps, OpenSteps, ReplySteps
<1>. QED  BY <1>1, <1>3, <1>4, <1>5, <1>6, SameClientKeeps, BaseIsKept

LEMMA IsExistBase == ASSUME BaseInv, NEW s \in Slots, downloadFile_IsExist(s) PROVE BaseInv'
<1>1. Runs(s, "IsExist") /\ SameClient /\ \E k : Worsens(k)
  BY IsExistDoes
<1>2. run[s].obj = 0 /\ run[s].file \in Files /\ run[s].time \in Times
  BY <1>1, AHandlerRuns DEF Runs, BaseInv, HandlerOK, OpenSteps
<1>3. SessionsOK
  BY <1>2, IsExistDoes, SameSessionsKeep
<1>4. GoesBack(s) \/ (GoesOn(s, "header") /\ SameRest(s))
  BY IsExistDoes
<1>5. ASSUME GoesBack(s) PROVE RunsOK(s)
  BY <1>1, <1>5, GoesBackOK DEF Runs, OpenSteps
<1>6. ASSUME GoesOn(s, "header") /\ SameRest(s) PROVE RunsOK(s)
  BY <1>1, <1>2, <1>6, GoesOnOK DEF Runs, SameRest, AllSteps, WalkSteps, OpenSteps, ReplySteps
<1>. QED  BY <1>1, <1>3, <1>4, <1>5, <1>6, SameClientKeeps, BaseIsKept

LEMMA HeaderBase == ASSUME BaseInv, NEW s \in Slots, SendHeader(s) PROVE BaseInv'
<1>1. Runs(s, "header") /\ SameSessions /\ Worsens({}) /\ GoesBack(s)
  BY HeaderDoes
<1>2. RunsOK(s)
  BY <1>1, GoesBackOK DEF Runs, OpenSteps
<1>3. run[s].time \in Times
  BY <1>1, AHandlerRuns DEF Runs, BaseInv
<1>4. PeersOK
  <2>1. CASE Hears(run[s].time, Transfer(run[s].file)) /\ run[s].file \in Files
    BY <1>3, <2>1, HearsKeeps DEF Transfer
  <2>2. CASE SameClient
    BY <2>2, SameClientKeeps
  <2>. QED  BY <2>1, <2>2, HeaderDoes
<1>. QED  BY <1>1, <1>2, <1>4, SameSessionsKeep, BaseIsKept

LEMMA FindHeaderBase == ASSUME BaseInv, NEW s \in Slots, downloadFileHeadRs_find(s) PROVE BaseInv'
<1>1. /\ Runs(s, "downloadFileHeadRs") /\ SameSessions /\ SameClient /\ Worsens({})
      /\ \/ Held(run[s].time) = 0 /\ Ends(s)
         \/ /\ GoesOn(s, "first") /\ Held(run[s].time) \in 1..Len(info) /\ run'[s].obj = Held(run[s].time)
              /\ info[Held(run[s].time)].time = run[s].time
              /\ run'[s].bytes = run[s].bytes /\ run'[s].n = run[s].n
  BY FindDoes DEF downloadFileHeadRs_find
<1>2. run[s].file \in Files /\ run[s].frames = <<>> /\ run[s].n \in Nat
  BY <1>1 DEF Runs, BaseInv, HandlerOK, ReplySteps
<1>3. ASSUME Ends(s) PROVE RunsOK(s)
  BY <1>3, EndsOK
<1>4. ASSUME /\ GoesOn(s, "first") /\ Held(run[s].time) \in 1..Len(info) /\ run'[s].obj = Held(run[s].time)
             /\ info[Held(run[s].time)].time = run[s].time
             /\ run'[s].bytes = run[s].bytes /\ run'[s].n = run[s].n
      PROVE  RunsOK(s)
  <2>1. run'[s].obj # 0 /\ run'[s].obj \in 1..Len(info') /\ info'[run'[s].obj].time = run[s].time
    BY <1>1, <1>4 DEF SameSessions
  <2>2. run'[s].n \in Nat /\ run[s] # Idle
    BY <1>1, <1>2, <1>4 DEF Runs
  <2>. QED  BY <1>2, <1>4, <2>1, <2>2, GoesOnOK DEF AllSteps, WalkSteps, OpenSteps, ReplySteps
<1>. QED  BY <1>1, <1>3, <1>4, SameSessionsKeep, SameClientKeeps, BaseIsKept

LEMMA FindContentBase == ASSUME BaseInv, NEW s \in Slots, fileContentRs_find(s) PROVE BaseInv'
<1>1. /\ Runs(s, "fileContentRs") /\ SameSessions /\ SameClient /\ Worsens({})
      /\ \/ Held(run[s].time) = 0 /\ Ends(s)
         \/ /\ GoesOn(s, "advance") /\ Held(run[s].time) \in 1..Len(info) /\ run'[s].obj = Held(run[s].time)
              /\ info[Held(run[s].time)].time = run[s].time
              /\ run'[s].bytes = run[s].bytes /\ run'[s].n = run[s].n
  BY FindDoes DEF fileContentRs_find
<1>2. run[s].file \in Files /\ run[s].frames = <<>> /\ run[s].n \in Nat
  BY <1>1 DEF Runs, BaseInv, HandlerOK, ReplySteps
<1>3. ASSUME Ends(s) PROVE RunsOK(s)
  BY <1>3, EndsOK
<1>4. ASSUME /\ GoesOn(s, "advance") /\ Held(run[s].time) \in 1..Len(info) /\ run'[s].obj = Held(run[s].time)
             /\ info[Held(run[s].time)].time = run[s].time
             /\ run'[s].bytes = run[s].bytes /\ run'[s].n = run[s].n
      PROVE  RunsOK(s)
  <2>1. run'[s].obj # 0 /\ run'[s].obj \in 1..Len(info') /\ info'[run'[s].obj].time = run[s].time
    BY <1>1, <1>4 DEF SameSessions
  <2>2. run'[s].n \in Nat /\ run[s] # Idle
    BY <1>1, <1>2, <1>4 DEF Runs
  <2>. QED  BY <1>2, <1>4, <2>1, <2>2, GoesOnOK DEF AllSteps, WalkSteps, OpenSteps, ReplySteps
<1>. QED  BY <1>1, <1>3, <1>4, SameSessionsKeep, SameClientKeeps, BaseIsKept

LEMMA FirstReadBase == ASSUME BaseInv, NEW s \in Slots, downloadFileHeadRs_read(s) PROVE BaseInv'
<1>. PICK o, f, off : o = run[s].obj /\ f = info[o].file /\ off = info[o].off
  OBVIOUS
<1>1. /\ Runs(s, "first") /\ SameClient /\ UNCHANGED m_mapTimstampToFileinfo /\ \E k : Worsens(k)
      /\ (Changed(o) /\ info'[o].alive = info[o].alive /\ GoesOn(s, "block") /\ run'[s].obj = o) \/ (Ends(s) /\ UNCHANGED info)
  BY FirstReadDoes DEF Fails
<1>2. run[s].frames = <<>> /\ o \in 1..Len(info)
  BY <1>1, HasObject DEF Runs, BaseInv, HandlerOK, ReplySteps
<1>3. CASE Ends(s) /\ UNCHANGED info
  BY <1>1, <1>3, EndsOK, SameSessionsKeep, SameClientKeeps, BaseIsKept DEF SameSessions
<1>4. CASE Changed(o) /\ info'[o].alive = info[o].alive /\ GoesOn(s, "block") /\ run'[s].obj = o
  <2>1. SessionsOK
    BY <1>1, <1>2, <1>4, ChangedKeeps
  <2>2. run'[s].obj # 0 => run'[s].obj \in 1..Len(info') /\ info'[run'[s].obj].time = run[s].time
    BY <1>1, <1>4, <2>1, ObjectStays DEF Runs
  <2>3. RunsOK(s)
    BY <1>1, <1>2, <1>4, <2>2, GoesOnOK DEF Runs, AllSteps, WalkSteps, OpenSteps, ReplySteps
  <2>. QED  BY <1>1, <2>1, <2>3, SameClientKeeps, BaseIsKept
<1>. QED  BY <1>1, <1>3, <1>4

LEMMA RefusedBase == ASSUME BaseInv, NEW s \in Slots, fileContentRs_refused(s) PROVE BaseInv'
<1>. PICK o : o = run[s].obj
  OBVIOUS
<1>1. /\ Runs(s, "advance") /\ SameClient /\ UNCHANGED m_mapTimstampToFileinfo /\ Worsens({})
      /\ Changed(o) /\ info'[o].alive = info[o].alive /\ GoesOn(s, "block") /\ run'[s].obj = o
  BY RefusedDoes
<1>2. run[s].frames = <<>> /\ o \in 1..Len(info)
  BY <1>1, HasObject DEF Runs, BaseInv, HandlerOK, ReplySteps
<1>3. SessionsOK
  BY <1>1, <1>2, ChangedKeeps
<1>4. run'[s].obj # 0 => run'[s].obj \in 1..Len(info') /\ info'[run'[s].obj].time = run[s].time
  BY <1>1, <1>3, ObjectStays DEF Runs
<1>5. RunsOK(s)
  BY <1>1, <1>2, <1>4, GoesOnOK DEF Runs, AllSteps, WalkSteps, OpenSteps, ReplySteps
<1>. QED  BY <1>1, <1>3, <1>5, SameClientKeeps, BaseIsKept

LEMMA ContentReadBase == ASSUME BaseInv, NEW s \in Slots, fileContentRs_read(s) PROVE BaseInv'
<1>. PICK o, f, off : o = run[s].obj /\ f = info[o].file /\ off = info[o].off
  OBVIOUS
<1>1. /\ Runs(s, "advance") /\ SameClient /\ UNCHANGED m_mapTimstampToFileinfo /\ \E k : Worsens(k)
      /\ Changed(o) /\ info'[o].alive = info[o].alive /\ run'[s].obj = o
      /\ (GoesOn(s, "close") /\ run'[s].n \in Nat) \/ GoesOn(s, "block")
  BY ContentReadDoes DEF Fails
<1>2. run[s].frames = <<>> /\ run[s].file \in Files /\ o \in 1..Len(info)
  BY <1>1, HasObject DEF Runs, BaseInv, HandlerOK, ReplySteps
<1>3. SessionsOK
  BY <1>1, <1>2, ChangedKeeps
<1>4. run'[s].obj # 0 /\ run'[s].obj \in 1..Len(info') /\ info'[run'[s].obj].time = run[s].time
  BY <1>1, <1>2, <1>3, ObjectStays DEF Runs
<1>5. CASE GoesOn(s, "close") /\ run'[s].n \in Nat
  <2>1. RunsOK(s)
    BY <1>1, <1>2, <1>4, <1>5, GoesOnOK DEF Runs, AllSteps, WalkSteps, OpenSteps, ReplySteps
  <2>. QED  BY <1>1, <1>3, <2>1, SameClientKeeps, BaseIsKept
<1>6. CASE GoesOn(s, "block")
  <2>1. RunsOK(s)
    BY <1>1, <1>2, <1>4, <1>6, GoesOnOK DEF Runs, AllSteps, WalkSteps, OpenSteps, ReplySteps
  <2>. QED  BY <1>1, <1>3, <2>1, SameClientKeeps, BaseIsKept
<1>. QED  BY <1>1, <1>5, <1>6

LEMMA CloseBase == ASSUME BaseInv, NEW s \in Slots, fileContentRs_close(s) PROVE BaseInv'
<1>. PICK o, t : o = run[s].obj /\ t = run[s].time
  OBVIOUS
<1>1. /\ Runs(s, "close") /\ SameClient /\ Worsens({}) /\ Ends(s) /\ Changed(o)
      /\ m_mapTimstampToFileinfo' = [m_mapTimstampToFileinfo EXCEPT ![user_time(t)] = 0]
      /\ m_mapTimstampToFileinfo' \in [Keys -> Nat]
  BY CloseDoes
<1>2. o \in 1..Len(info) /\ info[o].time = t /\ t \in Times
  BY <1>1, HasObject, AHandlerRuns DEF Runs, BaseInv
<1>3. SessionsOK
  BY <1>1, <1>2, ClosedKeeps
<1>. QED  BY <1>1, <1>3, EndsOK, SameClientKeeps, BaseIsKept

LEMMA ContFindBase == ASSUME BaseInv, NEW s \in Slots, continueDownload_find(s) PROVE BaseInv'
<1>1. /\ Runs(s, "continueDownload") /\ SameSessions /\ SameClient /\ Worsens({})
      /\ GoesOn(s, "reopen") /\ run'[s].obj = 0 /\ run'[s].n = run[s].n
  BY ContFindDoes
<1>2. run[s].file \in Files /\ run[s].frames = <<>> /\ run[s].n \in Nat
  BY <1>1 DEF Runs, BaseInv, HandlerOK, ReplySteps
<1>3. RunsOK(s)
  BY <1>1, <1>2, GoesOnOK DEF Runs, AllSteps, WalkSteps, OpenSteps, ReplySteps
<1>. QED  BY <1>1, <1>3, SameSessionsKeep, SameClientKeeps, BaseIsKept

LEMMA ContOpenBase == ASSUME BaseInv, NEW s \in Slots, continueDownload_open(s) PROVE BaseInv'
<1>1. Runs(s, "reopen") /\ SameClient
  BY ContOpenDoes
<1>2. run[s].file \in Files /\ run[s].frames = <<>> /\ run[s].n \in Nat /\ run[s].time \in Times
  BY <1>1, AHandlerRuns DEF Runs, BaseInv, HandlerOK, ReplySteps
<1>3. CASE Worsens({"call"}) /\ Ends(s) /\ SameSessions
  BY <1>1, <1>3, EndsOK, SameSessionsKeep, SameClientKeeps, BaseIsKept
<1>4. CASE /\ Worsens({}) /\ Opened(run[s].time, run[s].file, run[s].n)
           /\ GoesOn(s, "seek") /\ run'[s].obj = Len(info) + 1 /\ run'[s].n = run[s].n
  <2>1. SessionsOK /\ Len(info) + 1 \in 1..Len(info') /\ info'[Len(info) + 1].time = run[s].time
    BY <1>2, <1>4, OpenedKeeps
  <2>2. run'[s].obj # 0 /\ run'[s].obj \in 1..Len(info') /\ info'[run'[s].obj].time = run[s].time
    <3>1. Len(info) + 1 # 0
      BY <2>1
    <3>. QED  BY <1>4, <2>1, <3>1
  <2>3. RunsOK(s)
    BY <1>1, <1>2, <1>4, <2>2, GoesOnOK DEF Runs, AllSteps, WalkSteps, OpenSteps, ReplySteps
  <2>. QED  BY <1>1, <1>4, <2>1, <2>3, SameClientKeeps, BaseIsKept
<1>. QED  BY <1>3, <1>4, ContOpenDoes

LEMMA ContReadBase == ASSUME BaseInv, NEW s \in Slots, continueDownload_read(s) PROVE BaseInv'
<1>. PICK o, f, n : o = run[s].obj /\ f = info[o].file /\ n = run[s].n
  OBVIOUS
<1>1. /\ Runs(s, "seek") /\ SameClient /\ UNCHANGED m_mapTimstampToFileinfo /\ \E k : Worsens(k)
      /\ Changed(o) /\ info'[o].alive = info[o].alive
      /\ Ends(s) \/ (GoesOn(s, "block") /\ run'[s].obj = o)
  BY ContReadDoes DEF Fails
<1>2. run[s].frames = <<>> /\ o \in 1..Len(info)
  BY <1>1, HasObject DEF Runs, BaseInv, HandlerOK, ReplySteps
<1>3. SessionsOK
  BY <1>1, <1>2, ChangedKeeps
<1>4. CASE Ends(s)
  BY <1>1, <1>3, <1>4, EndsOK, SameClientKeeps, BaseIsKept
<1>5. CASE GoesOn(s, "block") /\ run'[s].obj = o
  <2>1. run'[s].obj # 0 => run'[s].obj \in 1..Len(info') /\ info'[run'[s].obj].time = run[s].time
    BY <1>1, <1>3, <1>5, ObjectStays DEF Runs
  <2>2. RunsOK(s)
    BY <1>1, <1>2, <1>5, <2>1, GoesOnOK DEF Runs, AllSteps, WalkSteps, OpenSteps, ReplySteps
  <2>. QED  BY <1>1, <1>3, <2>2, SameClientKeeps, BaseIsKept
<1>. QED  BY <1>1, <1>4, <1>5

LEMMA BlockBase == ASSUME BaseInv, NEW s \in Slots, SendBlock(s) PROVE BaseInv'
<1>1. Runs(s, "block") /\ SameSessions /\ Worsens({}) /\ Ends(s)
  BY BlockDoes
<1>2. run[s].time \in Times
  BY <1>1, AHandlerRuns DEF Runs, BaseInv
<1>3. PeersOK
  <2>1. CASE Hears(run[s].time, Stored(client[run[s].time], run[s]))
    <3>1. StateOK /\ ClientOK(run[s].time) /\ client[run[s].time] \in Peer
      BY <1>2, PeerIsThere DEF BaseInv
    <3>2. Stored(client[run[s].time], run[s]).phase # "none" => Stored(client[run[s].time], run[s]).file \in Files
      BY <3>1 DEF Stored, ClientOK, Peer
    <3>. QED  BY <1>2, <2>1, <3>2, HearsKeeps
  <2>2. CASE SameClient
    BY <2>2, SameClientKeeps
  <2>. QED  BY <2>1, <2>2, BlockDoes
<1>. QED  BY <1>1, <1>3, EndsOK, SameSessionsKeep, BaseIsKept

LEMMA LostBase == ASSUME BaseInv, NEW s \in Slots, lost(s) PROVE BaseInv'
<1>1. SameSessions /\ SameClient /\ Worsens({}) /\ Ends(s)
  BY LostDoes
<1>. QED  BY <1>1, EndsOK, SameSessionsKeep, SameClientKeeps, BaseIsKept

LEMMA BeginsBase ==
  ASSUME BaseInv, SameSessions, PeersOK, NEW kinds, Worsens(kinds),
         NEW step, NEW t, NEW f, NEW n, NEW result, Begins(step, t, f, n, result),
         \/ step = "downloadFolderByDir" /\ f \in Folders
         \/ step \in {"downloadFile", "downloadFileHeadRs", "fileContentRs", "continueDownload"} /\ f \in Files,
         n \in Nat
  PROVE  BaseInv'
<1>1. PICK s \in Slots : Starts(s, step, t, f, n, result)
  BY DEF Begins
<1>2. Turns(s)
  BY <1>1 DEF Starts
<1>3. HandlerOK(s)'
  <2>. PICK h : h = run'[s]
    OBVIOUS
  <2>1. h.step = step /\ h.file = f /\ h.frames = <<>> /\ h.obj = 0 /\ h.n = n
    BY <1>1 DEF Starts
  <2>2. /\ step \notin {"first", "advance", "close", "seek", "next", "find"}
        /\ step \in OpenSteps \cup ReplySteps => f \in Files
        /\ step = "downloadFolderByDir" => f \in Folders
    BY DEF OpenSteps, ReplySteps
  <2>. QED  BY <2>1, <2>2 DEF HandlerOK
<1>4. Connected(s)
  BY <1>1 DEF Starts, Connected
<1>. QED  BY <1>2, <1>3, <1>4, SameSessionsKeep, BaseIsKept DEF RunsOK

LEMMA RequestBase == ASSUME BaseInv, NEW r \in Requests, sendRequest(r) PROVE BaseInv'
<1>1. /\ asked' = asked \cup {r} /\ SameSessions /\ UNCHANGED <<epoch, client>> /\ Worsens({})
      /\ \/ r[2] \in Folders /\ Begins("downloadFolderByDir", r[1], r[2], 0, TRUE)
         \/ r[2] \in Files /\ Begins("downloadFile", r[1], r[2], 0, TRUE)
  BY RequestDoes
<1>4. epoch \in Nat /\ epoch' = epoch
  BY <1>1 DEF BaseInv, StateOK
<1>5. epoch <= epoch'
  BY <1>4
<1>2. PeersOK
  BY <1>1, <1>5 DEF BaseInv, StateOK, PeersOK, ClientOK
<1>3. 0 \in Nat
  OBVIOUS
<1>. QED  BY <1>1, <1>2, <1>3, BeginsBase

LEMMA HeaderRsBase == ASSUME BaseInv, NEW t \in Times, sendHeaderRs(t) PROVE BaseInv'
<1>1. /\ client[t].file \in Files /\ SameSessions /\ Worsens({}) /\ Hears(t, Phased(t, "waiting"))
      /\ Begins("downloadFileHeadRs", t, client[t].file, 0, TRUE)
  BY HeaderRsDoes
<1>2. Phased(t, "waiting").file = client[t].file
  BY PhasedIs DEF BaseInv, Phases
<1>3. 0 \in Nat /\ PeersOK
  BY <1>1, <1>2, HearsKeeps
<1>. QED  BY <1>1, <1>3, BeginsBase

LEMMA ContentRsBase == ASSUME BaseInv, NEW t \in Times, sendContentRs(t) PROVE BaseInv'
<1>. PICK phase \in Phases : phase = IF Has(client[t]) THEN "done" ELSE "waiting"
  BY DEF Phases
<1>1. /\ client[t].file \in Files /\ client[t].n \in Nat /\ SameSessions /\ Worsens({}) /\ Hears(t, Phased(t, phase))
      /\ Begins("fileContentRs", t, client[t].file, client[t].n, TRUE)
  BY ContentRsDoes
<1>2. Phased(t, phase).file = client[t].file
  BY PhasedIs DEF BaseInv
<1>3. PeersOK
  BY <1>1, <1>2, HearsKeeps
<1>. QED  BY <1>1, <1>3, BeginsBase

LEMMA RefuseBase == ASSUME BaseInv, NEW t \in Times, refuse(t) PROVE BaseInv'
<1>1. /\ client[t].file \in Files /\ client[t].n \in Nat /\ SameSessions /\ Worsens({"refuse"})
      /\ Hears(t, Without(t, client[t].n)) /\ Begins("fileContentRs", t, client[t].file, client[t].n, FALSE)
  BY RefuseDoes
<1>2. Without(t, client[t].n).file = client[t].file
  BY PeerIsThere DEF BaseInv, Without, Peer
<1>3. PeersOK
  BY <1>1, <1>2, HearsKeeps
<1>. QED  BY <1>1, <1>3, BeginsBase

LEMMA ContinueBase == ASSUME BaseInv, NEW t \in Times, sendContinue(t) PROVE BaseInv'
<1>1. /\ client[t].file \in Files /\ Got(t) \in Nat /\ SameSessions /\ Hears(t, Phased(t, "waiting"))
      /\ Begins("continueDownload", t, client[t].file, Got(t), TRUE)
      /\ Worsens({"overtaken"}) \/ Worsens({})
  BY ContinueDoes
<1>2. Phased(t, "waiting").file = client[t].file
  BY PhasedIs DEF BaseInv, Phases
<1>3. PeersOK
  BY <1>1, <1>2, HearsKeeps
<1>. QED  BY <1>1, <1>3, BeginsBase

LEMMA DisconnectBase == ASSUME BaseInv, disconnect PROVE BaseInv'
<1>1. SameSessions /\ UNCHANGED run /\ Worsens({"reconnect"}) /\ PeersOK /\ SessionsOK
  BY DisconnectDoes, DropsKeeps, SameSessionsKeep
<1>2. StateOK'
  BY <1>1 DEF BaseInv, StateOK, SessionsOK, PeersOK, Worsens
<1>3. \A s \in Slots : run'[s] # Idle => HandlerOK(s)'
  BY <1>1 DEF BaseInv, HandlerOK, SameSessions
<1>4. ASSUME NEW s \in Slots, run'[s] # Idle PROVE run'[s].epoch <= epoch'
  <2>1. run'[s] = run[s] /\ run[s].epoch \in Nat /\ run[s].epoch <= epoch
    BY <1>1, <1>4, AHandlerRuns DEF BaseInv
  <2>2. epoch \in Nat /\ epoch' \in Nat /\ epoch <= epoch'
    BY <1>1 DEF PeersOK, BaseInv, StateOK
  <2>. QED  BY <2>1, <2>2
<1>. QED  BY <1>1, <1>2, <1>3, <1>4 DEF BaseInv, SessionsOK, PeersOK

LEMMA CrashBase == ASSUME BaseInv, crash PROVE BaseInv'
<1>1. /\ Worsens({"crash"}) /\ PeersOK /\ info' = <<>> /\ run' = [s \in Slots |-> Idle]
      /\ m_mapTimstampToFileinfo' = [key \in Keys |-> 0]
  BY CrashDoes, DropsKeeps
<1>2. StateOK'
  BY <1>1 DEF StateOK, PeersOK, Worsens
<1>3. ASSUME NEW t \in Times PROVE MapOK(t)'
  <2>1. user_time(t) \in Keys /\ <<0, t>> \in Keys
    BY TimesAre
  <2>. QED  BY <1>1, <2>1 DEF MapOK, Held
<1>. QED  BY <1>1, <1>2, <1>3 DEF BaseInv, PeersOK

LEMMA BaseInit == ASSUME Init PROVE BaseInv
<1>1. StateOK
  <2>1. faults \in [left : Nat, seen : SUBSET (AllFaults \cup {"overtaken"})]
    BY DownloadAssumption DEF Init
  <2>2. client \in [Times -> Peer]
    <3>1. [file |-> "none", got |-> <<>>, phase |-> "none", n |-> 0] \in Peer
      BY DEF Peer, Phases
    <3>. QED  BY <3>1 DEF Init
  <2>. QED  BY <2>1, <2>2 DEF Init, StateOK
<1>2. ASSUME NEW t \in Times PROVE MapOK(t) /\ ClientOK(t)
  <2>1. user_time(t) \in Keys /\ <<0, t>> \in Keys
    BY TimesAre
  <2>. QED  BY <2>1 DEF Init, MapOK, ClientOK, Held
<1>. QED  BY <1>1, <1>2 DEF Init, BaseInv

LEMMA BaseStutter == ASSUME BaseInv, UNCHANGED vars PROVE BaseInv'
<1>1. UNCHANGED <<m_mapTimstampToFileinfo, info, run, epoch, asked, client, faults>>
  BY DEF vars, memory, user
<1>2. StateOK' /\ SessionsOK /\ PeersOK
  BY <1>1, SameSessionsKeep, SameClientKeeps DEF SameSessions, SameClient, BaseInv, StateOK
<1>3. \A s \in Slots : run'[s] # Idle => HandlerOK(s)' /\ run'[s].epoch <= epoch'
  BY <1>1 DEF BaseInv, HandlerOK
<1>. QED  BY <1>2, <1>3 DEF BaseInv, SessionsOK, PeersOK

(* Every step, as the actions it may be.                                    *)
LEMMA Steps ==
  ASSUME [Next]_vars
  PROVE  \/ \E s \in Slots : \/ downloadFolderByDir_select(s) \/ downloadFolderByDir_next(s) \/ downloadFolderByDir_find(s)
                             \/ downloadFile_select(s) \/ downloadFile_open(s) \/ downloadFile_IsExist(s) \/ SendHeader(s)
                             \/ downloadFileHeadRs_find(s) \/ downloadFileHeadRs_read(s)
                             \/ fileContentRs_find(s) \/ fileContentRs_refused(s) \/ fileContentRs_read(s)
                             \/ fileContentRs_close(s)
                             \/ continueDownload_find(s) \/ continueDownload_open(s) \/ continueDownload_read(s)
                             \/ SendBlock(s) \/ lost(s)
         \/ \E t \in Times : sendHeaderRs(t) \/ sendContentRs(t) \/ sendContinue(t) \/ refuse(t)
         \/ \E r \in Requests : sendRequest(r)
         \/ disconnect \/ crash \/ UNCHANGED vars
BY DEF Next, Handler, Client, downloadFolderByDir, downloadFile, downloadFileHeadRs, fileContentRs, continueDownload

LEMMA BaseStep == ASSUME BaseInv, [Next]_vars PROVE BaseInv'
BY Steps, SelectBase, NextBase, FreeBase, FileSelectBase, OpenBase, IsExistBase, HeaderBase, FindHeaderBase,
   FirstReadBase, FindContentBase, RefusedBase, ContentReadBase, CloseBase, ContFindBase, ContOpenBase, ContReadBase,
   BlockBase, LostBase, HeaderRsBase, ContentRsBase, ContinueBase, RefuseBase, RequestBase, DisconnectBase, CrashBase,
   BaseStutter

-----------------------------------------------------------------------------
(* OwnerInv.                                                                *)
LEMMA OneFolder ==
  ASSUME Apart, NEW q \in Requests, NEW r \in Requests, q[2] \in Folders, r[2] \in Folders
  PROVE  q = r
<1>1. q[1] \in Times /\ r[1] \in Times
  BY DownloadAssumption
<1>2. LastTime \in Times /\ q[1] <= LastTime /\ r[1] <= LastTime
  BY <1>1, TimesAre
<1>. QED  BY <1>2 DEF Apart, Own

OwnSessions(s) == \A u \in Times : Held(u)' # 0 => Held(u) # 0 \/ (run[s] # Idle /\ u = run[s].time)
OwnPeers(s) ==
  \A u \in Times : client'[u].phase # "none" => client[u].phase # "none" \/ (run[s] # Idle /\ u = run[s].time)
OwnWork(s) ==
  Works(s)' => Works(s) /\ \A r \in Requests : Own(r, run'[s].time) => Own(r, run[s].time)

LEMMA StartedStays ==
  ASSUME asked \subseteq asked', NEW t
  PROVE  (Started(t) => Started(t)') /\ (FolderStarted(t) => FolderStarted(t)')
BY DEF Started, FolderStarted

LEMMA OwnerIsKept ==
  ASSUME BaseInv, OwnerInv, NEW s \in Slots, asked \subseteq asked', Turns(s), OwnSessions(s), OwnPeers(s), OwnWork(s),
         run'[s] # Idle => HandlerOwns(s)'
  PROVE  OwnerInv'
<1>1. ASSUME NEW t \in Times, Held(t)' # 0 \/ client'[t].phase # "none" PROVE Started(t)'
  <2>1. Started(t)
    <3>1. CASE run[s] # Idle /\ t = run[s].time
      BY <3>1 DEF OwnerInv, HandlerOwns
    <3>2. CASE Held(t) # 0 \/ client[t].phase # "none"
      BY <3>2 DEF OwnerInv
    <3>. QED  BY <1>1, <3>1, <3>2 DEF OwnSessions, OwnPeers
  <2>. QED  BY <2>1, StartedStays
<1>2. ASSUME NEW u \in Slots, run'[u] # Idle PROVE HandlerOwns(u)'
  <2>1. CASE u = s
    BY <1>2, <2>1
  <2>2. CASE u # s
    <3>1. run'[u] = run[u] /\ HandlerOwns(u)
      BY <1>2, <2>2 DEF OwnerInv, Turns, OthersRun
    <3>2. Started(run[u].time)' /\ (Walks(u) => FolderStarted(run[u].time)')
          /\ \A i \in 1..Len(run[u].frames) : FolderStarted(run[u].frames[i].time)'
      BY <3>1 DEF HandlerOwns, Started, FolderStarted
    <3>. QED  BY <3>1, <3>2 DEF HandlerOwns, Walks, Works, Started, FolderStarted
  <2>. QED  BY <2>1, <2>2
<1>3. ASSUME NEW u \in Slots, NEW v \in Slots, NEW r \in Requests,
             Works(u)', Works(v)', Own(r, run'[u].time), Own(r, run'[v].time)
      PROVE  u = v
  <2>1. \A w \in Slots \ {s} : Works(w)' = Works(w) /\ run'[w] = run[w]
    BY DEF Turns, OthersRun, Works
  <2>2. Works(u) /\ Works(v) /\ Own(r, run[u].time) /\ Own(r, run[v].time)
    BY <1>3, <2>1 DEF OwnWork
  <2>. QED  BY <2>2 DEF OwnerInv
<1>. QED  BY <1>1, <1>2, <1>3 DEF OwnerInv

LEMMA EndsOwns == ASSUME NEW s \in Slots, Ends(s) PROVE Turns(s) /\ OwnWork(s) /\ run'[s] = Idle
BY DEF Ends, OwnWork, Works

LEMMA GoesBackOwns ==
  ASSUME BaseInv, OwnerInv, NEW s \in Slots, Works(s), GoesBack(s), asked \subseteq asked'
  PROVE  Turns(s) /\ OwnWork(s) /\ (run'[s] # Idle => HandlerOwns(s)')
<1>. PICK frames : Inherits(s, frames) /\ BackTo(s, frames)
  BY DEF GoesBack
<1>1. CASE Ends(s)
  BY <1>1, EndsOwns
<1>2. CASE ~Ends(s)
  <2>1. frames # <<>> /\ Turns(s) /\ run'[s].step = "next" /\ run'[s].frames = frames /\ run'[s].time = run[s].time
    BY <1>2 DEF BackTo
  <2>2. HandlerOwns(s)
    BY DEF OwnerInv, Works
  <2>3. Len(frames) \in Nat \ {0} /\ frames \in Seq(Frame)
    BY <2>1, LenProperties, EmptySeq DEF Inherits
  <2>4. Walks(s)
    <3>1. 1 \in 1..Len(frames)
      BY <2>3
    <3>2. run[s].step \in WalkSteps \/ \E j \in 1..Len(run[s].frames) : TRUE
      BY <3>1 DEF Inherits
    <3>3. run[s].frames = <<>> => Len(run[s].frames) = 0
      OBVIOUS
    <3>. QED  BY <3>2, <3>3 DEF Walks
  <2>5. FolderStarted(run[s].time) /\ Started(run[s].time)
    BY <2>2, <2>4 DEF HandlerOwns
  <2>6. \A i \in 1..Len(frames) : FolderStarted(frames[i].time)
    BY <2>2, <2>5 DEF HandlerOwns, Inherits
  <2>7. HandlerOwns(s)'
    <3>. PICK t : t = run[s].time
      OBVIOUS
    <3>1. FolderStarted(t)' /\ Started(t)'
      BY <2>5, StartedStays
    <3>2. \A i \in 1..Len(frames) : FolderStarted(frames[i].time)'
      BY <2>6, StartedStays
    <3>. QED  BY <2>1, <3>1, <3>2 DEF HandlerOwns, Started, FolderStarted
  <2>8. OwnWork(s)
    BY <2>1 DEF OwnWork
  <2>. QED  BY <2>1, <2>7, <2>8
<1>. QED  BY <1>1, <1>2

LEMMA FolderGoesOn ==
  ASSUME StateOK, NEW t \in Times, NEW u \in Times, t <= u, FolderStarted(t)
  PROVE  FolderStarted(u) /\ Started(u)
<1>1. PICK r \in asked : r[2] \in Folders /\ r[1] <= t
  BY DEF FolderStarted
<1>. PICK a \in Times : a = r[1]
  BY DownloadAssumption DEF StateOK
<1>2. a \in Nat /\ t \in Nat /\ u \in Nat /\ a <= t
  BY <1>1, TimesAre
<1>3. r[1] <= u
  BY <1>2
<1>. QED  BY <1>1, <1>3 DEF FolderStarted, Started, Own

LEMMA MovesOwns ==
  ASSUME BaseInv, OwnerInv, Apart, NEW s \in Slots, run[s] # Idle, run[s].step \in WalkSteps, NEW t \in Times, Moves(s, t),
         FolderStarted(t), asked' = asked
  PROVE  Turns(s) /\ OwnWork(s) /\ (run'[s] # Idle => HandlerOwns(s)')
<1>1. Turns(s) /\ run'[s].step = "find" /\ run'[s].time = t /\ run'[s].frames # <<>> /\ Inherits(s, run'[s].frames)
  BY DEF Moves
<1>2. Walks(s) /\ HandlerOwns(s) /\ StateOK
  BY DEF Walks, Works, OwnerInv, BaseInv
<1>3. FolderStarted(run[s].time)
  BY <1>2 DEF HandlerOwns
<1>4. Started(t)
  BY <1>2, TimesAre, FolderGoesOn
<1>5. \A i \in 1..Len(run'[s].frames) : FolderStarted(run'[s].frames[i].time)
  BY <1>1, <1>2, <1>3 DEF Inherits, HandlerOwns
<1>6. HandlerOwns(s)'
  BY <1>1, <1>4, <1>5 DEF HandlerOwns, FolderStarted, Started
<1>7. ASSUME NEW r \in Requests, Own(r, t) PROVE Own(r, run[s].time)
  <2>1. PICK q \in asked : q[2] \in Folders /\ q[1] <= t
    BY DEF FolderStarted
  <2>2. PICK p \in asked : p[2] \in Folders /\ p[1] <= run[s].time
    BY <1>3 DEF FolderStarted
  <2>3. q \in Requests /\ p \in Requests
    BY <1>2 DEF StateOK
  <2>4. q = r
    BY <1>7, <2>1, <2>3 DEF Apart, Own
  <2>5. q = p
    BY <2>1, <2>2, <2>3, OneFolder
  <2>. QED  BY <2>2, <2>4, <2>5 DEF Own
<1>8. OwnWork(s)
  BY <1>1, <1>2, <1>7 DEF OwnWork, Walks
<1>. QED  BY <1>1, <1>6, <1>8

LEMMA GoesOnOwns ==
  ASSUME BaseInv, OwnerInv, NEW s \in Slots, run[s] # Idle, NEW step, GoesOn(s, step), asked \subseteq asked',
         \/ step \in ReplySteps \cup {"block"}
         \/ step \in WalkSteps /\ run[s].step \in WalkSteps
         \/ step \in OpenSteps /\ run[s].step \in WalkSteps \cup OpenSteps
  PROVE  Turns(s) /\ OwnWork(s) /\ (run'[s] # Idle => HandlerOwns(s)')
<1>1. Turns(s) /\ run'[s].step = step /\ run'[s].time = run[s].time /\ run'[s].frames = run[s].frames
  BY DEF GoesOn
<1>2. HandlerOwns(s)
  BY DEF OwnerInv
<1>3. step \in WalkSteps \cup OpenSteps => Works(s)
  BY DEF Works, WalkSteps, OpenSteps, ReplySteps
<1>4. Walks(s)' => Walks(s)
  BY <1>1, <1>3 DEF Works, Walks, WalkSteps, OpenSteps, ReplySteps
<1>. PICK t, g : t = run[s].time /\ g = run[s].frames
  OBVIOUS
<1>5. Started(t)' /\ (Walks(s) => FolderStarted(t)') /\ \A i \in 1..Len(g) : FolderStarted(g[i].time)'
  BY <1>2, StartedStays DEF HandlerOwns
<1>6. HandlerOwns(s)'
  BY <1>1, <1>4, <1>5 DEF HandlerOwns, Started, FolderStarted
<1>7. OwnWork(s)
  BY <1>1, <1>3 DEF OwnWork, Works
<1>. QED  BY <1>1, <1>6, <1>7

LEMMA HeldStays == ASSUME NEW s, \A u \in Times : Held(u)' = Held(u) PROVE OwnSessions(s)
BY DEF OwnSessions

LEMMA HeldByIt == ASSUME NEW s, run[s] # Idle, \A u \in Times \ {run[s].time} : Held(u)' = Held(u) PROVE OwnSessions(s)
BY DEF OwnSessions

LEMMA SamePeers == ASSUME NEW s, SameClient PROVE OwnPeers(s) /\ asked \subseteq asked'
BY DEF OwnPeers, SameClient

LEMMA HearsPeers ==
  ASSUME NEW s, run[s] # Idle, NEW c, Hears(run[s].time, c)
  PROVE  OwnPeers(s) /\ asked \subseteq asked'
BY DEF OwnPeers, Hears

LEMMA HeldIs == ASSUME UNCHANGED m_mapTimstampToFileinfo PROVE \A u \in Times : Held(u)' = Held(u)
BY DEF Held

LEMMA SelectOwner == ASSUME BaseInv, OwnerInv, NEW s \in Slots, downloadFolderByDir_select(s) PROVE OwnerInv'
<1>1. Runs(s, "downloadFolderByDir") /\ SameSessions /\ SameClient /\ GoesBack(s)
  BY SelectDoes
<1>2. Works(s) /\ asked \subseteq asked' /\ OwnPeers(s) /\ OwnSessions(s)
  BY <1>1, SameSessionsKeep, HeldStays, SamePeers DEF Runs, Works, WalkSteps
<1>. QED  BY <1>1, <1>2, GoesBackOwns, OwnerIsKept

LEMMA NextOwner == ASSUME BaseInv, OwnerInv, Apart, NEW s \in Slots, downloadFolderByDir_next(s) PROVE OwnerInv'
<1>1. /\ Runs(s, "next") /\ SameSessions /\ SameClient
      /\ GoesBack(s) \/ (/\ run[s].frames # <<>> /\ run[s].frames[1].time < LastTime
                        /\ Moves(s, run[s].frames[1].time + 1))
  BY NextDoes
<1>2. Works(s) /\ run[s].step \in WalkSteps /\ asked' = asked /\ OwnPeers(s) /\ OwnSessions(s)
  BY <1>1, SameSessionsKeep, HeldStays, SamePeers DEF Runs, Works, WalkSteps, SameClient
<1>3. CASE GoesBack(s)
  BY <1>1, <1>2, <1>3, GoesBackOwns, OwnerIsKept
<1>4. CASE run[s].frames # <<>> /\ run[s].frames[1].time < LastTime /\ Moves(s, run[s].frames[1].time + 1)
  <2>1. StateOK /\ run[s] # Idle /\ run[s].frames \in Seq(Frame)
    BY <1>1, AHandlerRuns DEF BaseInv, Runs
  <2>2. 1 \in 1..Len(run[s].frames)
    BY <1>4, <2>1
  <2>3. FolderStarted(run[s].frames[1].time) /\ run[s].frames[1] \in Frame
    BY <2>1, <2>2 DEF OwnerInv, HandlerOwns
  <2>. PICK t \in Times : t = run[s].frames[1].time
    BY <2>3 DEF Frame
  <2>6. t < LastTime /\ t \in Nat
    BY <1>4, TimesAre
  <2>4. t + 1 \in Times /\ t <= t + 1
    BY <2>6, TimesAre
  <2>5. FolderStarted(t + 1)
    BY <2>1, <2>3, <2>4, FolderGoesOn
  <2>. QED  BY <1>2, <1>4, <2>1, <2>4, <2>5, MovesOwns, OwnerIsKept
<1>. QED  BY <1>1, <1>3, <1>4

LEMMA FreeOwner == ASSUME BaseInv, OwnerInv, Apart, NEW s \in Slots, downloadFolderByDir_find(s) PROVE OwnerInv'
<1>1. /\ Runs(s, "find") /\ SameSessions /\ SameClient
      /\ \/ run[s].time < LastTime /\ Moves(s, run[s].time + 1)
         \/ GoesOn(s, "downloadFolderByDir")
         \/ GoesOn(s, "downloadFile")
  BY FreeDoes
<1>2. Walks(s) /\ run[s] # Idle /\ run[s].step \in WalkSteps /\ asked' = asked /\ asked \subseteq asked'
      /\ OwnPeers(s) /\ OwnSessions(s)
  BY <1>1, SameSessionsKeep, HeldStays, SamePeers DEF Runs, Walks, Works, WalkSteps, SameClient
<1>3. CASE run[s].time < LastTime /\ Moves(s, run[s].time + 1)
  <2>1. StateOK /\ FolderStarted(run[s].time)
    BY <1>2 DEF BaseInv, OwnerInv, HandlerOwns
  <2>. PICK t \in Times : t = run[s].time
    BY <1>2, <2>1, AHandlerRuns
  <2>4. t + 1 \in Times /\ t <= t + 1
    BY <1>3, TimesAre
  <2>5. FolderStarted(t + 1)
    BY <2>1, <2>4, FolderGoesOn
  <2>. QED  BY <1>2, <1>3, <2>4, <2>5, MovesOwns, OwnerIsKept
<1>4. CASE GoesOn(s, "downloadFolderByDir")
  BY <1>2, <1>4, GoesOnOwns, OwnerIsKept DEF WalkSteps
<1>5. CASE GoesOn(s, "downloadFile")
  BY <1>2, <1>5, GoesOnOwns, OwnerIsKept DEF OpenSteps
<1>. QED  BY <1>1, <1>3, <1>4, <1>5

LEMMA FileSelectOwner == ASSUME BaseInv, OwnerInv, NEW s \in Slots, downloadFile_select(s) PROVE OwnerInv'
<1>1. Runs(s, "downloadFile") /\ SameClient /\ (GoesBack(s) \/ GoesOn(s, "open"))
  BY FileSelectDoes
<1>2. Works(s) /\ run[s] # Idle /\ run[s].step \in OpenSteps /\ asked \subseteq asked' /\ OwnPeers(s)
  BY <1>1, SamePeers DEF Runs, Works, OpenSteps
<1>3. OwnSessions(s)
  BY FileSelectDoes, SameSessionsKeep, HeldStays
<1>4. CASE GoesBack(s)
  BY <1>2, <1>3, <1>4, GoesBackOwns, OwnerIsKept
<1>5. CASE GoesOn(s, "open")
  BY <1>2, <1>3, <1>5, GoesOnOwns, OwnerIsKept DEF OpenSteps
<1>. QED  BY <1>1, <1>4, <1>5

LEMMA OpenOwner == ASSUME BaseInv, OwnerInv, NEW s \in Slots, downloadFile_open(s) PROVE OwnerInv'
<1>1. Runs(s, "open") /\ SameClient /\ (GoesBack(s) \/ GoesOn(s, "IsExist"))
  BY OpenDoes
<1>2. Works(s) /\ run[s] # Idle /\ run[s].step \in OpenSteps /\ asked \subseteq asked' /\ OwnPeers(s)
  BY <1>1, SamePeers DEF Runs, Works, OpenSteps
<1>3. OwnSessions(s)
  <2>1. run[s].time \in Times
    BY <1>2, AHandlerRuns DEF BaseInv
  <2>. QED  BY <1>2, <2>1, OpenDoes, SameSessionsKeep, OpenedKeeps, HeldStays, HeldByIt
<1>4. CASE GoesBack(s)
  BY <1>2, <1>3, <1>4, GoesBackOwns, OwnerIsKept
<1>5. CASE GoesOn(s, "IsExist")
  BY <1>2, <1>3, <1>5, GoesOnOwns, OwnerIsKept DEF OpenSteps
<1>. QED  BY <1>1, <1>4, <1>5

LEMMA IsExistOwner == ASSUME BaseInv, OwnerInv, NEW s \in Slots, downloadFile_IsExist(s) PROVE OwnerInv'
<1>1. Runs(s, "IsExist") /\ SameClient /\ (GoesBack(s) \/ GoesOn(s, "header"))
  BY IsExistDoes
<1>2. Works(s) /\ run[s] # Idle /\ run[s].step \in OpenSteps /\ asked \subseteq asked' /\ OwnPeers(s)
  BY <1>1, SamePeers DEF Runs, Works, OpenSteps
<1>3. OwnSessions(s)
  BY IsExistDoes, SameSessionsKeep, HeldStays
<1>4. CASE GoesBack(s)
  BY <1>2, <1>3, <1>4, GoesBackOwns, OwnerIsKept
<1>5. CASE GoesOn(s, "header")
  BY <1>2, <1>3, <1>5, GoesOnOwns, OwnerIsKept DEF OpenSteps
<1>. QED  BY <1>1, <1>4, <1>5

LEMMA HeaderOwner == ASSUME BaseInv, OwnerInv, NEW s \in Slots, SendHeader(s) PROVE OwnerInv'
<1>1. /\ Runs(s, "header") /\ SameSessions /\ GoesBack(s)
      /\ Hears(run[s].time, Transfer(run[s].file)) \/ SameClient
  BY HeaderDoes
<1>2. Works(s) /\ run[s] # Idle
  BY <1>1 DEF Runs, Works, OpenSteps
<1>3. OwnSessions(s) /\ OwnPeers(s) /\ asked \subseteq asked'
  BY <1>1, <1>2, SameSessionsKeep, HeldStays, HearsPeers, SamePeers
<1>. QED  BY <1>1, <1>2, <1>3, GoesBackOwns, OwnerIsKept

LEMMA FindHeaderOwner == ASSUME BaseInv, OwnerInv, NEW s \in Slots, downloadFileHeadRs_find(s) PROVE OwnerInv'
<1>1. Runs(s, "downloadFileHeadRs") /\ SameClient /\ (Ends(s) \/ GoesOn(s, "first"))
  BY FindDoes DEF downloadFileHeadRs_find
<1>2. run[s] # Idle /\ asked \subseteq asked' /\ OwnPeers(s) /\ run[s].time \in Times
  BY <1>1, SamePeers, AHandlerRuns DEF Runs, BaseInv
<1>3. OwnSessions(s)
  BY FindDoes, SameSessionsKeep, HeldStays DEF downloadFileHeadRs_find
<1>4. Turns(s) /\ OwnWork(s) /\ (run'[s] # Idle => HandlerOwns(s)')
  BY <1>1, <1>2, EndsOwns, GoesOnOwns DEF ReplySteps
<1>. QED  BY <1>2, <1>3, <1>4, OwnerIsKept

LEMMA FindContentOwner == ASSUME BaseInv, OwnerInv, NEW s \in Slots, fileContentRs_find(s) PROVE OwnerInv'
<1>1. Runs(s, "fileContentRs") /\ SameClient /\ (Ends(s) \/ GoesOn(s, "advance"))
  BY FindDoes DEF fileContentRs_find
<1>2. run[s] # Idle /\ asked \subseteq asked' /\ OwnPeers(s) /\ run[s].time \in Times
  BY <1>1, SamePeers, AHandlerRuns DEF Runs, BaseInv
<1>3. OwnSessions(s)
  BY FindDoes, SameSessionsKeep, HeldStays DEF fileContentRs_find
<1>4. Turns(s) /\ OwnWork(s) /\ (run'[s] # Idle => HandlerOwns(s)')
  BY <1>1, <1>2, EndsOwns, GoesOnOwns DEF ReplySteps
<1>. QED  BY <1>2, <1>3, <1>4, OwnerIsKept

LEMMA FirstReadOwner == ASSUME BaseInv, OwnerInv, NEW s \in Slots, downloadFileHeadRs_read(s) PROVE OwnerInv'
<1>1. Runs(s, "first") /\ SameClient /\ (Ends(s) \/ GoesOn(s, "block"))
  BY FirstReadDoes
<1>2. run[s] # Idle /\ asked \subseteq asked' /\ OwnPeers(s) /\ run[s].time \in Times
  BY <1>1, SamePeers, AHandlerRuns DEF Runs, BaseInv
<1>3. OwnSessions(s)
  BY FirstReadDoes, HeldIs, HeldStays
<1>4. Turns(s) /\ OwnWork(s) /\ (run'[s] # Idle => HandlerOwns(s)')
  BY <1>1, <1>2, EndsOwns, GoesOnOwns DEF ReplySteps
<1>. QED  BY <1>2, <1>3, <1>4, OwnerIsKept

LEMMA RefusedOwner == ASSUME BaseInv, OwnerInv, NEW s \in Slots, fileContentRs_refused(s) PROVE OwnerInv'
<1>1. Runs(s, "advance") /\ SameClient /\ (GoesOn(s, "block"))
  BY RefusedDoes
<1>2. run[s] # Idle /\ asked \subseteq asked' /\ OwnPeers(s) /\ run[s].time \in Times
  BY <1>1, SamePeers, AHandlerRuns DEF Runs, BaseInv
<1>3. OwnSessions(s)
  BY RefusedDoes, HeldIs, HeldStays
<1>4. Turns(s) /\ OwnWork(s) /\ (run'[s] # Idle => HandlerOwns(s)')
  BY <1>1, <1>2, EndsOwns, GoesOnOwns DEF ReplySteps
<1>. QED  BY <1>2, <1>3, <1>4, OwnerIsKept

LEMMA ContentReadOwner == ASSUME BaseInv, OwnerInv, NEW s \in Slots, fileContentRs_read(s) PROVE OwnerInv'
<1>1. Runs(s, "advance") /\ SameClient /\ (GoesOn(s, "close") \/ GoesOn(s, "block"))
  BY ContentReadDoes
<1>2. run[s] # Idle /\ asked \subseteq asked' /\ OwnPeers(s) /\ run[s].time \in Times
  BY <1>1, SamePeers, AHandlerRuns DEF Runs, BaseInv
<1>3. OwnSessions(s)
  BY ContentReadDoes, HeldIs, HeldStays
<1>4. Turns(s) /\ OwnWork(s) /\ (run'[s] # Idle => HandlerOwns(s)')
  BY <1>1, <1>2, EndsOwns, GoesOnOwns DEF ReplySteps
<1>. QED  BY <1>2, <1>3, <1>4, OwnerIsKept

LEMMA CloseOwner == ASSUME BaseInv, OwnerInv, NEW s \in Slots, fileContentRs_close(s) PROVE OwnerInv'
<1>1. Runs(s, "close") /\ SameClient /\ (Ends(s))
  BY CloseDoes
<1>2. run[s] # Idle /\ asked \subseteq asked' /\ OwnPeers(s) /\ run[s].time \in Times
  BY <1>1, SamePeers, AHandlerRuns DEF Runs, BaseInv
<1>3. OwnSessions(s)
  <2>. PICK o, t : o = run[s].obj /\ t = run[s].time
    OBVIOUS
  <2>1. o \in 1..Len(info) /\ info[o].time = t /\ t \in Times
    BY <1>1, <1>2, HasObject
  <2>. QED  BY <1>2, <2>1, CloseDoes, ClosedKeeps, HeldByIt
<1>4. Turns(s) /\ OwnWork(s) /\ (run'[s] # Idle => HandlerOwns(s)')
  BY <1>1, <1>2, EndsOwns, GoesOnOwns DEF ReplySteps
<1>. QED  BY <1>2, <1>3, <1>4, OwnerIsKept

LEMMA ContFindOwner == ASSUME BaseInv, OwnerInv, NEW s \in Slots, continueDownload_find(s) PROVE OwnerInv'
<1>1. Runs(s, "continueDownload") /\ SameClient /\ (GoesOn(s, "reopen"))
  BY ContFindDoes
<1>2. run[s] # Idle /\ asked \subseteq asked' /\ OwnPeers(s) /\ run[s].time \in Times
  BY <1>1, SamePeers, AHandlerRuns DEF Runs, BaseInv
<1>3. OwnSessions(s)
  BY ContFindDoes, SameSessionsKeep, HeldStays
<1>4. Turns(s) /\ OwnWork(s) /\ (run'[s] # Idle => HandlerOwns(s)')
  BY <1>1, <1>2, EndsOwns, GoesOnOwns DEF ReplySteps
<1>. QED  BY <1>2, <1>3, <1>4, OwnerIsKept

LEMMA ContOpenOwner == ASSUME BaseInv, OwnerInv, NEW s \in Slots, continueDownload_open(s) PROVE OwnerInv'
<1>1. Runs(s, "reopen") /\ SameClient /\ (Ends(s) \/ GoesOn(s, "seek"))
  BY ContOpenDoes
<1>2. run[s] # Idle /\ asked \subseteq asked' /\ OwnPeers(s) /\ run[s].time \in Times
  BY <1>1, SamePeers, AHandlerRuns DEF Runs, BaseInv
<1>3. OwnSessions(s)
  BY <1>2, ContOpenDoes, SameSessionsKeep, OpenedKeeps, HeldStays, HeldByIt
<1>4. Turns(s) /\ OwnWork(s) /\ (run'[s] # Idle => HandlerOwns(s)')
  BY <1>1, <1>2, EndsOwns, GoesOnOwns DEF ReplySteps
<1>. QED  BY <1>2, <1>3, <1>4, OwnerIsKept

LEMMA ContReadOwner == ASSUME BaseInv, OwnerInv, NEW s \in Slots, continueDownload_read(s) PROVE OwnerInv'
<1>1. Runs(s, "seek") /\ SameClient /\ (Ends(s) \/ GoesOn(s, "block"))
  BY ContReadDoes
<1>2. run[s] # Idle /\ asked \subseteq asked' /\ OwnPeers(s) /\ run[s].time \in Times
  BY <1>1, SamePeers, AHandlerRuns DEF Runs, BaseInv
<1>3. OwnSessions(s)
  BY ContReadDoes, HeldIs, HeldStays
<1>4. Turns(s) /\ OwnWork(s) /\ (run'[s] # Idle => HandlerOwns(s)')
  BY <1>1, <1>2, EndsOwns, GoesOnOwns DEF ReplySteps
<1>. QED  BY <1>2, <1>3, <1>4, OwnerIsKept

LEMMA BlockOwner == ASSUME BaseInv, OwnerInv, NEW s \in Slots, SendBlock(s) PROVE OwnerInv'
<1>1. /\ Runs(s, "block") /\ SameSessions /\ Ends(s)
      /\ Hears(run[s].time, Stored(client[run[s].time], run[s])) \/ SameClient
  BY BlockDoes
<1>2. OwnSessions(s) /\ OwnPeers(s) /\ asked \subseteq asked'
  BY <1>1, SameSessionsKeep, HeldStays, HearsPeers, SamePeers DEF Runs
<1>. QED  BY <1>1, <1>2, EndsOwns, OwnerIsKept

LEMMA LostOwner == ASSUME BaseInv, OwnerInv, NEW s \in Slots, lost(s) PROVE OwnerInv'
<1>1. SameSessions /\ SameClient /\ Ends(s)
  BY LostDoes
<1>2. OwnSessions(s) /\ OwnPeers(s) /\ asked \subseteq asked'
  BY <1>1, SameSessionsKeep, HeldStays, SamePeers
<1>. QED  BY <1>1, <1>2, EndsOwns, OwnerIsKept

LEMMA RepliesOwner ==
  ASSUME BaseInv, OwnerInv, NEW t \in Times, client[t].phase # "none", SameSessions, NEW c, Hears(t, c),
         NEW step \in ReplySteps, NEW f, NEW n, NEW result, Begins(step, t, f, n, result)
  PROVE  OwnerInv'
<1>1. PICK s \in Slots : Starts(s, step, t, f, n, result)
  BY DEF Begins
<1>2. Turns(s) /\ run'[s].step = step /\ run'[s].time = t /\ run'[s].frames = <<>>
  BY <1>1 DEF Starts
<1>3. asked \subseteq asked' /\ OwnPeers(s)
  BY DEF Hears, OwnPeers
<1>4. OwnSessions(s) /\ OwnWork(s) /\ ~Walks(s)'
  BY <1>2, SameSessionsKeep, HeldStays DEF OwnWork, Walks, Works, WalkSteps, OpenSteps, ReplySteps
<1>5. Started(t)'
  BY <1>3, StartedStays DEF OwnerInv
<1>6. HandlerOwns(s)'
  BY <1>2, <1>4, <1>5 DEF HandlerOwns, Started
<1>. QED  BY <1>2, <1>3, <1>4, <1>6, OwnerIsKept

LEMMA ClientOwner ==
  ASSUME BaseInv, OwnerInv, NEW t \in Times, sendHeaderRs(t) \/ sendContentRs(t) \/ sendContinue(t) \/ refuse(t)
  PROVE  OwnerInv'
<1>1. CASE sendHeaderRs(t)
  BY <1>1, HeaderRsDoes, RepliesOwner DEF ReplySteps
<1>2. CASE sendContentRs(t)
  BY <1>2, ContentRsDoes, RepliesOwner DEF ReplySteps
<1>3. CASE sendContinue(t)
  BY <1>3, ContinueDoes, RepliesOwner DEF ReplySteps
<1>4. CASE refuse(t)
  BY <1>4, RefuseDoes, RepliesOwner DEF ReplySteps
<1>. QED  BY <1>1, <1>2, <1>3, <1>4

LEMMA RequestOwner == ASSUME BaseInv, OwnerInv, Apart, NEW r \in Requests, sendRequest(r) PROVE OwnerInv'
<1>. PICK t \in Times : t = r[1]
  BY DownloadAssumption
<1>1. /\ r \notin asked /\ asked' = asked \cup {r} /\ SameSessions /\ UNCHANGED <<epoch, client>>
      /\ \/ r[2] \in Folders /\ Begins("downloadFolderByDir", t, r[2], 0, TRUE)
         \/ r[2] \in Files /\ r[2] \notin Folders /\ Begins("downloadFile", t, r[2], 0, TRUE)
  BY RequestDoes
<1>2. PICK s \in Slots, step \in {"downloadFolderByDir", "downloadFile"} :
        Starts(s, step, t, r[2], 0, TRUE) /\ (step \in WalkSteps => r[2] \in Folders)
  BY <1>1 DEF Begins, WalkSteps
<1>3. Turns(s) /\ run'[s].step = step /\ run'[s].time = t /\ run'[s].frames = <<>>
  BY <1>2 DEF Starts
<1>4. asked \subseteq asked' /\ Own(r, t)
  <2>1. t <= t
    BY TimesAre
  <2>. QED  BY <1>1, <2>1 DEF Own
<1>5. ASSUME NEW u \in Times, Held(u)' # 0 \/ client'[u].phase # "none" PROVE Started(u)'
  <2>1. Held(u)' = Held(u) /\ client' = client
    BY <1>1, SameSessionsKeep
  <2>2. Started(u)
    BY <1>5, <2>1 DEF OwnerInv
  <2>. QED  BY <1>4, <2>2, StartedStays
<1>6. HandlerOwns(s)'
  <2>1. Started(t)'
    BY <1>1, <1>4 DEF Started
  <2>2. Walks(s)' => r[2] \in Folders
    BY <1>2, <1>3 DEF Walks
  <2>3. Walks(s)' => FolderStarted(t)'
    BY <1>1, <1>4, <2>2 DEF FolderStarted, Own
  <2>. QED  BY <1>3, <2>1, <2>3 DEF HandlerOwns, Started, FolderStarted
<1>7. ASSUME NEW u \in Slots, u # s PROVE run'[u] = run[u] /\ Works(u)' = Works(u) /\ (run'[u] # Idle => HandlerOwns(u)')
  <2>1. run'[u] = run[u] /\ Works(u)' = Works(u) /\ Walks(u)' = Walks(u)
    BY <1>3, <1>7 DEF Turns, OthersRun, Works, Walks
  <2>. PICK v, g : v = run[u].time /\ g = run[u].frames
    OBVIOUS
  <2>2. ASSUME run[u] # Idle PROVE HandlerOwns(u)'
    <3>1. Started(v)' /\ (Walks(u) => FolderStarted(v)') /\ \A i \in 1..Len(g) : FolderStarted(g[i].time)'
      BY <1>4, <2>2, StartedStays DEF OwnerInv, HandlerOwns
    <3>. QED  BY <2>1, <3>1 DEF HandlerOwns, Started, FolderStarted
  <2>. QED  BY <2>1, <2>2
(* No handler works for a request that had not been sent.                   *)
<1>8. ASSUME NEW u \in Slots, Works(u), NEW q \in Requests, Own(q, t), Own(q, run[u].time) PROVE FALSE
  <2>1. q = r
    BY <1>4, <1>8 DEF Apart
  <2>2. PICK p \in asked : Own(p, run[u].time)
    BY <1>8 DEF OwnerInv, HandlerOwns, Works, Started
  <2>3. p \in Requests /\ run[u].time \in Times
    BY <1>8, AHandlerRuns DEF BaseInv, StateOK, Works
  <2>4. p = q
    BY <1>8, <2>2, <2>3 DEF Apart
  <2>. QED  BY <1>1, <2>1, <2>2, <2>4
<1>9. ASSUME NEW u \in Slots, NEW v \in Slots, NEW q \in Requests,
             Works(u)', Works(v)', Own(q, run'[u].time), Own(q, run'[v].time)
      PROVE  u = v
  <2>1. CASE u = s /\ v # s
    BY <1>3, <1>7, <1>8, <1>9, <2>1
  <2>2. CASE u # s /\ v = s
    BY <1>3, <1>7, <1>8, <1>9, <2>2
  <2>3. CASE u # s /\ v # s
    BY <1>7, <1>9, <2>3 DEF OwnerInv
  <2>. QED  BY <2>1, <2>2, <2>3
<1>. QED  BY <1>5, <1>6, <1>7, <1>9 DEF OwnerInv

LEMMA DisconnectOwner == ASSUME BaseInv, OwnerInv, disconnect PROVE OwnerInv'
<1>1. SameSessions /\ UNCHANGED run /\ Drops /\ asked' = asked
  BY DisconnectDoes DEF Drops
<1>2. ASSUME NEW u \in Times, Held(u)' # 0 \/ client'[u].phase # "none" PROVE Started(u)'
  <2>1. Held(u)' = Held(u) /\ client'[u] = Dropped(u)
    BY <1>1, SameSessionsKeep DEF Drops
  <2>2. Dropped(u).phase # "none" => client[u].phase # "none"
    BY DEF Dropped, Active
  <2>3. Started(u)
    BY <1>2, <2>1, <2>2 DEF OwnerInv
  <2>. QED  BY <1>1, <2>3 DEF Started
<1>3. \A s \in Slots : run'[s] # Idle => HandlerOwns(s)'
  BY <1>1 DEF OwnerInv, HandlerOwns, Walks, Works, Started, FolderStarted
<1>4. \A s, u \in Slots, r \in Requests :
        Works(s)' /\ Works(u)' /\ Own(r, run'[s].time) /\ Own(r, run'[u].time) => s = u
  BY <1>1 DEF OwnerInv, Works
<1>. QED  BY <1>2, <1>3, <1>4 DEF OwnerInv

LEMMA CrashOwner == ASSUME BaseInv, OwnerInv, crash PROVE OwnerInv'
<1>1. /\ Drops /\ asked' = asked /\ run' = [s \in Slots |-> Idle] /\ m_mapTimstampToFileinfo' = [key \in Keys |-> 0]
  BY CrashDoes DEF Drops
<1>2. ASSUME NEW u \in Times, Held(u)' # 0 \/ client'[u].phase # "none" PROVE Started(u)'
  <2>1. Held(u)' = 0 /\ client'[u] = Dropped(u)
    BY <1>1, TimesAre DEF Drops, Held
  <2>2. Dropped(u).phase # "none" => client[u].phase # "none"
    BY DEF Dropped, Active
  <2>3. Started(u)
    BY <1>2, <2>1, <2>2 DEF OwnerInv
  <2>. QED  BY <1>1, <2>3 DEF Started
<1>3. \A s \in Slots : run'[s] = Idle /\ ~Works(s)'
  BY <1>1 DEF Works
<1>. QED  BY <1>2, <1>3 DEF OwnerInv

LEMMA OwnerInit == ASSUME Init PROVE OwnerInv
<1>1. \A u \in Times : Held(u) = 0 /\ client[u].phase = "none"
  BY TimesAre DEF Init, Held
<1>2. \A s \in Slots : run[s] = Idle /\ ~Works(s)
  BY DEF Init, Works
<1>. QED  BY <1>1, <1>2 DEF OwnerInv

LEMMA OwnerStutter == ASSUME BaseInv, OwnerInv, UNCHANGED vars PROVE OwnerInv'
<1>1. UNCHANGED <<m_mapTimstampToFileinfo, info, run, asked, client>>
  BY DEF vars, memory, user
<1>2. \A u \in Times : Held(u)' = Held(u) /\ Started(u)' = Started(u)
  BY <1>1 DEF Held, Started
<1>3. \A s \in Slots : run'[s] # Idle => HandlerOwns(s)'
  BY <1>1 DEF OwnerInv, HandlerOwns, Walks, Works, Started, FolderStarted
<1>4. \A s, u \in Slots, r \in Requests :
        Works(s)' /\ Works(u)' /\ Own(r, run'[s].time) /\ Own(r, run'[u].time) => s = u
  BY <1>1 DEF OwnerInv, Works
<1>. QED  BY <1>1, <1>2, <1>3, <1>4 DEF OwnerInv

LEMMA OwnerStep == ASSUME BaseInv, OwnerInv, Apart, [Next]_vars PROVE OwnerInv'
BY Steps, SelectOwner, NextOwner, FreeOwner, FileSelectOwner, OpenOwner, IsExistOwner, HeaderOwner, FindHeaderOwner,
   FirstReadOwner, FindContentOwner, RefusedOwner, ContentReadOwner, CloseOwner, ContFindOwner, ContOpenOwner,
   ContReadOwner, BlockOwner, LostOwner, ClientOwner, RequestOwner, DisconnectOwner, CrashOwner, OwnerStutter

-----------------------------------------------------------------------------
(* TimesInv.  A step is about one timestamp; the others it leaves alone.    *)
AllTimes == \A t \in Times : TimeOK(t) /\ FreeOK(t)
Alone(s, t) == \A w \in Slots \ {s} : ~Replies(w, t) /\ ~Opens(w, t)
Leaves(s, t) == ~Replies(s, t)' /\ ~Opens(s, t)'
Stay(t) ==
  /\ client'[t] = client[t] /\ Held(t)' = Held(t)
  /\ Held(t) # 0 => info'[Held(t)] = info[Held(t)]
SameTime(t) ==
  /\ Stay(t) /\ epoch' = epoch
  /\ \A w \in Slots : Replies(w, t)' => Replies(w, t) /\ run'[w] = run[w]
  /\ \A w \in Slots : Opens(w, t)' => Opens(w, t) /\ run'[w] = run[w]

LEMMA SameTimeOK ==
  ASSUME NEW t \in Times, TimeOK(t), SameTime(t)
  PROVE  TimeOK(t)' /\ (Quiet(t) => Quiet(t)')
<1>1. client'[t] = client[t] /\ epoch' = epoch /\ Held(t)' = Held(t) /\ (Held(t) # 0 => info'[Held(t)] = info[Held(t)])
  BY DEF SameTime, Stay
<1>2. Got(t)' = Got(t)
  BY <1>1 DEF Got
<1>3. PeerOK(t)'
  BY <1>1, <1>2 DEF TimeOK, PeerOK, Stands
<1>4. ASSUME NEW w \in Slots, Replies(w, t)' PROVE ReplyOK(w, t)'
  <2>1. Replies(w, t) /\ run'[w] = run[w] /\ ReplyOK(w, t)
    BY <1>4 DEF SameTime, TimeOK
  <2>. QED  BY <1>1, <1>2, <2>1 DEF ReplyOK, PhaseOK, Stands
<1>5. Quiet(t) => Quiet(t)'
  BY <1>1 DEF Quiet, SameTime
<1>6. ASSUME NEW w \in Slots, Opens(w, t)' PROVE OpenerOK(w, t)'
  <2>1. run'[w] = run[w] /\ OpenerOK(w, t)
    BY <1>6 DEF SameTime, TimeOK
  <2>. QED  BY <1>1, <1>5, <2>1 DEF OpenerOK, Is, Stands
<1>7. \A w, v \in Slots : Replies(w, t)' /\ Replies(v, t)' => w = v
  BY DEF SameTime, TimeOK
<1>. QED  BY <1>3, <1>4, <1>5, <1>6, <1>7 DEF TimeOK

LEMMA OtherTime ==
  ASSUME NEW s \in Slots, NEW t \in Times, Stay(t), epoch' = epoch, Turns(s), Leaves(s, t)
  PROVE  SameTime(t)
<1>1. ASSUME NEW w \in Slots, w # s
      PROVE  run'[w] = run[w] /\ Replies(w, t)' = Replies(w, t) /\ Opens(w, t)' = Opens(w, t)
  <2>1. run'[w] = run[w]
    BY <1>1 DEF Turns, OthersRun
  <2>. QED  BY <2>1 DEF Replies, Opens, At
<1>. QED  BY <1>1 DEF SameTime, Leaves

(* While it is looked at, a timestamp has only one handler.                 *)
LEMMA AloneWorks ==
  ASSUME BaseInv, OwnerInv, NEW s \in Slots, NEW w \in Slots, Works(s), Works(w), run[s].time = run[w].time
  PROVE  s = w
<1>1. PICK r \in asked : Own(r, run[s].time)
  BY DEF OwnerInv, HandlerOwns, Works, Started
<1>2. r \in Requests
  BY DEF BaseInv, StateOK
<1>. QED  BY <1>1, <1>2 DEF OwnerInv

LEMMA AloneReplies ==
  ASSUME NEW s \in Slots, NEW t \in Times, TimeOK(t), Replies(s, t)
  PROVE  Alone(s, t) /\ ReplyOK(s, t) /\ PeerOK(t) /\ ~Quiet(t)
BY DEF Alone, TimeOK, OpenerOK, Quiet

LEMMA AloneOpens ==
  ASSUME BaseInv, OwnerInv, NEW s \in Slots, NEW t \in Times, Works(s), run[s].time = t, Quiet(t)
  PROVE  Alone(s, t)
<1>1. ASSUME NEW w \in Slots, w # s PROVE ~Replies(w, t) /\ ~Opens(w, t)
  <2>1. ~Replies(w, t)
    BY DEF Quiet
  <2>2. Opens(w, t) => Works(w) /\ run[w].time = t
    BY DEF Opens, At, Works
  <2>. QED  BY <1>1, <2>1, <2>2, AloneWorks
<1>. QED  BY <1>1 DEF Alone

LEMMA Solo ==
  ASSUME NEW s \in Slots, NEW t \in Times, Turns(s), epoch' = epoch, Alone(s, t), PeerOK(t)',
         Replies(s, t)' => ReplyOK(s, t)', Opens(s, t)' => OpenerOK(s, t)'
  PROVE  TimeOK(t)' /\ Alone(s, t)'
<1>1. ASSUME NEW w \in Slots, w # s PROVE ~Replies(w, t)' /\ ~Opens(w, t)'
  <2>1. run'[w] = run[w]
    BY <1>1 DEF Turns, OthersRun
  <2>2. ~Replies(w, t) /\ ~Opens(w, t)
    BY <1>1 DEF Alone
  <2>. QED  BY <2>1, <2>2 DEF Replies, Opens, At
<1>. QED  BY <1>1 DEF TimeOK, Alone

(* Free timestamps stay free.                                               *)
LEMMA FreeKept ==
  ASSUME NEW t \in Times, FreeOK(t), asked' = asked, Walked' => Walked,
         Held(t)' = 0 => Quiet(t)' \/ (Held(t) = 0 /\ ~Quiet(t))
  PROVE  FreeOK(t)'
<1>1. FolderStarted(t)' => FolderStarted(t)
  BY DEF FolderStarted
<1>. QED  BY <1>1 DEF FreeOK

LEMMA WalkedStays ==
  ASSUME NEW s \in Slots, Turns(s), Walks(s)' => Walks(s)
  PROVE  Walked' => Walked
<1>1. ASSUME NEW w \in Slots, Walks(w)' PROVE Walks(w)
  <2>1. CASE w = s
    BY <1>1, <2>1
  <2>2. CASE w # s
    <3>1. run'[w] = run[w]
      BY <2>2 DEF Turns, OthersRun
    <3>. QED  BY <1>1, <3>1 DEF Walks, Works
  <2>. QED  BY <2>1, <2>2
<1>. QED  BY <1>1 DEF Walked

LEMMA TimesAreKept ==
  ASSUME AllTimes, NEW s \in Slots, NEW t \in Times, Turns(s), Walks(s)' => Walks(s), asked' = asked, epoch' = epoch,
         \A u \in Times \ {t} : Stay(u) /\ Leaves(s, u),
         TimeOK(t)', Held(t)' = 0 => Quiet(t)' \/ (Held(t) = 0 /\ ~Quiet(t))
  PROVE  AllTimes'
<1>1. Walked' => Walked
  BY WalkedStays
<1>2. FreeOK(t)'
  BY <1>1, FreeKept DEF AllTimes
<1>3. ASSUME NEW u \in Times, u # t PROVE TimeOK(u)' /\ FreeOK(u)'
  <2>1. SameTime(u) /\ TimeOK(u) /\ FreeOK(u)
    BY <1>3, OtherTime DEF AllTimes
  <2>2. TimeOK(u)' /\ (Quiet(u) => Quiet(u)') /\ Held(u)' = Held(u)
    BY <2>1, SameTimeOK DEF SameTime, Stay
  <2>. QED  BY <1>1, <2>1, <2>2, FreeKept
<1>. QED  BY <1>2, <1>3 DEF AllTimes

(* A turn that changes neither sessions nor clients, to no other timestamp. *)
LEMMA NothingHappens ==
  ASSUME BaseInv, AllTimes, NEW s \in Slots, Turns(s), Walks(s)' => Walks(s), SameSessions, SameClient,
         \A u \in Times : Leaves(s, u)
  PROVE  AllTimes'
<1>1. ASSUME NEW u \in Times PROVE TimeOK(u)' /\ FreeOK(u)'
  <2>1. Stay(u) /\ epoch' = epoch /\ asked' = asked
    BY SameSessionsKeep DEF Stay, SameSessions, SameClient
  <2>2. SameTime(u) /\ TimeOK(u) /\ FreeOK(u)
    BY <2>1, OtherTime DEF AllTimes
  <2>3. TimeOK(u)' /\ (Quiet(u) => Quiet(u)') /\ Held(u)' = Held(u)
    BY <2>1, <2>2, SameTimeOK DEF Stay
  <2>. QED  BY <2>1, <2>2, <2>3, WalkedStays, FreeKept
<1>. QED  BY <1>1 DEF AllTimes

LEMMA EndsLeaves ==
  ASSUME NEW s \in Slots, Ends(s)
  PROVE  Turns(s) /\ ~Walks(s)' /\ \A u \in Times : Leaves(s, u)
BY DEF Ends, Walks, Works, Leaves, Replies, Opens, At

LEMMA WalkLeaves ==
  ASSUME NEW s \in Slots, run'[s].step \in WalkSteps
  PROVE  \A u \in Times : Leaves(s, u)
BY DEF Leaves, Replies, Opens, At, WalkSteps, OpenSteps, ReplySteps

LEMMA GoesBackLeaves ==
  ASSUME BaseInv, NEW s \in Slots, Works(s), GoesBack(s)
  PROVE  Turns(s) /\ (Walks(s)' => Walks(s)) /\ \A u \in Times : Leaves(s, u)
<1>. PICK frames : Inherits(s, frames) /\ BackTo(s, frames)
  BY DEF GoesBack
<1>1. CASE Ends(s)
  BY <1>1, EndsLeaves
<1>2. CASE ~Ends(s)
  <2>1. frames # <<>> /\ Turns(s) /\ run'[s].step = "next"
    BY <1>2 DEF BackTo
  <2>2. Len(frames) \in Nat \ {0}
    BY <2>1, LenProperties, EmptySeq DEF Inherits
  <2>3. 1 \in 1..Len(frames)
    BY <2>2
  <2>4. run[s].step \in WalkSteps \/ \E j \in 1..Len(run[s].frames) : TRUE
    BY <2>3 DEF Inherits
  <2>5. run[s].frames = <<>> => Len(run[s].frames) = 0
    OBVIOUS
  <2>6. Walks(s)
    BY <2>4, <2>5 DEF Walks
  <2>. QED  BY <2>1, <2>6, WalkLeaves DEF WalkSteps
<1>. QED  BY <1>1, <1>2

LEMMA MovesLeaves ==
  ASSUME NEW s \in Slots, run[s] # Idle, run[s].step \in WalkSteps, NEW t, Moves(s, t)
  PROVE  Turns(s) /\ Walks(s) /\ \A u \in Times : Leaves(s, u)
BY WalkLeaves DEF Moves, Walks, Works, WalkSteps

LEMMA GoesOnLeaves ==
  ASSUME NEW s \in Slots, run[s] # Idle, NEW step, GoesOn(s, step),
         \/ step \in ReplySteps \cup {"block"}
         \/ step \in WalkSteps /\ run[s].step \in WalkSteps
         \/ step \in OpenSteps /\ run[s].step \in WalkSteps \cup OpenSteps
  PROVE  Turns(s) /\ (Walks(s)' => Walks(s)) /\ \A u \in Times \ {run[s].time} : Leaves(s, u)
<1>1. Turns(s) /\ run'[s].step = step /\ run'[s].time = run[s].time /\ run'[s].frames = run[s].frames
  BY DEF GoesOn
<1>2. step \in WalkSteps \cup OpenSteps => Works(s)
  BY DEF Works, WalkSteps, OpenSteps, ReplySteps
<1>3. Walks(s)' => Walks(s)
  BY <1>1, <1>2 DEF Works, Walks, WalkSteps, OpenSteps, ReplySteps
<1>4. \A u \in Times \ {run[s].time} : Leaves(s, u)
  BY <1>1 DEF Leaves, Replies, Opens, At
<1>. QED  BY <1>1, <1>3, <1>4

(* The sessions and the clients of other timestamps.                        *)
LEMMA StayAll == ASSUME BaseInv, SameSessions, SameClient PROVE \A u \in Times : Stay(u)
BY SameSessionsKeep DEF Stay, SameSessions, SameClient

LEMMA OpenedStay ==
  ASSUME BaseInv, NEW t \in Times, NEW f, NEW pos, Opened(t, f, pos), SameClient
  PROVE  \A u \in Times \ {t} : Stay(u)
<1>1. ASSUME NEW u \in Times \ {t} PROVE Stay(u)
  <2>1. Held(u)' = Held(u) /\ MapOK(u)
    BY OpenedKeeps DEF BaseInv
  <2>. QED  BY <2>1 DEF Stay, MapOK, Opened, SameClient
<1>. QED  BY <1>1

LEMMA ChangedStay ==
  ASSUME BaseInv, NEW t \in Times, NEW o \in 1..Len(info), Changed(o), info[o].time = t, SameClient,
         \A u \in Times \ {t} : Held(u)' = Held(u)
  PROVE  \A u \in Times \ {t} : Stay(u)
<1>1. ASSUME NEW u \in Times \ {t} PROVE Stay(u)
  <2>1. Held(u)' = Held(u) /\ MapOK(u)
    BY DEF BaseInv
  <2>2. Held(u) # 0 => Held(u) # o /\ Held(u) \in 1..Len(info)
    BY <2>1 DEF MapOK
  <2>. QED  BY <2>1, <2>2 DEF Stay, Changed, SameClient
<1>. QED  BY <1>1

LEMMA HearsStay ==
  ASSUME BaseInv, NEW t \in Times, NEW c, Hears(t, c), SameSessions
  PROVE  \A u \in Times \ {t} : Stay(u)
BY SameSessionsKeep DEF Stay, SameSessions, Hears

-----------------------------------------------------------------------------
(* A folder is walked; a file is found, opened and announced.               *)
LEMMA SelectTimes == ASSUME BaseInv, AllTimes, NEW s \in Slots, downloadFolderByDir_select(s) PROVE AllTimes'
<1>1. Runs(s, "downloadFolderByDir") /\ SameSessions /\ SameClient /\ GoesBack(s)
  BY SelectDoes
<1>2. Works(s)
  BY <1>1 DEF Runs, Works, WalkSteps
<1>. QED  BY <1>1, <1>2, GoesBackLeaves, NothingHappens

LEMMA NextTimes == ASSUME BaseInv, AllTimes, NEW s \in Slots, downloadFolderByDir_next(s) PROVE AllTimes'
<1>1. /\ Runs(s, "next") /\ SameSessions /\ SameClient
      /\ GoesBack(s) \/ Moves(s, run[s].frames[1].time + 1)
  BY NextDoes
<1>2. Works(s) /\ run[s] # Idle /\ run[s].step \in WalkSteps
  BY <1>1 DEF Runs, Works, WalkSteps
<1>. QED  BY <1>1, <1>2, GoesBackLeaves, MovesLeaves, NothingHappens

(* What TimeOK says where a handler opens a file.                           *)
LEMMA OpenerKept ==
  ASSUME NEW t \in Times, TimeOK(t), Quiet(t), Stay(t)
  PROVE  PeerOK(t)' /\ client'[t].phase \in {"none", "done"}
<1>1. client'[t] = client[t] /\ Held(t)' = Held(t) /\ Got(t)' = Got(t) /\ PeerOK(t)
  BY DEF Stay, TimeOK, Got
<1>. QED  BY <1>1 DEF PeerOK, Quiet, Stands, Active

LEMMA QuietStays ==
  ASSUME NEW s \in Slots, NEW t \in Times, Alone(s, t)', ~Replies(s, t)', client'[t].phase \in {"none", "done"}
  PROVE  Quiet(t)'
BY DEF Quiet, Alone

LEMMA FreeTimes == ASSUME BaseInv, OwnerInv, AllTimes, NEW s \in Slots, downloadFolderByDir_find(s) PROVE AllTimes'
<1>1. /\ Runs(s, "find") /\ SameSessions /\ SameClient
      /\ \/ Moves(s, run[s].time + 1)
         \/ GoesOn(s, "downloadFolderByDir")
         \/ GoesOn(s, "downloadFile") /\ Held(run[s].time) = 0
  BY FreeDoes
<1>2. Walks(s) /\ Works(s) /\ run[s] # Idle /\ run[s].step \in WalkSteps
  BY <1>1 DEF Runs, Walks, Works, WalkSteps
<1>3. CASE Moves(s, run[s].time + 1)
  BY <1>1, <1>2, <1>3, MovesLeaves, NothingHappens
<1>4. CASE GoesOn(s, "downloadFolderByDir")
  BY <1>1, <1>2, <1>4, WalkLeaves, NothingHappens DEF GoesOn, WalkSteps
<1>5. CASE GoesOn(s, "downloadFile") /\ Held(run[s].time) = 0
  <2>. PICK t \in Times : t = run[s].time
    BY <1>2, AHandlerRuns DEF BaseInv
  <2>1. Quiet(t)
    <3>1. FolderStarted(t) /\ Walked
      BY <1>2 DEF OwnerInv, HandlerOwns, Walked
    <3>. QED  BY <1>5, <3>1 DEF AllTimes, FreeOK
  <2>2. Alone(s, t)
    BY <1>2, <2>1, AloneOpens
  <2>3. Stay(t) /\ Held(t)' = 0 /\ epoch' = epoch /\ asked' = asked /\ (\A u \in Times : Stay(u))
    BY <1>1, <1>5, StayAll DEF Stay, SameClient
  <2>4. PeerOK(t)' /\ client'[t].phase \in {"none", "done"}
    BY <2>1, <2>3, OpenerKept DEF AllTimes
  <2>5. Turns(s) /\ run'[s].step = "downloadFile" /\ (\A u \in Times \ {t} : Leaves(s, u))
    BY <1>2, <1>5, GoesOnLeaves DEF GoesOn, OpenSteps
  <2>6. ~Replies(s, t)'
    BY <2>5 DEF Replies, ReplySteps
  <2>7. Alone(s, t)'
    <3>1. ASSUME NEW w \in Slots, w # s PROVE ~Replies(w, t)' /\ ~Opens(w, t)'
      <4>1. run'[w] = run[w] /\ ~Replies(w, t) /\ ~Opens(w, t)
        BY <2>2, <2>5, <3>1 DEF Alone, Turns, OthersRun
      <4>. QED  BY <2>3, <4>1 DEF Replies, Opens, At
    <3>. QED  BY <3>1 DEF Alone
  <2>8. Quiet(t)'
    BY <2>4, <2>6, <2>7, QuietStays
  <2>9. OpenerOK(s, t)'
    BY <2>3, <2>5, <2>8 DEF OpenerOK
  <2>10. TimeOK(t)'
    BY <2>2, <2>3, <2>4, <2>5, <2>6, <2>9, Solo
  <2>. QED  BY <1>2, <2>3, <2>5, <2>8, <2>10, TimesAreKept
<1>. QED  BY <1>1, <1>3, <1>4, <1>5

(* A handler that opens a file: its timestamp is quiet and stays so.        *)
LEMMA Opening ==
  ASSUME BaseInv, OwnerInv, AllTimes, NEW s \in Slots, NEW t \in Times, t = run[s].time, Works(s), Opens(s, t),
         NEW step \in OpenSteps, GoesOn(s, step), epoch' = epoch, asked' = asked, client' = client,
         \A u \in Times \ {t} : Stay(u),
         Quiet(t)' => OpenerOK(s, t)'
  PROVE  AllTimes'
<1>1. TimeOK(t) /\ Quiet(t) /\ PeerOK(t)
  BY DEF AllTimes, TimeOK, OpenerOK
<1>2. Alone(s, t) /\ client[t].phase \in {"none", "done"}
  BY <1>1, AloneOpens DEF Quiet
<1>3. Turns(s) /\ run'[s].step = step /\ (Walks(s)' => Walks(s)) /\ \A u \in Times \ {t} : Leaves(s, u)
  BY GoesOnLeaves DEF GoesOn, Opens, At
<1>4. ~Replies(s, t)'
  BY <1>3 DEF Replies, OpenSteps, ReplySteps
<1>5. PeerOK(t)'
  <2>1. Got(t)' = Got(t)
    BY DEF Got
  <2>. QED  BY <1>1, <1>2, <2>1 DEF PeerOK, Active
<1>6. ASSUME NEW w \in Slots, w # s PROVE ~Replies(w, t)' /\ ~Opens(w, t)'
  <2>1. run'[w] = run[w] /\ ~Replies(w, t) /\ ~Opens(w, t)
    BY <1>2, <1>3, <1>6 DEF Alone, Turns, OthersRun
  <2>. QED  BY <2>1 DEF Replies, Opens, At
<1>7. Quiet(t)'
  BY <1>2, <1>4, <1>6 DEF Quiet
<1>8. TimeOK(t)'
  BY <1>2, <1>3, <1>4, <1>5, <1>7, Solo
<1>. QED  BY <1>3, <1>7, <1>8, TimesAreKept

LEMMA FileSelectTimes == ASSUME BaseInv, OwnerInv, AllTimes, NEW s \in Slots, downloadFile_select(s) PROVE AllTimes'
<1>1. Runs(s, "downloadFile") /\ SameSessions /\ SameClient /\ (GoesBack(s) \/ GoesOn(s, "open"))
  BY FileSelectDoes
<1>. PICK t \in Times : t = run[s].time
  BY <1>1, AHandlerRuns DEF BaseInv, Runs
<1>2. Works(s) /\ Opens(s, t)
  BY <1>1 DEF Runs, Works, Opens, At, OpenSteps
<1>3. CASE GoesBack(s)
  BY <1>1, <1>2, <1>3, GoesBackLeaves, NothingHappens
<1>4. CASE GoesOn(s, "open")
  <2>1. epoch' = epoch /\ asked' = asked /\ client' = client /\ (\A u \in Times : Stay(u)) /\ Held(t)' = Held(t)
    BY <1>1, StayAll DEF SameClient, Stay
  <2>2. Held(t) = 0
    BY <1>1, <1>2 DEF AllTimes, TimeOK, OpenerOK, Runs
  <2>3. Quiet(t)' => OpenerOK(s, t)'
    BY <1>4, <2>1, <2>2 DEF OpenerOK, GoesOn
  <2>. QED  BY <1>2, <1>4, <2>1, <2>3, Opening DEF OpenSteps
<1>. QED  BY <1>1, <1>3, <1>4

LEMMA OpenTimes == ASSUME BaseInv, OwnerInv, AllTimes, NEW s \in Slots, downloadFile_open(s) PROVE AllTimes'
<1>1. Runs(s, "open") /\ SameClient
      /\ \/ GoesOn(s, "IsExist") /\ Opened(run[s].time, run[s].file, 0)
         \/ GoesBack(s) /\ SameSessions
  BY OpenDoes
<1>. PICK t \in Times : t = run[s].time
  BY <1>1, AHandlerRuns DEF BaseInv, Runs
<1>. PICK f : f = run[s].file
  OBVIOUS
<1>2. Works(s) /\ Opens(s, t)
  BY <1>1 DEF Runs, Works, Opens, At, OpenSteps
<1>3. CASE GoesBack(s) /\ SameSessions
  BY <1>1, <1>2, <1>3, GoesBackLeaves, NothingHappens
<1>4. CASE GoesOn(s, "IsExist") /\ Opened(t, f, 0)
  <2>1. epoch' = epoch /\ asked' = asked /\ client' = client /\ (\A u \in Times \ {t} : Stay(u))
    BY <1>1, <1>4, OpenedStay DEF SameClient
  <2>2. Held(t)' = Len(info) + 1 /\ info'[Len(info) + 1].file = f /\ info'[Len(info) + 1].pos = 0
        /\ info'[Len(info) + 1].off = 0 /\ Len(info) + 1 \in 1..Len(info')
    BY <1>4, OpenedKeeps
  <2>3. Held(t)' # 0
    BY <2>2
  <2>4. run'[s].step = "IsExist" /\ run'[s].file = f
    BY <1>4 DEF GoesOn
  <2>5. Quiet(t)' => OpenerOK(s, t)'
    BY <2>2, <2>3, <2>4 DEF OpenerOK, Is, Stands
  <2>. QED  BY <1>2, <1>4, <2>1, <2>5, Opening DEF OpenSteps
<1>. QED  BY <1>1, <1>3, <1>4

LEMMA IsExistTimes == ASSUME BaseInv, OwnerInv, AllTimes, NEW s \in Slots, downloadFile_IsExist(s) PROVE AllTimes'
<1>1. Runs(s, "IsExist") /\ SameSessions /\ SameClient /\ (GoesBack(s) \/ GoesOn(s, "header"))
  BY IsExistDoes
<1>. PICK t \in Times : t = run[s].time
  BY <1>1, AHandlerRuns DEF BaseInv, Runs
<1>. PICK f : f = run[s].file
  OBVIOUS
<1>2. Works(s) /\ Opens(s, t)
  BY <1>1 DEF Runs, Works, Opens, At, OpenSteps
<1>3. CASE GoesBack(s)
  BY <1>1, <1>2, <1>3, GoesBackLeaves, NothingHappens
<1>4. CASE GoesOn(s, "header")
  <2>1. epoch' = epoch /\ asked' = asked /\ client' = client /\ (\A u \in Times : Stay(u)) /\ Held(t)' = Held(t)
    BY <1>1, StayAll DEF SameClient, Stay
  <2>2. Is(t, f) /\ Stands(t, 0, 0)
    BY <1>1, <1>2 DEF AllTimes, TimeOK, OpenerOK, Runs
  <2>3. run'[s].step = "header" /\ run'[s].file = f /\ info' = info
    BY <1>1, <1>4 DEF GoesOn, SameSessions
  <2>4. Quiet(t)' => OpenerOK(s, t)'
    BY <2>1, <2>2, <2>3 DEF OpenerOK, Is, Stands
  <2>. QED  BY <1>2, <1>4, <2>1, <2>4, Opening DEF OpenSteps
<1>. QED  BY <1>1, <1>3, <1>4

LEMMA HeaderTimes == ASSUME BaseInv, OwnerInv, AllTimes, NEW s \in Slots, SendHeader(s) PROVE AllTimes'
<1>1. /\ Runs(s, "header") /\ SameSessions /\ GoesBack(s)
      /\ \/ Hears(run[s].time, Transfer(run[s].file)) /\ run[s].file \in Files
         \/ SameClient
  BY HeaderDoes
<1>. PICK t \in Times : t = run[s].time
  BY <1>1, AHandlerRuns DEF BaseInv, Runs
<1>. PICK f : f = run[s].file
  OBVIOUS
<1>2. Works(s) /\ Opens(s, t)
  BY <1>1 DEF Runs, Works, Opens, At, OpenSteps
<1>3. Turns(s) /\ (Walks(s)' => Walks(s)) /\ \A u \in Times : Leaves(s, u)
  BY <1>1, <1>2, GoesBackLeaves
<1>4. CASE SameClient
  BY <1>1, <1>3, <1>4, NothingHappens
<1>5. CASE Hears(t, Transfer(f)) /\ f \in Files
  <2>1. Is(t, f) /\ Stands(t, 0, 0) /\ Quiet(t)
    BY <1>1, <1>2 DEF AllTimes, TimeOK, OpenerOK, Runs
  <2>2. Alone(s, t)
    BY <1>2, <2>1, AloneOpens
  <2>3. Held(t)' = Held(t) /\ info' = info /\ client'[t] = Transfer(f) /\ epoch' = epoch /\ asked' = asked
        /\ \A u \in Times \ {t} : Stay(u)
    BY <1>1, <1>5, SameSessionsKeep, HearsStay DEF Hears, SameSessions
  <2>4. Transfer(f).file = f /\ Transfer(f).got = <<>> /\ Transfer(f).phase = "header"
    BY DEF Transfer
  <2>5. Got(t)' = 0
    BY <2>3, <2>4 DEF Got
  <2>6. 0 <= Size[f] /\ Bytes(f, 0, 0) = <<>>
    BY <1>5, DownloadAssumption, NoBytes
  <2>7. PeerOK(t)'
    BY <2>1, <2>3, <2>4, <2>5, <2>6 DEF PeerOK, Is, Stands
  <2>8. TimeOK(t)'
    BY <1>3, <2>2, <2>3, <2>7, Solo DEF Leaves
  <2>9. Held(t)' # 0
    BY <2>1, <2>3 DEF Is
  <2>. QED  BY <1>3, <2>3, <2>8, <2>9, TimesAreKept
<1>. QED  BY <1>1, <1>4, <1>5

-----------------------------------------------------------------------------
(* The replies.                                                             *)
LEMMA PhaseGoesOn ==
  ASSUME NEW s \in Slots, NEW t \in Times, ReplyOK(s, t), NEW step, GoesOn(s, step), SameClient,
         run[s].step \notin {"close", "block"},
         run[s].step \in {"fileContentRs", "advance"} => step \in {"advance", "close", "block"}
  PROVE  PhaseOK(s, t)'
<1>1. run'[s].step = step /\ run'[s].epoch = run[s].epoch /\ client' = client /\ epoch' = epoch
  BY DEF GoesOn, SameClient
<1>2. PhaseOK(s, t)
  BY DEF ReplyOK
<1>. QED  BY <1>1, <1>2 DEF PhaseOK

LEMMA ReplierPhase ==
  ASSUME NEW s, NEW t, ReplyOK(s, t)
  PROVE  client[t].phase \in {"waiting", "done", "offline"}
BY DEF ReplyOK, PhaseOK

LEMMA PeerStays ==
  ASSUME NEW t \in Times, PeerOK(t), client' = client, client[t].phase \in {"waiting", "done", "offline"},
         Held(t)' # 0 => info'[Held(t)'].file = client[t].file
  PROVE  PeerOK(t)'
<1>1. Got(t)' = Got(t)
  BY DEF Got
<1>. QED  BY <1>1 DEF PeerOK

LEMMA Replying ==
  ASSUME BaseInv, AllTimes, NEW s \in Slots, NEW t \in Times, t = run[s].time, Replies(s, t),
         Ends(s) \/ \E step \in ReplySteps \cup {"block"} : GoesOn(s, step),
         SameClient, \A u \in Times \ {t} : Stay(u),
         Held(t)' # 0 => info'[Held(t)'].file = client[t].file,
         Replies(s, t)' => ReplyOK(s, t)',
         Held(t)' = 0 => Quiet(t)' \/ Held(t) = 0
  PROVE  AllTimes'
<1>1. Alone(s, t) /\ ReplyOK(s, t) /\ PeerOK(t) /\ ~Quiet(t)
  BY AloneReplies DEF AllTimes
<1>2. Turns(s) /\ (Walks(s)' => Walks(s)) /\ \A u \in Times \ {t} : Leaves(s, u)
  BY EndsLeaves, GoesOnLeaves DEF Replies, At
<1>3. epoch' = epoch /\ asked' = asked /\ client' = client
  BY DEF SameClient
<1>4. PeerOK(t)'
  BY <1>1, <1>3, ReplierPhase, PeerStays
<1>5. ~Opens(s, t)'
  BY DEF Ends, GoesOn, Opens, At, OpenSteps, ReplySteps
<1>6. TimeOK(t)'
  BY <1>1, <1>2, <1>3, <1>4, <1>5, Solo
<1>. QED  BY <1>1, <1>2, <1>3, <1>6, TimesAreKept

LEMMA NoReply == ASSUME NEW s, NEW t, Ends(s) PROVE ~Replies(s, t)'
BY DEF Ends, Replies, At

LEMMA ReplierIs ==
  ASSUME BaseInv, AllTimes, NEW s \in Slots, NEW step \in ReplySteps, Runs(s, step)
  PROVE  run[s].time \in Times /\ Replies(s, run[s].time) /\ ReplyOK(s, run[s].time) /\ PeerOK(run[s].time)
<1>. PICK t \in Times : t = run[s].time
  BY AHandlerRuns DEF BaseInv, Runs
<1>1. Replies(s, t)
  BY DEF Replies, At, Runs
<1>. QED  BY <1>1 DEF AllTimes, TimeOK

LEMMA FindHeaderTimes == ASSUME BaseInv, AllTimes, NEW s \in Slots, downloadFileHeadRs_find(s) PROVE AllTimes'
<1>1. /\ Runs(s, "downloadFileHeadRs") /\ SameSessions /\ SameClient
      /\ Ends(s) \/ (GoesOn(s, "first") /\ run'[s].obj = Held(run[s].time) /\ Held(run[s].time) \in 1..Len(info))
  BY FindDoes DEF downloadFileHeadRs_find
<1>2. CASE Ends(s)
  BY <1>1, <1>2, EndsLeaves, NothingHappens
<1>. PICK t \in Times : t = run[s].time
  BY <1>1, ReplierIs DEF ReplySteps
<1>3. CASE GoesOn(s, "first") /\ run'[s].obj = Held(t) /\ Held(t) \in 1..Len(info)
  <2>1. Replies(s, t) /\ ReplyOK(s, t) /\ PeerOK(t)
    BY <1>1, ReplierIs DEF ReplySteps
  <2>2. (\A u \in Times : Stay(u)) /\ Held(t)' = Held(t) /\ info' = info /\ client' = client /\ Got(t)' = Got(t)
    BY <1>1, StayAll DEF Stay, SameClient, SameSessions, Got
  <2>3. PhaseOK(s, t)'
    BY <1>1, <1>3, <2>1, PhaseGoesOn DEF Runs
  <2>4. Got(t) = 0 /\ Stands(t, 0, 0) /\ (Held(t) # 0 => info[Held(t)].file = client[t].file)
    BY <1>1, <2>1 DEF Runs, ReplyOK
  <2>5. run'[s].step = "first"
    BY <1>3 DEF GoesOn
  <2>6. ReplyOK(s, t)'
    BY <1>3, <2>2, <2>3, <2>4, <2>5 DEF ReplyOK, Stands
  <2>. QED  BY <1>1, <1>3, <2>1, <2>2, <2>4, <2>6, Replying DEF ReplySteps
<1>. QED  BY <1>1, <1>2, <1>3

LEMMA FindContentTimes == ASSUME BaseInv, AllTimes, NEW s \in Slots, fileContentRs_find(s) PROVE AllTimes'
<1>1. /\ Runs(s, "fileContentRs") /\ SameSessions /\ SameClient
      /\ \/ Ends(s)
         \/ /\ GoesOn(s, "advance") /\ run'[s].obj = Held(run[s].time) /\ Held(run[s].time) \in 1..Len(info)
            /\ run'[s].n = run[s].n
  BY FindDoes DEF fileContentRs_find
<1>2. CASE Ends(s)
  BY <1>1, <1>2, EndsLeaves, NothingHappens
<1>. PICK t \in Times : t = run[s].time
  BY <1>1, ReplierIs DEF ReplySteps
<1>3. CASE GoesOn(s, "advance") /\ run'[s].obj = Held(t) /\ Held(t) \in 1..Len(info) /\ run'[s].n = run[s].n
  <2>1. Replies(s, t) /\ ReplyOK(s, t) /\ PeerOK(t)
    BY <1>1, ReplierIs DEF ReplySteps
  <2>2. (\A u \in Times : Stay(u)) /\ Held(t)' = Held(t) /\ info' = info /\ client' = client /\ Got(t)' = Got(t)
    BY <1>1, StayAll DEF Stay, SameClient, SameSessions, Got
  <2>3. PhaseOK(s, t)'
    BY <1>1, <1>3, <2>1, PhaseGoesOn DEF Runs
  <2>4. /\ run[s].result => info[Held(t)].pos + run[s].n = Got(t) /\ info[Held(t)].off = Got(t)
                           /\ (client[t].phase # "done" => Got(t) < Size[client[t].file])
        /\ ~run[s].result => Stands(t, Got(t), Got(t) + run[s].n) /\ Got(t) + run[s].n <= Size[client[t].file]
        /\ Held(t) # 0 => info[Held(t)].file = client[t].file
    BY <1>1, <2>1 DEF Runs, ReplyOK
  <2>5. run'[s].step = "advance" /\ run'[s].result = run[s].result
    BY <1>3 DEF GoesOn
  <2>6. ReplyOK(s, t)'
    BY <1>3, <2>2, <2>3, <2>4, <2>5 DEF ReplyOK, Stands
  <2>. QED  BY <1>1, <1>3, <2>1, <2>2, <2>4, <2>6, Replying DEF ReplySteps
<1>. QED  BY <1>1, <1>2, <1>3

(* A block is ready to be sent.                                             *)
LEMMA BlockReady ==
  ASSUME BaseInv, AllTimes, NEW s \in Slots, NEW t \in Times, t = run[s].time, Replies(s, t), ReplyOK(s, t),
         run[s].step \in {"first", "advance", "seek"}, GoesOn(s, "block"),
         SameClient, UNCHANGED m_mapTimstampToFileinfo, NEW o, o = run[s].obj, Changed(o),
         NEW m, m = run'[s].n,
         run[s].epoch = epoch /\ client[t].phase = "waiting" /\ m >= 0 =>
           /\ info'[o].pos = Got(t) /\ info'[o].off = Got(t) + m /\ Got(t) + m <= Size[client[t].file]
           /\ run'[s].bytes = Bytes(client[t].file, Got(t), Got(t) + m)
  PROVE  AllTimes'
<1>1. o = Held(t) /\ Held(t) # 0 /\ info[o].file = client[t].file
  BY DEF ReplyOK
<1>2. o \in 1..Len(info) /\ info[o].time = t
  BY <1>1 DEF BaseInv, MapOK
<1>3. (\A u \in Times : Held(u)' = Held(u)) /\ (\A u \in Times \ {t} : Stay(u))
  BY <1>2, ChangedStay, HeldIs
<1>4. info'[o].file = client[t].file /\ Held(t)' = o /\ client' = client /\ epoch' = epoch
  BY <1>1, <1>3 DEF Changed, SameClient
<1>5. PhaseOK(s, t)'
  BY PhaseGoesOn
<1>6. run'[s].step = "block" /\ run'[s].epoch = run[s].epoch
  BY DEF GoesOn
<1>7. ASSUME Replies(s, t)' PROVE ReplyOK(s, t)'
  <2>1. run[s].epoch = epoch
    BY <1>4, <1>6, <1>7 DEF Replies, ReplySteps
  <2>2. Got(t)' = Got(t)
    BY <1>4 DEF Got
  <2>. QED  BY <1>1, <1>4, <1>5, <1>6, <2>1, <2>2 DEF ReplyOK, Stands
<1>8. Held(t)' # 0 => info'[Held(t)'].file = client[t].file
  BY <1>4
<1>9. Held(t)' = 0 => Quiet(t)' \/ Held(t) = 0
  BY <1>3
<1>. QED  BY <1>3, <1>7, <1>8, <1>9, Replying

LEMMA EndOfRead ==
  ASSUME NEW f \in Files, NEW off \in Nat, NEW m \in Nat, off + m = End(f, off), off <= Size[f]
  PROVE  off + m <= Size[f]
BY ReadIs

LEMMA FirstReadTimes == ASSUME BaseInv, AllTimes, NEW s \in Slots, downloadFileHeadRs_read(s) PROVE AllTimes'
<1>. PICK o, f, off : o = run[s].obj /\ f = info[o].file /\ off = info[o].off
  OBVIOUS
<1>1. /\ Runs(s, "first") /\ SameClient /\ UNCHANGED m_mapTimstampToFileinfo
      /\ \/ /\ Changed(o) /\ info'[o].pos = info[o].pos /\ info'[o].off = End(f, off)
            /\ GoesOn(s, "block") /\ run'[s].bytes = Bytes(f, off, End(f, off))
            /\ run'[s].n \in Nat /\ off + run'[s].n = End(f, off)
         \/ Ends(s) /\ UNCHANGED info
  BY FirstReadDoes
<1>2. CASE Ends(s) /\ UNCHANGED info
  BY <1>1, <1>2, EndsLeaves, NothingHappens DEF SameSessions
<1>. PICK t \in Times : t = run[s].time
  BY <1>1, ReplierIs DEF ReplySteps
<1>3. CASE /\ Changed(o) /\ info'[o].pos = info[o].pos /\ info'[o].off = End(f, off)
           /\ GoesOn(s, "block") /\ run'[s].bytes = Bytes(f, off, End(f, off))
           /\ run'[s].n \in Nat /\ off + run'[s].n = End(f, off)
  <2>1. Replies(s, t) /\ ReplyOK(s, t) /\ PeerOK(t)
    BY <1>1, ReplierIs DEF ReplySteps
  <2>2. o = Held(t) /\ Held(t) # 0 /\ f = client[t].file /\ Got(t) = 0 /\ info[o].pos = 0 /\ off = 0
    BY <1>1, <2>1 DEF Runs, ReplyOK, Stands
  <2>3. f \in Files /\ Got(t) <= Size[f] /\ Got(t) \in Nat
    <3>1. client[t].phase \in {"waiting", "done", "offline"}
      BY <2>1, ReplierPhase
    <3>. QED  BY <2>1, <2>2, <3>1, PeerIsThere DEF PeerOK, BaseInv, ClientOK
  <2>. PICK m \in Nat : m = run'[s].n
    BY <1>3
  <2>4. Got(t) + m = End(f, off) /\ Got(t) + m <= Size[f]
    <3>1. off + m = End(f, off) /\ off <= Size[f] /\ off \in Nat
      BY <1>3, <2>2, <2>3
    <3>2. off + m <= Size[f]
      BY <2>3, <3>1, EndOfRead
    <3>. QED  BY <2>2, <3>1, <3>2
  <2>5. /\ info'[o].pos = Got(t) /\ info'[o].off = Got(t) + m
        /\ run'[s].bytes = Bytes(f, Got(t), Got(t) + m)
    <3>1. off = Got(t)
      BY <2>2
    <3>. QED  BY <1>3, <2>2, <2>4, <3>1
  <2>6. run[s].step = "first"
    BY <1>1 DEF Runs
  <2>. HIDE DEF Runs
  <2>. QED  BY <1>1, <1>3, <2>1, <2>2, <2>4, <2>5, <2>6, BlockReady
<1>. QED  BY <1>1, <1>2, <1>3

LEMMA RefusedTimes == ASSUME BaseInv, AllTimes, NEW s \in Slots, fileContentRs_refused(s) PROVE AllTimes'
<1>. PICK o : o = run[s].obj
  OBVIOUS
<1>1. /\ Runs(s, "advance") /\ ~run[s].result /\ SameClient /\ UNCHANGED m_mapTimstampToFileinfo
      /\ Changed(o) /\ info'[o].pos = info[o].pos /\ info'[o].off = SeekBack(info[o].off, run[s].n)
      /\ GoesOn(s, "block") /\ run'[s].bytes = <<>> /\ run'[s].n = 0
  BY RefusedDoes
<1>. PICK t \in Times : t = run[s].time
  BY <1>1, ReplierIs DEF ReplySteps
<1>. PICK f : f = client[t].file
  OBVIOUS
<1>2. Replies(s, t) /\ ReplyOK(s, t) /\ PeerOK(t)
  BY <1>1, ReplierIs DEF ReplySteps
<1>3. o = Held(t) /\ Stands(t, Got(t), Got(t) + run[s].n)
  BY <1>1, <1>2 DEF Runs, ReplyOK
<1>4. info[o].pos = Got(t) /\ info[o].off = Got(t) + run[s].n
  BY <1>3 DEF Stands
<1>5. f \in Files /\ Got(t) <= Size[f] /\ Got(t) \in Nat
  <2>1. client[t].phase \in {"waiting", "done", "offline"}
    BY <1>2, ReplierPhase
  <2>. QED  BY <1>2, <2>1, PeerIsThere DEF PeerOK, BaseInv, ClientOK
<1>6. run[s].n \in Nat
  BY <1>1, HasObject
<1>7. SeekBack(Got(t) + run[s].n, run[s].n) = Got(t)
  BY <1>5, <1>6 DEF SeekBack
<1>8. Got(t) + 0 = Got(t) /\ Bytes(f, Got(t), Got(t)) = <<>>
  BY <1>5, NoBytes
<1>. PICK m : m = run'[s].n /\ m = 0
  BY <1>1
<1>9. /\ info'[o].pos = Got(t) /\ info'[o].off = Got(t) + m /\ Got(t) + m <= Size[f]
      /\ run'[s].bytes = Bytes(f, Got(t), Got(t) + m)
  BY <1>1, <1>4, <1>5, <1>7, <1>8
<1>. QED  BY <1>1, <1>2, <1>9, BlockReady DEF Runs

LEMMA ContentReadTimes == ASSUME BaseInv, AllTimes, NEW s \in Slots, fileContentRs_read(s) PROVE AllTimes'
<1>. PICK o, f, off : o = run[s].obj /\ f = info[o].file /\ off = info[o].off
  OBVIOUS
<1>1. /\ Runs(s, "advance") /\ run[s].result /\ SameClient /\ UNCHANGED m_mapTimstampToFileinfo
      /\ Changed(o) /\ info'[o].pos = info[o].pos + run[s].n /\ run'[s].obj = o
      /\ \/ /\ info'[o].off = End(f, off)
            /\ \/ AtEnd(info[o].pos + run[s].n, Size[f]) /\ GoesOn(s, "close")
               \/ GoesOn(s, "block")
            /\ run'[s].bytes = Bytes(f, off, End(f, off)) /\ run'[s].n \in Nat /\ off + run'[s].n = End(f, off)
         \/ GoesOn(s, "block") /\ run'[s].n = -1
  BY ContentReadDoes
<1>. PICK t \in Times : t = run[s].time
  BY <1>1, ReplierIs DEF ReplySteps
<1>2. Replies(s, t) /\ ReplyOK(s, t) /\ PeerOK(t) /\ run[s].step = "advance"
  BY <1>1, ReplierIs DEF ReplySteps, Runs
<1>3. /\ o = Held(t) /\ Held(t) # 0 /\ f = client[t].file /\ info[o].pos + run[s].n = Got(t) /\ off = Got(t)
      /\ client[t].phase # "done" => Got(t) < Size[f]
  BY <1>1, <1>2 DEF ReplyOK
<1>4. f \in Files /\ Got(t) <= Size[f] /\ Got(t) \in Nat /\ Size[f] \in Nat
  <2>1. client[t].phase \in {"waiting", "done", "offline"}
    BY <1>2, ReplierPhase
  <2>. QED  BY <1>2, <1>3, <2>1, PeerIsThere, DownloadAssumption DEF PeerOK, BaseInv, ClientOK
<1>5. CASE GoesOn(s, "block") /\ run'[s].n = -1
  <2>. PICK m : m = run'[s].n /\ m = -1
    BY <1>5
  <2>1. ~(m >= 0)
    OBVIOUS
  <2>. QED  BY <1>1, <1>2, <1>5, <2>1, BlockReady
<1>6. CASE /\ info'[o].off = End(f, off) /\ GoesOn(s, "block")
           /\ run'[s].bytes = Bytes(f, off, End(f, off)) /\ run'[s].n \in Nat /\ off + run'[s].n = End(f, off)
  <2>. PICK m \in Nat : m = run'[s].n
    BY <1>6
  <2>1. off + m = End(f, off) /\ off <= Size[f] /\ off \in Nat
    BY <1>3, <1>4, <1>6
  <2>2. Got(t) + m = End(f, off) /\ Got(t) + m <= Size[f]
    BY <1>3, <1>4, <2>1, EndOfRead
  <2>3. /\ info'[o].pos = Got(t) /\ info'[o].off = Got(t) + m
        /\ run'[s].bytes = Bytes(f, Got(t), Got(t) + m)
    BY <1>1, <1>3, <1>6, <2>2
  <2>4. SameClient /\ UNCHANGED m_mapTimstampToFileinfo /\ Changed(o) /\ GoesOn(s, "block")
    BY <1>1, <1>6
  <2>5. /\ info'[o].pos = Got(t) /\ info'[o].off = Got(t) + m /\ Got(t) + m <= Size[client[t].file]
        /\ run'[s].bytes = Bytes(client[t].file, Got(t), Got(t) + m)
    BY <1>3, <2>2, <2>3
  <2>. QED  BY <1>2, <2>4, <2>5, BlockReady
<1>7. CASE AtEnd(info[o].pos + run[s].n, Size[f]) /\ GoesOn(s, "close")
  <2>1. client[t].phase = "done"
    BY <1>3, <1>4, <1>7 DEF AtEnd
  <2>2. o \in 1..Len(info) /\ info[o].time = t
    BY <1>3 DEF BaseInv, MapOK
  <2>3. (\A u \in Times : Held(u)' = Held(u)) /\ (\A u \in Times \ {t} : Stay(u))
    BY <1>1, <2>2, ChangedStay, HeldIs
  <2>4. info'[o].file = client[t].file /\ Held(t)' = o /\ client' = client
    BY <1>1, <1>3, <2>3 DEF Changed, SameClient
  <2>5. PhaseOK(s, t)'
    BY <1>1, <1>2, <1>7, PhaseGoesOn
  <2>6. run'[s].step = "close"
    BY <1>7 DEF GoesOn
  <2>7. ReplyOK(s, t)'
    BY <1>1, <1>3, <2>1, <2>4, <2>5, <2>6 DEF ReplyOK
  <2>8. Held(t)' # 0 => info'[Held(t)'].file = client[t].file
    BY <2>4
  <2>9. Held(t)' = 0 => Quiet(t)' \/ Held(t) = 0
    BY <2>3
  <2>. QED  BY <1>1, <1>2, <1>7, <2>3, <2>7, <2>8, <2>9, Replying DEF ReplySteps
<1>. QED  BY <1>1, <1>5, <1>6, <1>7

LEMMA CloseTimes == ASSUME BaseInv, AllTimes, NEW s \in Slots, fileContentRs_close(s) PROVE AllTimes'
<1>. PICK o, t : o = run[s].obj /\ t = run[s].time
  OBVIOUS
<1>1. /\ Runs(s, "close") /\ SameClient /\ Ends(s) /\ Changed(o)
      /\ m_mapTimstampToFileinfo' = [m_mapTimstampToFileinfo EXCEPT ![user_time(t)] = 0]
      /\ m_mapTimstampToFileinfo' \in [Keys -> Nat]
  BY CloseDoes
<1>2. t \in Times /\ Replies(s, t) /\ ReplyOK(s, t) /\ PeerOK(t)
  BY <1>1, ReplierIs DEF ReplySteps
<1>3. o \in 1..Len(info) /\ info[o].time = t
  BY <1>1, HasObject
<1>4. Held(t)' = 0 /\ \A u \in Times \ {t} : Held(u)' = Held(u)
  BY <1>1, <1>2, <1>3, ClosedKeeps
<1>5. \A u \in Times \ {t} : Stay(u)
  BY <1>1, <1>2, <1>3, <1>4, ChangedStay
<1>6. client[t].phase = "done" /\ client' = client /\ epoch' = epoch
  BY <1>1, <1>2 DEF ReplyOK, Runs, SameClient
<1>7. Alone(s, t)
  BY <1>2, AloneReplies DEF AllTimes
<1>8. ~Replies(s, t)'
  BY <1>1, NoReply
<1>9. ASSUME NEW w \in Slots, w # s PROVE ~Replies(w, t)'
  <2>1. run'[w] = run[w] /\ ~Replies(w, t)
    BY <1>1, <1>7, <1>9 DEF Alone, Ends, Turns, OthersRun
  <2>. QED  BY <1>6, <2>1 DEF Replies, At
<1>10. Quiet(t)'
  BY <1>6, <1>8, <1>9 DEF Quiet
<1>. QED  BY <1>1, <1>2, <1>4, <1>5, <1>8, <1>10, Replying

LEMMA ContFindTimes == ASSUME BaseInv, AllTimes, NEW s \in Slots, continueDownload_find(s) PROVE AllTimes'
<1>1. /\ Runs(s, "continueDownload") /\ SameSessions /\ SameClient
      /\ GoesOn(s, "reopen") /\ run'[s].n = run[s].n
  BY ContFindDoes
<1>. PICK t \in Times : t = run[s].time
  BY <1>1, ReplierIs DEF ReplySteps
<1>2. Replies(s, t) /\ ReplyOK(s, t) /\ PeerOK(t)
  BY <1>1, ReplierIs DEF ReplySteps
<1>3. (\A u \in Times : Stay(u)) /\ Held(t)' = Held(t) /\ info' = info /\ client' = client /\ Got(t)' = Got(t)
  BY <1>1, StayAll DEF Stay, SameClient, SameSessions, Got
<1>4. PhaseOK(s, t)'
  BY <1>1, <1>2, PhaseGoesOn DEF Runs
<1>5. /\ run[s].n = Got(t) /\ run[s].file = client[t].file /\ client[t].phase # "done" /\ Got(t) < Size[client[t].file]
      /\ Held(t) # 0 => info[Held(t)].file = client[t].file
  BY <1>1, <1>2 DEF Runs, ReplyOK
<1>6. run'[s].step = "reopen" /\ run'[s].file = run[s].file
  BY <1>1 DEF GoesOn
<1>7. ReplyOK(s, t)'
  BY <1>1, <1>3, <1>4, <1>5, <1>6 DEF ReplyOK
<1>. QED  BY <1>1, <1>2, <1>3, <1>5, <1>7, Replying DEF ReplySteps

LEMMA ContOpenTimes == ASSUME BaseInv, AllTimes, NEW s \in Slots, continueDownload_open(s) PROVE AllTimes'
<1>1. /\ Runs(s, "reopen") /\ SameClient
      /\ \/ /\ Opened(run[s].time, run[s].file, run[s].n)
            /\ GoesOn(s, "seek") /\ run'[s].obj = Len(info) + 1 /\ run'[s].n = run[s].n
         \/ Ends(s) /\ SameSessions
  BY ContOpenDoes
<1>. PICK t \in Times : t = run[s].time
  BY <1>1, ReplierIs DEF ReplySteps
<1>. PICK f, n : f = run[s].file /\ n = run[s].n
  OBVIOUS
<1>2. Replies(s, t) /\ ReplyOK(s, t) /\ PeerOK(t)
  BY <1>1, ReplierIs DEF ReplySteps
<1>3. CASE Ends(s) /\ SameSessions
  BY <1>1, <1>3, EndsLeaves, NothingHappens
<1>4. CASE Opened(t, f, n) /\ GoesOn(s, "seek") /\ run'[s].obj = Len(info) + 1 /\ run'[s].n = n
  <2>1. /\ Held(t)' = Len(info) + 1 /\ Len(info) + 1 \in 1..Len(info') /\ info'[Len(info) + 1].file = f
        /\ \A u \in Times \ {t} : Stay(u)
    BY <1>1, <1>4, OpenedKeeps, OpenedStay
  <2>2. Len(info) + 1 # 0
    BY <2>1
  <2>3. n = Got(t) /\ f = client[t].file /\ client[t].phase # "done" /\ Got(t) < Size[client[t].file]
    BY <1>1, <1>2 DEF Runs, ReplyOK
  <2>4. PhaseOK(s, t)'
    BY <1>1, <1>2, <1>4, PhaseGoesOn DEF Runs
  <2>5. run'[s].step = "seek" /\ run'[s].file = f /\ client' = client /\ Got(t)' = Got(t)
    BY <1>1, <1>4 DEF GoesOn, SameClient, Got
  <2>6. ReplyOK(s, t)'
    BY <1>4, <2>1, <2>2, <2>3, <2>4, <2>5 DEF ReplyOK
  <2>7. Held(t)' # 0 /\ info'[Held(t)'].file = client[t].file
    BY <2>1, <2>2, <2>3
  <2>. QED  BY <1>1, <1>2, <1>4, <2>1, <2>6, <2>7, Replying DEF ReplySteps
<1>. QED  BY <1>1, <1>3, <1>4

LEMMA ContReadTimes == ASSUME BaseInv, AllTimes, NEW s \in Slots, continueDownload_read(s) PROVE AllTimes'
<1>. PICK o, f, n : o = run[s].obj /\ f = info[o].file /\ n = run[s].n
  OBVIOUS
<1>1. /\ Runs(s, "seek") /\ SameClient /\ UNCHANGED m_mapTimstampToFileinfo
      /\ Changed(o) /\ info'[o].pos = n
      /\ \/ Ends(s)
         \/ /\ info'[o].off = End(f, n) /\ GoesOn(s, "block")
            /\ run'[s].bytes = Bytes(f, n, End(f, n)) /\ run'[s].n \in Nat /\ n + run'[s].n = End(f, n)
  BY ContReadDoes
<1>. PICK t \in Times : t = run[s].time
  BY <1>1, ReplierIs DEF ReplySteps
<1>2. Replies(s, t) /\ ReplyOK(s, t) /\ PeerOK(t) /\ run[s].step = "seek"
  BY <1>1, ReplierIs DEF ReplySteps, Runs
<1>3. o = Held(t) /\ Held(t) # 0 /\ f = client[t].file /\ n = Got(t) /\ Got(t) < Size[f]
  BY <1>1, <1>2 DEF ReplyOK
<1>4. f \in Files /\ Got(t) <= Size[f] /\ Got(t) \in Nat
  <2>1. client[t].phase \in {"waiting", "done", "offline"}
    BY <1>2, ReplierPhase
  <2>. QED  BY <1>2, <1>3, <2>1, PeerIsThere, DownloadAssumption DEF PeerOK, BaseInv, ClientOK
<1>5. CASE Ends(s)
  <2>1. o \in 1..Len(info) /\ info[o].time = t
    BY <1>3 DEF BaseInv, MapOK
  <2>2. (\A u \in Times : Held(u)' = Held(u)) /\ (\A u \in Times \ {t} : Stay(u))
    BY <1>1, <2>1, ChangedStay, HeldIs
  <2>3. Held(t)' # 0 => info'[Held(t)'].file = client[t].file
    BY <1>1, <1>3, <2>2 DEF Changed
  <2>4. ~Replies(s, t)' /\ (Held(t)' = 0 => Quiet(t)' \/ Held(t) = 0)
    BY <1>5, <2>2, NoReply
  <2>. QED  BY <1>1, <1>2, <1>5, <2>2, <2>3, <2>4, Replying
<1>6. CASE /\ info'[o].off = End(f, n) /\ GoesOn(s, "block")
           /\ run'[s].bytes = Bytes(f, n, End(f, n)) /\ run'[s].n \in Nat /\ n + run'[s].n = End(f, n)
  <2>. PICK m \in Nat : m = run'[s].n
    BY <1>6
  <2>1. n + m = End(f, n) /\ n <= Size[f] /\ n \in Nat
    BY <1>3, <1>4, <1>6
  <2>2. Got(t) + m = End(f, n) /\ Got(t) + m <= Size[f]
    BY <1>3, <1>4, <2>1, EndOfRead
  <2>3. /\ info'[o].pos = Got(t) /\ info'[o].off = Got(t) + m
        /\ run'[s].bytes = Bytes(f, Got(t), Got(t) + m)
    BY <1>1, <1>3, <1>6, <2>2
  <2>. QED  BY <1>1, <1>2, <1>3, <1>6, <2>2, <2>3, BlockReady
<1>. QED  BY <1>1, <1>5, <1>6

LEMMA StoredIs ==
  ASSUME NEW c \in Peer, NEW r \in Handling, c.phase = "waiting", r.n >= 0
  PROVE  /\ Stored(c, r).file = c.file /\ Stored(c, r).got = c.got \o r.bytes
         /\ Stored(c, r).phase = "answer" /\ Stored(c, r).n = r.n
BY DEF Stored, Peer

LEMMA BlockTimes == ASSUME BaseInv, AllTimes, NEW s \in Slots, SendBlock(s) PROVE AllTimes'
<1>1. /\ Runs(s, "block") /\ SameSessions /\ Ends(s)
      /\ \/ run[s].epoch = epoch /\ Hears(run[s].time, Stored(client[run[s].time], run[s]))
         \/ SameClient
  BY BlockDoes
<1>. PICK t \in Times : t = run[s].time
  BY <1>1, AHandlerRuns DEF BaseInv, Runs
<1>2. CASE SameClient
  BY <1>1, <1>2, EndsLeaves, NothingHappens
<1>3. CASE run[s].epoch = epoch /\ Hears(t, Stored(client[t], run[s]))
  <2>. PICK c, r : c = client[t] /\ r = run[s]
    OBVIOUS
  <2>1. Replies(s, t) /\ TimeOK(t)
    BY <1>1, <1>3 DEF Replies, At, Runs, AllTimes
  <2>2. Alone(s, t) /\ ReplyOK(s, t) /\ PeerOK(t) /\ ~Quiet(t)
    BY <2>1, AloneReplies
  <2>3. c \in Peer /\ r \in Handling /\ c.got \in Seq(Piece) /\ Got(t) = Len(c.got) /\ Got(t) \in Nat /\ r.n \in Int
    BY <1>1, PeerIsThere, AHandlerRuns DEF BaseInv, Runs, Got
  <2>4. c.phase \in {"waiting", "done"}
    BY <1>3, <2>2 DEF ReplyOK, PhaseOK
  <2>5. Turns(s) /\ ~Walks(s)' /\ \A u \in Times : Leaves(s, u)
    BY <1>1, EndsLeaves
  <2>6. /\ \A u \in Times \ {t} : Stay(u)
        /\ Held(t)' = Held(t) /\ info' = info /\ epoch' = epoch /\ asked' = asked /\ client'[t] = Stored(c, r)
    BY <1>1, <1>3, HearsStay, SameSessionsKeep DEF Hears, SameSessions
  <2>7. PeerOK(t)'
    <3>1. CASE c.phase = "waiting" /\ r.n >= 0
      <4>. PICK f, m, b : f = c.file /\ m = r.n /\ b = r.bytes
        OBVIOUS
      <4>1. Stands(t, Got(t), Got(t) + m) /\ Got(t) + m <= Size[f] /\ b = Bytes(f, Got(t), Got(t) + m)
            /\ (Held(t) # 0 => info[Held(t)].file = f)
        BY <1>1, <2>2, <3>1 DEF ReplyOK, Runs
      <4>2. f \in Files /\ c.got = Bytes(f, 0, Got(t))
        BY <2>2, <3>1 DEF BaseInv, ClientOK, PeerOK
      <4>8. m \in Int /\ m >= 0 /\ Got(t) \in Nat
        <5>1. r.n \in Int /\ r.n >= 0 /\ Got(t) \in Nat
          BY <2>3, <3>1
        <5>. QED  BY <5>1
      <4>3. m \in Nat /\ Got(t) + m \in Nat /\ Got(t) <= Got(t) + m
        BY <4>8
      <4>4. c.got \o b = Bytes(f, 0, Got(t) + m)
        <5>. PICK g \in Nat : g = Got(t)
          BY <4>8
        <5>1. Bytes(f, 0, g) \o Bytes(f, g, g + m) = Bytes(f, 0, g + m)
          BY <4>2, <4>3, BytesJoin
        <5>2. Got(t) + m = g + m
          BY <4>8
        <5>3. c.got = Bytes(f, 0, g) /\ b = Bytes(f, g, g + m)
          BY <4>1, <4>2, <5>2
        <5>. QED  BY <5>1, <5>2, <5>3
      <4>5. Len(Bytes(f, 0, Got(t) + m)) = Got(t) + m
        BY <4>2, <4>3, FromStart
      <4>6. client'[t].file = f /\ client'[t].got = c.got \o b /\ client'[t].phase = "answer" /\ client'[t].n = m
        <5>1. c \in Peer /\ r \in Handling /\ c.phase = "waiting" /\ r.n >= 0 /\ client'[t] = Stored(c, r)
          BY <2>3, <2>6, <3>1
        <5>2. /\ Stored(c, r).file = c.file /\ Stored(c, r).got = c.got \o r.bytes
              /\ Stored(c, r).phase = "answer" /\ Stored(c, r).n = r.n
          BY <5>1, StoredIs
        <5>. QED  BY <5>1, <5>2
      <4>7. Got(t)' = Got(t) + m
        BY <4>4, <4>5, <4>6 DEF Got
      <4>. QED  BY <2>6, <4>1, <4>4, <4>6, <4>7, Zenon DEF PeerOK, Stands
    <3>2. CASE ~(c.phase = "waiting" /\ r.n >= 0)
      <4>1. client'[t] = c
        BY <2>4, <2>6, <3>2 DEF Stored
      <4>2. Got(t)' = Got(t)
        BY <4>1 DEF Got
      <4>. QED  BY <2>2, <2>6, <4>1, <4>2 DEF PeerOK, Stands
    <3>. QED  BY <3>1, <3>2, Zenon
  <2>8. TimeOK(t)'
    BY <2>2, <2>5, <2>6, <2>7, Solo DEF Leaves
  <2>. QED  BY <2>2, <2>5, <2>6, <2>8, TimesAreKept
<1>. QED  BY <1>1, <1>2, <1>3

LEMMA LostTimes == ASSUME BaseInv, AllTimes, NEW s \in Slots, lost(s) PROVE AllTimes'
BY LostDoes, EndsLeaves, NothingHappens

-----------------------------------------------------------------------------
(* The client's answers and requests, its connection and the process.       *)
Nobody(t) == \A w \in Slots : ~Replies(w, t) /\ ~Opens(w, t)

LEMMA NobodyReplies ==
  ASSUME AllTimes, NEW t \in Times, client[t].phase \in {"header", "answer"}
  PROVE  Nobody(t)
<1>1. ASSUME NEW w \in Slots PROVE ~Replies(w, t) /\ ~Opens(w, t)
  <2>1. Replies(w, t) => ReplyOK(w, t)
    BY DEF AllTimes, TimeOK
  <2>2. ReplyOK(w, t) => client[t].phase \in {"waiting", "done", "offline"}
    BY ReplierPhase
  <2>3. Opens(w, t) => client[t].phase \in {"none", "done"}
    BY DEF AllTimes, TimeOK, OpenerOK, Quiet
  <2>. QED  BY <2>1, <2>2, <2>3
<1>. QED  BY <1>1 DEF Nobody

LEMMA NobodyEarlier ==
  ASSUME BaseInv, AllTimes, NEW t \in Times, client[t].phase = "offline", ~Earlier(t)
  PROVE  Nobody(t)
<1>1. ASSUME NEW w \in Slots PROVE ~Replies(w, t) /\ ~Opens(w, t)
  <2>1. Replies(w, t) => ReplyOK(w, t)
    BY DEF AllTimes, TimeOK
  <2>2. ReplyOK(w, t) => run[w].epoch # epoch
    BY DEF ReplyOK, PhaseOK
  <2>3. Replies(w, t) /\ run[w].epoch # epoch => Earlier(t)
    BY DEF Replies, At, Earlier, ReplySteps
  <2>4. Opens(w, t) => client[t].phase \in {"none", "done"}
    BY DEF AllTimes, TimeOK, OpenerOK, Quiet
  <2>. QED  BY <2>1, <2>2, <2>3, <2>4
<1>. QED  BY <1>1 DEF Nobody

LEMMA Asking ==
  ASSUME BaseInv, AllTimes, NEW t \in Times, NEW c, Hears(t, c), SameSessions, Nobody(t),
         client[t].phase \in {"header", "answer", "offline"},
         NEW step \in ReplySteps, NEW f, NEW n, NEW result, Begins(step, t, f, n, result),
         PeerOK(t)', \A s \in Slots : Starts(s, step, t, f, n, result) => ReplyOK(s, t)'
  PROVE  AllTimes'
<1>. PICK s \in Slots : Starts(s, step, t, f, n, result)
  BY DEF Begins
<1>1. Turns(s) /\ run'[s].step = step /\ run'[s].time = t /\ epoch' = epoch /\ asked' = asked /\ ReplyOK(s, t)'
  BY DEF Starts, Hears
<1>2. ~Opens(s, t)' /\ ~Walks(s)' /\ \A u \in Times \ {t} : Leaves(s, u)
  <2>1. run'[s].step \in ReplySteps /\ run'[s].frames = <<>>
    BY <1>1 DEF Starts
  <2>. QED  BY <1>1, <2>1 DEF Opens, At, Walks, Works, Leaves, Replies, OpenSteps, WalkSteps, ReplySteps
<1>3. Alone(s, t)
  BY DEF Nobody, Alone
<1>4. TimeOK(t)'
  BY <1>1, <1>2, <1>3, Solo
<1>5. Held(t)' = Held(t) /\ ~Quiet(t) /\ \A u \in Times \ {t} : Stay(u)
  BY SameSessionsKeep, HearsStay DEF Quiet
<1>. QED  BY <1>1, <1>2, <1>4, <1>5, TimesAreKept

LEMMA HeaderRsTimes == ASSUME BaseInv, AllTimes, NEW t \in Times, sendHeaderRs(t) PROVE AllTimes'
<1>. PICK f : f = client[t].file
  OBVIOUS
<1>1. /\ client[t].phase = "header" /\ SameSessions /\ Hears(t, Phased(t, "waiting"))
      /\ Begins("downloadFileHeadRs", t, f, 0, TRUE)
  BY HeaderRsDoes
<1>2. PeerOK(t) /\ Nobody(t)
  BY <1>1, NobodyReplies DEF AllTimes, TimeOK
<1>3. client'[t].file = f /\ client'[t].got = client[t].got /\ client'[t].phase = "waiting" /\ epoch' = epoch
  BY <1>1, PhasedIs DEF BaseInv, Hears, Phases
<1>4. Held(t)' = Held(t) /\ info' = info /\ Got(t)' = Got(t)
  BY <1>1, <1>3, SameSessionsKeep DEF SameSessions, Got
<1>5. Got(t) = 0 /\ Stands(t, 0, 0) /\ (Held(t) # 0 => info[Held(t)].file = f)
  BY <1>1, <1>2 DEF PeerOK, Active
<1>6. PeerOK(t)'
  BY <1>1, <1>2, <1>3, <1>4, <1>5 DEF PeerOK
<1>7. ASSUME NEW s \in Slots, Starts(s, "downloadFileHeadRs", t, f, 0, TRUE) PROVE ReplyOK(s, t)'
  <2>1. run'[s].step = "downloadFileHeadRs" /\ run'[s].epoch = epoch
    BY <1>7 DEF Starts
  <2>. QED  BY <1>3, <1>4, <1>5, <2>1 DEF ReplyOK, PhaseOK, Stands
<1>. QED  BY <1>1, <1>2, <1>6, <1>7, Asking DEF ReplySteps

LEMMA ContentRsTimes == ASSUME BaseInv, AllTimes, NEW t \in Times, sendContentRs(t) PROVE AllTimes'
<1>. PICK f, n : f = client[t].file /\ n = client[t].n
  OBVIOUS
<1>. PICK phase \in Phases : phase = IF Has(client[t]) THEN "done" ELSE "waiting"
  BY DEF Phases
<1>1. /\ client[t].phase = "answer" /\ SameSessions /\ Hears(t, Phased(t, phase)) /\ f \in Files
      /\ Begins("fileContentRs", t, f, n, TRUE)
  BY ContentRsDoes
<1>2. PeerOK(t) /\ Nobody(t)
  BY <1>1, NobodyReplies DEF AllTimes, TimeOK
<1>3. client'[t].file = f /\ client'[t].got = client[t].got /\ client'[t].phase = phase /\ epoch' = epoch
  BY <1>1, PhasedIs DEF BaseInv, Hears
<1>4. Held(t)' = Held(t) /\ info' = info /\ Got(t)' = Got(t)
  BY <1>1, <1>3, SameSessionsKeep DEF SameSessions, Got
<1>5. /\ Held(t) # 0 /\ info[Held(t)].pos + n = Got(t) /\ info[Held(t)].off = Got(t) /\ info[Held(t)].file = f
      /\ Got(t) <= Size[f] /\ client[t].got = Bytes(f, 0, Got(t))
  BY <1>1, <1>2 DEF PeerOK, Active
<1>6. Got(t) \in Nat /\ Size[f] \in Nat
  BY <1>1, PeerIsThere, DownloadAssumption DEF BaseInv
<1>7. (phase = "done" => Got(t) = Size[f]) /\ (phase # "done" => Got(t) < Size[f]) /\ phase \in {"done", "waiting"}
  BY <1>1, <1>5, <1>6 DEF Has, Got
<1>8. PeerOK(t)'
  BY <1>3, <1>4, <1>5, <1>7 DEF PeerOK
<1>9. ASSUME NEW s \in Slots, Starts(s, "fileContentRs", t, f, n, TRUE) PROVE ReplyOK(s, t)'
  <2>1. run'[s].step = "fileContentRs" /\ run'[s].epoch = epoch /\ run'[s].n = n /\ run'[s].result
    BY <1>9 DEF Starts
  <2>2. PhaseOK(s, t)'
    BY <1>3, <1>7, <2>1 DEF PhaseOK
  <2>. QED  BY <1>3, <1>4, <1>5, <1>7, <2>1, <2>2 DEF ReplyOK
<1>. QED  BY <1>1, <1>2, <1>8, <1>9, Asking DEF ReplySteps

LEMMA WithoutIs ==
  ASSUME StateOK, NEW t \in Times, NEW n
  PROVE  /\ Without(t, n).file = client[t].file /\ Without(t, n).phase = "waiting"
         /\ Without(t, n).got = SubSeq(client[t].got, 1, Got(t) - n)
BY PeerIsThere DEF Without, Peer, Got

LEMMA RefuseTimes == ASSUME BaseInv, AllTimes, NEW t \in Times, refuse(t) PROVE AllTimes'
<1>. PICK f, n : f = client[t].file /\ n = client[t].n
  OBVIOUS
<1>1. /\ client[t].phase = "answer" /\ SameSessions /\ Hears(t, Without(t, n)) /\ f \in Files /\ n \in Nat
      /\ Begins("fileContentRs", t, f, n, FALSE)
  BY RefuseDoes
<1>2. PeerOK(t) /\ Nobody(t)
  BY <1>1, NobodyReplies DEF AllTimes, TimeOK
<1>3. /\ client'[t].file = f /\ client'[t].got = SubSeq(client[t].got, 1, Got(t) - n) /\ client'[t].phase = "waiting"
      /\ epoch' = epoch
  BY <1>1, WithoutIs DEF BaseInv, Hears
<1>4. Held(t)' = Held(t) /\ info' = info
  BY <1>1, SameSessionsKeep DEF SameSessions
<1>5. /\ Held(t) # 0 /\ info[Held(t)].pos + n = Got(t) /\ info[Held(t)].off = Got(t) /\ info[Held(t)].file = f
      /\ Got(t) <= Size[f] /\ client[t].got = Bytes(f, 0, Got(t))
  BY <1>1, <1>2 DEF PeerOK, Active
<1>. PICK p \in Nat : p = info[Held(t)].pos
  <2>1. Held(t) \in 1..Len(info)
    BY <1>5 DEF BaseInv, MapOK
  <2>. QED  BY <2>1, ObjectIsThere DEF BaseInv
<1>. PICK g \in Nat : g = Got(t)
  BY PeerIsThere DEF BaseInv
<1>6. p + n = g /\ g - n = p /\ p <= g /\ g <= Size[f] /\ Size[f] \in Nat /\ p <= Size[f]
  <2>1. p + n = g /\ g <= Size[f] /\ Size[f] \in Nat
    BY <1>1, <1>5, DownloadAssumption
  <2>. QED  BY <1>1, <2>1
<1>7. client'[t].got = Bytes(f, 0, p)
  <2>1. client[t].got = Bytes(f, 0, g) /\ Got(t) - n = p
    BY <1>5, <1>6
  <2>2. SubSeq(Bytes(f, 0, g), 1, p) = Bytes(f, 0, p)
    BY <1>1, <1>6, BytesCut
  <2>. QED  BY <1>3, <2>1, <2>2
<1>8. Got(t)' = p
  BY <1>1, <1>7, FromStart DEF Got
<1>9. PeerOK(t)'
  BY <1>3, <1>4, <1>5, <1>6, <1>7, <1>8 DEF PeerOK
<1>10. ASSUME NEW s \in Slots, Starts(s, "fileContentRs", t, f, n, FALSE) PROVE ReplyOK(s, t)'
  <2>1. run'[s].step = "fileContentRs" /\ run'[s].epoch = epoch /\ run'[s].n = n /\ ~run'[s].result
    BY <1>10 DEF Starts
  <2>2. PhaseOK(s, t)'
    BY <1>3, <2>1 DEF PhaseOK
  <2>3. Stands(t, p, p + n)'
    BY <1>4, <1>5, <1>6 DEF Stands
  <2>. QED  BY <1>3, <1>4, <1>5, <1>6, <1>8, <2>1, <2>2, <2>3 DEF ReplyOK
<1>. QED  BY <1>1, <1>2, <1>9, <1>10, Asking DEF ReplySteps

LEMMA ContinueTimes == ASSUME BaseInv, AllTimes, Calm', NEW t \in Times, sendContinue(t) PROVE AllTimes'
<1>. PICK f, n : f = client[t].file /\ n = Got(t)
  OBVIOUS
<1>1. /\ client[t].phase = "offline" /\ SameSessions /\ Hears(t, Phased(t, "waiting"))
      /\ Begins("continueDownload", t, f, n, TRUE)
  BY ContinueDoes
<1>2. ~Earlier(t)
  BY ContinueDoes DEF Calm, Worsens
<1>3. PeerOK(t) /\ Nobody(t)
  BY <1>1, <1>2, NobodyEarlier DEF AllTimes, TimeOK
<1>4. client'[t].file = f /\ client'[t].got = client[t].got /\ client'[t].phase = "waiting" /\ epoch' = epoch
  BY <1>1, PhasedIs DEF BaseInv, Hears, Phases
<1>5. Held(t)' = Held(t) /\ info' = info /\ Got(t)' = Got(t)
  BY <1>1, <1>4, SameSessionsKeep DEF SameSessions, Got
<1>6. /\ Held(t) # 0 => info[Held(t)].file = f
      /\ Got(t) <= Size[f] /\ client[t].got = Bytes(f, 0, Got(t)) /\ Got(t) < Size[f]
  BY <1>1, <1>3 DEF PeerOK
<1>7. PeerOK(t)'
  BY <1>4, <1>5, <1>6 DEF PeerOK
<1>8. ASSUME NEW s \in Slots, Starts(s, "continueDownload", t, f, n, TRUE) PROVE ReplyOK(s, t)'
  <2>1. run'[s].step = "continueDownload" /\ run'[s].epoch = epoch /\ run'[s].n = n /\ run'[s].file = f
    BY <1>8 DEF Starts
  <2>. QED  BY <1>4, <1>5, <1>6, <2>1 DEF ReplyOK, PhaseOK
<1>. QED  BY <1>1, <1>3, <1>7, <1>8, Asking DEF ReplySteps

(* Nobody has used the timestamps of a request that was not sent.           *)
LEMMA NotUsedBefore ==
  ASSUME BaseInv, OwnerInv, Apart, NEW r \in Requests, r \notin asked, NEW t \in Times, Own(r, t)
  PROVE  Held(t) = 0 /\ client[t].phase = "none" /\ Nobody(t) /\ Quiet(t) /\ ~FolderStarted(t)
<1>1. ~Started(t)
  <2>. SUFFICES ASSUME NEW q \in asked, Own(q, t) PROVE FALSE
    BY DEF Started
  <2>1. q \in Requests
    BY DEF BaseInv, StateOK
  <2>. QED  BY <2>1 DEF Apart
<1>2. Held(t) = 0 /\ client[t].phase = "none"
  BY <1>1 DEF OwnerInv
<1>3. \A w \in Slots : ~At(w, t)
  BY <1>1 DEF OwnerInv, HandlerOwns, At
<1>4. Nobody(t) /\ Quiet(t)
  BY <1>2, <1>3 DEF Nobody, Quiet, Replies, Opens
<1>5. ~FolderStarted(t)
  BY <1>1 DEF FolderStarted, Started, Own
<1>. QED  BY <1>2, <1>4, <1>5

LEMMA RequestTimes ==
  ASSUME BaseInv, OwnerInv, AllTimes, Apart, NEW r \in Requests, sendRequest(r)
  PROVE  AllTimes'
<1>. PICK t \in Times : t = r[1]
  BY DownloadAssumption
<1>. PICK f : f = r[2]
  OBVIOUS
<1>1. /\ r \notin asked /\ asked' = asked \cup {r} /\ SameSessions /\ UNCHANGED <<epoch, client>>
      /\ \/ f \in Folders /\ Begins("downloadFolderByDir", t, f, 0, TRUE)
         \/ f \in Files /\ f \notin Folders /\ Begins("downloadFile", t, f, 0, TRUE)
  BY RequestDoes
<1>2. \A u \in Times : Stay(u) /\ Held(u)' = Held(u)
  BY <1>1, SameSessionsKeep DEF Stay, SameSessions
<1>3. epoch' = epoch
  BY <1>1
<1>4. CASE f \in Folders /\ Begins("downloadFolderByDir", t, f, 0, TRUE)
  <2>. PICK s \in Slots : Starts(s, "downloadFolderByDir", t, f, 0, TRUE)
    BY <1>4 DEF Begins
  <2>1. Turns(s) /\ (\A u \in Times : Leaves(s, u))
    BY WalkLeaves DEF Starts, WalkSteps
  <2>2. ASSUME NEW u \in Times PROVE TimeOK(u)' /\ FreeOK(u)'
    <3>1. SameTime(u) /\ TimeOK(u)
      BY <1>2, <1>3, <2>1, OtherTime DEF AllTimes
    <3>2. TimeOK(u)' /\ (Quiet(u) => Quiet(u)')
      BY <3>1, SameTimeOK
    <3>3. ASSUME FolderStarted(u)' PROVE Quiet(u)
      <4>1. PICK q \in asked' : q[2] \in Folders /\ q[1] <= u
        BY <3>3 DEF FolderStarted
      <4>2. q \in Requests
        BY <1>1, <4>1 DEF BaseInv, StateOK
      <4>3. q = r
        BY <1>4, <4>1, <4>2, OneFolder
      <4>4. Own(r, u)
        BY <4>1, <4>3 DEF Own
      <4>. QED  BY <1>1, <4>4, NotUsedBefore
    <3>. QED  BY <3>2, <3>3 DEF FreeOK
  <2>. QED  BY <2>2 DEF AllTimes
<1>5. CASE f \in Files /\ f \notin Folders /\ Begins("downloadFile", t, f, 0, TRUE)
  <2>. PICK s \in Slots : Starts(s, "downloadFile", t, f, 0, TRUE)
    BY <1>5 DEF Begins
  <2>1. Turns(s) /\ run'[s].step = "downloadFile" /\ run'[s].time = t /\ run'[s].frames = <<>>
    BY DEF Starts
  <2>2. ~Walks(s)' /\ ~Replies(s, t)' /\ \A u \in Times \ {t} : Leaves(s, u)
    BY <2>1 DEF Walks, Replies, Leaves, Opens, At, WalkSteps, ReplySteps
  <2>3. Walked' => Walked
    BY <2>1, <2>2, WalkedStays
  <2>4. \A u \in Times : FolderStarted(u)' => FolderStarted(u)
    BY <1>1, <1>5 DEF FolderStarted
  <2>5. ASSUME NEW u \in Times, TimeOK(u)', Quiet(u) => Quiet(u)' PROVE FreeOK(u)'
    BY <1>2, <2>3, <2>4, <2>5 DEF AllTimes, FreeOK
  <2>6. ASSUME NEW u \in Times, u # t PROVE TimeOK(u)' /\ FreeOK(u)'
    <3>1. SameTime(u) /\ TimeOK(u)
      BY <1>2, <1>3, <2>1, <2>2, <2>6, OtherTime DEF AllTimes
    <3>2. TimeOK(u)' /\ (Quiet(u) => Quiet(u)')
      BY <3>1, SameTimeOK
    <3>. QED  BY <2>5, <3>2
  <2>7. Held(t) = 0 /\ client[t].phase = "none" /\ Nobody(t) /\ Quiet(t) /\ TimeOK(t)
    BY <1>1, <1>5, NotUsedBefore DEF Own, AllTimes
  <2>8. PeerOK(t)' /\ client'[t].phase \in {"none", "done"}
    BY <1>2, <2>7, OpenerKept
  <2>9. Alone(s, t)
    BY <2>7 DEF Nobody, Alone
  <2>10. ASSUME NEW w \in Slots, w # s PROVE ~Replies(w, t)'
    <3>1. run'[w] = run[w] /\ ~Replies(w, t)
      BY <2>1, <2>9, <2>10 DEF Alone, Turns, OthersRun
    <3>. QED  BY <1>3, <3>1 DEF Replies, At
  <2>11. Quiet(t)'
    BY <2>2, <2>8, <2>10 DEF Quiet
  <2>12. OpenerOK(s, t)'
    BY <1>2, <2>1, <2>7, <2>11 DEF OpenerOK
  <2>13. TimeOK(t)'
    BY <1>3, <2>1, <2>2, <2>8, <2>9, <2>12, Solo
  <2>. QED  BY <2>5, <2>6, <2>11, <2>13 DEF AllTimes
<1>. QED  BY <1>1, <1>4, <1>5

LEMMA DroppedIs ==
  ASSUME BaseInv, NEW t \in Times, Drops
  PROVE  /\ client'[t].file = client[t].file /\ client'[t].got = client[t].got /\ Got(t)' = Got(t)
         /\ client[t].phase \notin Active => client'[t] = client[t]
         /\ client[t].phase \in Active /\ Got(t) >= Size[client[t].file] => client'[t].phase = "done"
         /\ client[t].phase \in Active /\ ~(Got(t) >= Size[client[t].file]) => client'[t].phase = "offline"
<1>1. client'[t] = Dropped(t) /\ StateOK
  BY DEF Drops, BaseInv
<1>2. CASE client[t].phase \notin Active
  BY <1>1, <1>2 DEF Dropped, Got
<1>3. CASE client[t].phase \in Active
  <2>. PICK phase \in Phases : phase = IF Has(client[t]) THEN "done" ELSE "offline"
    BY DEF Phases
  <2>1. client'[t] = Phased(t, phase)
    BY <1>1, <1>3 DEF Dropped
  <2>2. client'[t].file = client[t].file /\ client'[t].got = client[t].got /\ client'[t].phase = phase
    BY <1>1, <2>1, PhasedIs
  <2>3. Has(client[t]) = (Got(t) >= Size[client[t].file])
    BY <1>3 DEF Has, Got, Active
  <2>. QED  BY <1>3, <2>2, <2>3 DEF Got
<1>. QED  BY <1>2, <1>3

LEMMA DroppedPeer ==
  ASSUME BaseInv, NEW t \in Times, Drops, PeerOK(t),
         Held(t)' = 0 \/ (Held(t)' = Held(t) /\ info' = info)
  PROVE  /\ PeerOK(t)' /\ client'[t].phase \in {"none", "offline", "done"}
         /\ client[t].phase \in {"none", "done"} => client'[t].phase = client[t].phase
         /\ client'[t].phase = "offline" => Got(t)' < Size[client[t].file]
<1>1. /\ client'[t].file = client[t].file /\ client'[t].got = client[t].got /\ Got(t)' = Got(t)
      /\ client[t].phase \notin Active => client'[t] = client[t]
      /\ client[t].phase \in Active /\ Got(t) >= Size[client[t].file] => client'[t].phase = "done"
      /\ client[t].phase \in Active /\ ~(Got(t) >= Size[client[t].file]) => client'[t].phase = "offline"
  BY DroppedIs
<1>2. client[t].phase \in Phases /\ Got(t) \in Nat
  BY PeerIsThere DEF BaseInv
<1>3. client'[t].phase \in {"none", "offline", "done"}
  BY <1>1, <1>2 DEF Phases, Active
<1>4. client[t].phase \in {"none", "done"} => client'[t].phase = client[t].phase
  BY <1>1 DEF Active
<1>5. client[t].phase # "none" => Size[client[t].file] \in Nat
  BY DownloadAssumption DEF BaseInv, ClientOK
<1>6. client'[t].phase = "offline" => Got(t) < Size[client[t].file]
  BY <1>1, <1>2, <1>5 DEF PeerOK, Active
<1>7. client'[t].phase = "done" => Got(t) = Size[client[t].file]
  BY <1>1, <1>2, <1>5 DEF PeerOK, Active
<1>8. client'[t].phase # "none" => Got(t) <= Size[client[t].file] /\ client[t].got = Bytes(client[t].file, 0, Got(t))
  BY <1>1 DEF PeerOK, Active
<1>9. client'[t].phase = "offline" /\ Held(t) # 0 => info[Held(t)].file = client[t].file
  BY <1>1 DEF PeerOK, Active
<1>. QED  BY <1>1, <1>3, <1>4, <1>6, <1>7, <1>8, <1>9 DEF PeerOK, Active

LEMMA DisconnectTimes == ASSUME BaseInv, AllTimes, disconnect PROVE AllTimes'
<1>1. SameSessions /\ run' = run /\ Drops
  BY DisconnectDoes
<1>2. epoch' = epoch + 1 /\ epoch \in Nat /\ asked' = asked /\ info' = info
  BY <1>1 DEF Drops, BaseInv, StateOK, SameSessions
<1>3. ASSUME NEW t \in Times PROVE TimeOK(t)' /\ FreeOK(t)'
  <2>1. Held(t)' = Held(t) /\ TimeOK(t) /\ PeerOK(t)
    BY <1>1, SameSessionsKeep DEF AllTimes, TimeOK
  <2>2. /\ PeerOK(t)' /\ client'[t].phase \in {"none", "offline", "done"}
        /\ client[t].phase \in {"none", "done"} => client'[t].phase = client[t].phase
        /\ client'[t].phase = "offline" => Got(t)' < Size[client[t].file]
    BY <1>1, <1>2, <2>1, DroppedPeer
  <2>3. client'[t].file = client[t].file /\ Got(t)' = Got(t)
        /\ (client[t].phase \notin Active => client'[t] = client[t])
        /\ (client[t].phase \in Active /\ Got(t) >= Size[client[t].file] => client'[t].phase = "done")
        /\ (client[t].phase \in Active /\ ~(Got(t) >= Size[client[t].file]) => client'[t].phase = "offline")
    BY <1>1, DroppedIs
(* The requests that are under way are of earlier connections now.          *)
  <2>4. ASSUME NEW w \in Slots, Replies(w, t)'
        PROVE  Replies(w, t) /\ run[w].step \in ReplySteps /\ run[w].epoch # epoch'
    <3>1. At(w, t) /\ run[w].epoch \in Nat /\ run[w].epoch <= epoch
      BY <1>1, <2>4, AHandlerRuns DEF Replies, At, BaseInv
    <3>2. run[w].epoch # epoch'
      BY <1>2, <3>1
    <3>3. run[w].step \in ReplySteps
      BY <1>1, <2>4, <3>2 DEF Replies
    <3>. QED  BY <3>1, <3>2, <3>3 DEF Replies
  <2>5. ASSUME NEW w \in Slots, Replies(w, t)' PROVE ReplyOK(w, t)'
    <3>. PICK h, c, d, g : h = run[w] /\ c = client[t] /\ d = client'[t] /\ g = Got(t)
      OBVIOUS
    <3>1. ReplyOK(w, t) /\ h.step \in ReplySteps /\ h.epoch # epoch' /\ run'[w] = h
      BY <1>1, <2>1, <2>4, <2>5 DEF TimeOK
    <3>2. c.phase \in {"waiting", "done", "offline"}
      BY <3>1, ReplierPhase
    <3>3. /\ d.file = c.file /\ d.phase \in {"done", "offline"} /\ (c.phase = "done" => d.phase = "done")
          /\ d.phase # "done" => c.phase # "done" /\ g < Size[c.file]
      <4>1. d.phase \in {"done", "offline"}
        BY <2>2, <2>3, <3>2 DEF Active
      <4>. QED  BY <2>2, <2>3, <4>1
    <3>4. PhaseOK(w, t)'
      BY <3>1, <3>3 DEF PhaseOK
    <3>5. h.step \in {"continueDownload", "reopen", "seek"} => d.phase # "done"
      <4>1. h.step \in {"continueDownload", "reopen", "seek"} => c.phase # "done" /\ g < Size[c.file]
        BY <3>1 DEF ReplyOK
      <4>2. c.phase # "none" /\ g \in Nat /\ Size[c.file] \in Nat
        BY <3>2, PeerIsThere, DownloadAssumption DEF BaseInv, ClientOK
      <4>3. g < Size[c.file] => ~(g >= Size[c.file])
        BY <4>2
      <4>. QED  BY <2>3, <3>2, <4>1, <4>3 DEF Active
    <3>6. ReplyOK(w, t)'
      BY <1>2, <2>1, <2>3, <3>1, <3>3, <3>4, <3>5 DEF ReplyOK, Stands, ReplySteps
    <3>. QED  BY <3>6
  <2>6. Quiet(t) => Quiet(t)'
    BY <2>2, <2>4 DEF Quiet
  <2>7. ASSUME NEW w \in Slots, Opens(w, t)' PROVE OpenerOK(w, t)'
    <3>1. run'[w] = run[w] /\ Opens(w, t) /\ OpenerOK(w, t)
      BY <1>1, <2>1, <2>7 DEF Opens, At, TimeOK
    <3>. QED  BY <1>2, <2>1, <2>6, <3>1 DEF OpenerOK, Is, Stands
  <2>8. \A w, v \in Slots : Replies(w, t)' /\ Replies(v, t)' => w = v
    BY <2>1, <2>4 DEF TimeOK
  <2>9. TimeOK(t)'
    BY <2>2, <2>5, <2>7, <2>8 DEF TimeOK
  <2>10. Walked' => Walked
    BY <1>1 DEF Walked, Walks, Works
  <2>. QED  BY <1>2, <2>1, <2>6, <2>9, <2>10, FreeKept DEF AllTimes
<1>. QED  BY <1>3 DEF AllTimes

LEMMA NobodyRuns ==
  ASSUME \A s \in Slots : run[s] = Idle, \A t \in Times : PeerOK(t)
  PROVE  AllTimes
BY DEF AllTimes, TimeOK, FreeOK, Walked, Walks, Works, Replies, Opens, At

LEMMA CrashTimes == ASSUME BaseInv, AllTimes, crash PROVE AllTimes'
<1>1. Drops /\ run' = [s \in Slots |-> Idle] /\ m_mapTimstampToFileinfo' = [key \in Keys |-> 0]
  BY CrashDoes
<1>2. \A t \in Times : Held(t)' = 0
  BY <1>1, TimesAre DEF Held
<1>3. \A t \in Times : PeerOK(t)'
  BY <1>1, <1>2, DroppedPeer DEF AllTimes, TimeOK
<1>4. \A s \in Slots : run'[s] = Idle
  BY <1>1
<1>. QED  BY <1>3, <1>4 DEF AllTimes, TimeOK, FreeOK, Walked, Walks, Works, Replies, Opens, At

LEMMA TimesInit == ASSUME Init PROVE TimesInv
<1>1. \A s \in Slots : run[s] = Idle
  BY DEF Init
<1>2. \A t \in Times : client[t].phase = "none"
  BY DEF Init
<1>3. \A t \in Times : PeerOK(t)
  BY <1>2 DEF PeerOK, Active
<1>. QED  BY <1>1, <1>3, NobodyRuns DEF TimesInv, AllTimes

LEMMA TimesStutter == ASSUME BaseInv, AllTimes, UNCHANGED vars PROVE AllTimes'
<1>1. UNCHANGED <<m_mapTimstampToFileinfo, info, run, epoch, asked, client>>
  BY DEF vars, memory, user
<1>2. ASSUME NEW t \in Times PROVE TimeOK(t)' /\ FreeOK(t)'
  <2>1. Stay(t) /\ epoch' = epoch /\ Held(t)' = Held(t)
    BY <1>1 DEF Stay, Held
  <2>2. SameTime(t) /\ TimeOK(t) /\ FreeOK(t)
    BY <1>1, <2>1 DEF SameTime, Replies, Opens, At, AllTimes
  <2>3. TimeOK(t)' /\ (Quiet(t) => Quiet(t)')
    BY <2>2, SameTimeOK
  <2>4. Walked' => Walked
    BY <1>1 DEF Walked, Walks, Works
  <2>. QED  BY <1>1, <2>1, <2>2, <2>3, <2>4, FreeKept
<1>. QED  BY <1>2 DEF AllTimes

LEMMA OnlyWorse ==
  ASSUME BaseInv, [Next]_vars
  PROVE  faults.seen \subseteq faults'.seen /\ (Calm /\ ~Calm' => \E t \in Times : Earlier(t))
<1>. DEFINE Worse == faults.seen \subseteq faults'.seen /\ (Calm /\ ~Calm' => \E t \in Times : Earlier(t))
<1>1. \A kinds : Worsens(kinds) /\ "overtaken" \notin kinds => Worse
  BY DEF Worsens, Calm
<1>2. \A o : Fails(o) => Worse
  BY <1>1 DEF Fails
<1>. HIDE DEF Worse
<1>3. \A s \in Slots :
        (downloadFolderByDir_select(s) \/ downloadFolderByDir_next(s) \/ downloadFolderByDir_find(s)) => Worse
  BY <1>1, SelectDoes, NextDoes, FreeDoes
<1>4. \A s \in Slots :
        (downloadFile_select(s) \/ downloadFile_open(s) \/ downloadFile_IsExist(s) \/ SendHeader(s)) => Worse
  BY <1>1, FileSelectDoes, OpenDoes, IsExistDoes, HeaderDoes
<1>5. \A s \in Slots : downloadFileHeadRs_find(s) \/ fileContentRs_find(s) => Worse
  BY <1>1, FindDoes DEF downloadFileHeadRs_find, fileContentRs_find
<1>6. \A s \in Slots : downloadFileHeadRs_read(s) => Worse
  BY <1>1, <1>2, FirstReadDoes
<1>7. \A s \in Slots : fileContentRs_refused(s) \/ fileContentRs_close(s) => Worse
  BY <1>1, RefusedDoes, CloseDoes
<1>8. \A s \in Slots : fileContentRs_read(s) => Worse
  BY <1>1, <1>2, ContentReadDoes
<1>9. \A s \in Slots : continueDownload_find(s) \/ continueDownload_open(s) => Worse
  BY <1>1, ContFindDoes, ContOpenDoes
<1>10. \A s \in Slots : continueDownload_read(s) => Worse
  BY <1>1, <1>2, ContReadDoes
<1>11. \A s \in Slots : SendBlock(s) \/ lost(s) => Worse
  BY <1>1, BlockDoes, LostDoes
<1>12. \A t \in Times : (sendHeaderRs(t) \/ sendContentRs(t) \/ refuse(t)) => Worse
  BY <1>1, HeaderRsDoes, ContentRsDoes, RefuseDoes
<1>13. ASSUME NEW t \in Times, sendContinue(t) PROVE Worse
  <2>1. (Earlier(t) /\ Worsens({"overtaken"})) \/ (~Earlier(t) /\ Worsens({}))
    BY <1>13, ContinueDoes
  <2>. QED  BY <1>1, <2>1 DEF Worse, Worsens
<1>14. (\A r \in Requests : sendRequest(r) => Worse) /\ (disconnect => Worse) /\ (crash => Worse)
  BY <1>1, RequestDoes, DisconnectDoes, CrashDoes
<1>15. UNCHANGED vars => Worse
  BY DEF Worse, vars, Calm
<1>16. Worse
  BY <1>3, <1>4, <1>5, <1>6, <1>7, <1>8, <1>9, <1>10, <1>11, <1>12, <1>14, <1>15, <1>13, Steps
<1>. QED  BY <1>16 DEF Worse

LEMMA TimesStep == ASSUME BaseInv, OwnerInv, TimesInv, Apart, [Next]_vars PROVE TimesInv'
<1>. SUFFICES ASSUME Calm' PROVE AllTimes'
  BY DEF TimesInv, AllTimes
<1>1. AllTimes
  BY OnlyWorse DEF TimesInv, AllTimes, Calm
<1>. QED
  BY <1>1, Steps, SelectTimes, NextTimes, FreeTimes, FileSelectTimes, OpenTimes, IsExistTimes, HeaderTimes, FindHeaderTimes,
     FirstReadTimes, FindContentTimes, RefusedTimes, ContentReadTimes, CloseTimes, ContFindTimes, ContOpenTimes,
     ContReadTimes, BlockTimes, LostTimes, HeaderRsTimes, ContentRsTimes, ContinueTimes, RefuseTimes, RequestTimes,
     DisconnectTimes, CrashTimes, TimesStutter
-----------------------------------------------------------------------------
(* SteadyInv.                                                               *)
Reopens(step) == step \in {"continueDownload", "reopen"}

LEMMA ReopensAre ==
  /\ Reopens("continueDownload") /\ Reopens("reopen")
  /\ \A step \in AllSteps : Reopens(step) => step \in ReplySteps
  /\ \A step : Reopens(step) => step \notin WalkSteps \cup OpenSteps
  /\ \A step \in {"downloadFileHeadRs", "first", "fileContentRs", "advance", "close", "seek", "block"} : ~Reopens(step)
BY DEF Reopens, ReplySteps, WalkSteps, OpenSteps

(* The handler of a slot goes on: it is of the client's connection, a       *)
(* session opens only where no other handler expects none, every open       *)
(* session stays in the map.                                                *)
LEMMA SteadyIsKept ==
  ASSUME AllSteady, NEW s \in Slots, Turns(s), epoch' = epoch,
         run'[s] # Idle => run'[s].epoch = epoch,
         \A t \in Times : At(s, t)' /\ Reopens(run'[s].step) => Held(t)' = 0,
         \A t \in Times : Held(t)' = 0 \/ Held(t)' = Held(t) \/ (Alone(s, t) /\ client'[t].phase # "offline"),
         \A t \in Times : client'[t].phase = "offline" => client[t].phase = "offline",
         NoneIsLost'
  PROVE  AllSteady'
<1>1. \A w \in Slots \ {s} : run'[w] = run[w]
  BY DEF Turns, OthersRun
<1>2. \A w \in Slots : run'[w] # Idle => run'[w].epoch = epoch'
  BY <1>1 DEF AllSteady
<1>3. ASSUME NEW w \in Slots, NEW t \in Times, At(w, t)', Reopens(run'[w].step) PROVE Held(t)' = 0
  <2>1. CASE w = s
    BY <1>3, <2>1
  <2>2. CASE w # s
    <3>1. run'[w] = run[w] /\ At(w, t) /\ Reopens(run[w].step)
      BY <1>1, <1>3, <2>2 DEF At
    <3>2. Held(t) = 0 /\ Replies(w, t)
      BY <3>1 DEF AllSteady, Reopens, Replies, ReplySteps
    <3>3. ~Alone(s, t)
      BY <2>2, <3>2 DEF Alone
    <3>. QED  BY <3>2, <3>3
  <2>. QED  BY <2>1, <2>2
<1>4. \A t \in Times : client'[t].phase = "offline" => Held(t)' = 0
  BY DEF AllSteady
<1>. QED  BY <1>2, <1>3, <1>4 DEF AllSteady, Reopens

LEMMA SameStaysOpen ==
  ASSUME AllSteady, SameSessions
  PROVE  /\ \A t \in Times : Held(t)' = Held(t)
         /\ NoneIsLost'
BY DEF AllSteady, NoneIsLost, SameSessions, Held

(* A handler that touches no session.                                       *)
LEMMA SteadyGoesOn ==
  ASSUME AllSteady, NEW s \in Slots, run[s] # Idle, Turns(s), SameSessions, epoch' = epoch,
         run'[s] # Idle => run'[s].epoch = run[s].epoch,
         run'[s] # Idle => ~Reopens(run'[s].step) \/ (Reopens(run[s].step) /\ run'[s].time = run[s].time),
         \A t \in Times : client'[t].phase = "offline" => client[t].phase = "offline"
  PROVE  AllSteady'
<1>1. run'[s] # Idle => run'[s].epoch = epoch
  BY DEF AllSteady
<1>2. \A t \in Times : At(s, t)' /\ Reopens(run'[s].step) => Held(t)' = 0
  BY SameStaysOpen DEF AllSteady, At, Reopens
<1>. QED  BY <1>1, <1>2, SameStaysOpen, SteadyIsKept

LEMMA SteadyEnds ==
  ASSUME AllSteady, NEW s \in Slots, run[s] # Idle, Ends(s), SameSessions, SameClient
  PROVE  AllSteady'
BY SteadyGoesOn DEF Ends, SameClient

LEMMA SteadyGoesBack ==
  ASSUME AllSteady, NEW s \in Slots, run[s] # Idle, GoesBack(s), SameSessions, epoch' = epoch,
         \A t \in Times : client'[t].phase = "offline" => client[t].phase = "offline"
  PROVE  AllSteady'
<1>. PICK frames : BackTo(s, frames)
  BY DEF GoesBack
<1>1. Turns(s) /\ (run'[s] # Idle => run'[s].epoch = run[s].epoch /\ run'[s].step = "next")
  BY DEF BackTo, Ends
<1>2. ~Reopens("next")
  BY DEF Reopens
<1>. QED  BY <1>1, <1>2, SteadyGoesOn

LEMMA SteadyMoves ==
  ASSUME AllSteady, NEW s \in Slots, run[s] # Idle, NEW t, Moves(s, t), SameSessions, SameClient
  PROVE  AllSteady'
<1>1. Turns(s) /\ run'[s].epoch = run[s].epoch /\ run'[s].step = "find"
  BY DEF Moves
<1>2. ~Reopens("find")
  BY DEF Reopens
<1>. QED  BY <1>1, <1>2, SteadyGoesOn DEF SameClient

LEMMA SteadyGoesTo ==
  ASSUME AllSteady, NEW s \in Slots, run[s] # Idle, NEW step, GoesOn(s, step), ~Reopens(step) \/ Reopens(run[s].step),
         SameSessions, SameClient
  PROVE  AllSteady'
<1>1. Turns(s) /\ run'[s].epoch = run[s].epoch /\ run'[s].step = step /\ run'[s].time = run[s].time
  BY DEF GoesOn
<1>. QED  BY <1>1, SteadyGoesOn DEF SameClient

LEMMA FolderSteady ==
  ASSUME BaseInv, AllSteady, NEW s \in Slots,
         \/ downloadFolderByDir_select(s) \/ downloadFolderByDir_next(s) \/ downloadFolderByDir_find(s)
         \/ downloadFile_select(s) \/ downloadFile_IsExist(s)
  PROVE  AllSteady'
<1>. DEFINE Plain == \/ GoesBack(s)
                     \/ \E t : Moves(s, t)
                     \/ \E step \in {"downloadFolderByDir", "downloadFile", "open", "header"} : GoesOn(s, step)
<1>1. downloadFolderByDir_select(s) => run[s] # Idle /\ SameSessions /\ SameClient /\ Plain
  BY SelectDoes DEF Runs
<1>2. downloadFolderByDir_next(s) => run[s] # Idle /\ SameSessions /\ SameClient /\ Plain
  BY NextDoes DEF Runs
<1>3. downloadFolderByDir_find(s) => run[s] # Idle /\ SameSessions /\ SameClient /\ Plain
  BY FreeDoes DEF Runs
<1>4. downloadFile_select(s) => run[s] # Idle /\ SameSessions /\ SameClient /\ Plain
  BY FileSelectDoes DEF Runs
<1>5. downloadFile_IsExist(s) => run[s] # Idle /\ SameSessions /\ SameClient /\ Plain
  BY IsExistDoes DEF Runs
<1>6. run[s] # Idle /\ SameSessions /\ SameClient /\ Plain
  BY <1>1, <1>2, <1>3, <1>4, <1>5
<1>7. \A step \in {"downloadFolderByDir", "downloadFile", "open", "header"} : ~Reopens(step)
  BY DEF Reopens
<1>8. epoch' = epoch /\ \A t \in Times : client'[t].phase = "offline" => client[t].phase = "offline"
  BY <1>6 DEF SameClient
<1>. QED  BY <1>6, <1>7, <1>8, SteadyGoesBack, SteadyMoves, SteadyGoesTo

LEMMA OpenedStays ==
  ASSUME BaseInv, AllSteady, NEW t \in Times, Held(t) = 0, NEW f, NEW pos, Opened(t, f, pos)
  PROVE  /\ \A u \in Times \ {t} : Held(u)' = Held(u)
         /\ NoneIsLost'
<1>1. /\ Held(t)' = Len(info) + 1 /\ \A u \in Times \ {t} : Held(u)' = Held(u)
      /\ info'[Len(info) + 1].time = t
  BY OpenedKeeps
<1>2. Len(info) \in Nat /\ Len(info') = Len(info) + 1 /\ \A o \in 1..Len(info) : info'[o] = info[o]
  BY LensAre DEF BaseInv, Opened
<1>3. ASSUME NEW o \in 1..Len(info'), info'[o].alive, NEW u, u = info'[o].time PROVE Held(u)' = o
  <2>1. CASE o = Len(info) + 1
    BY <1>1, <1>3, <2>1
  <2>2. CASE o \in 1..Len(info)
    <3>1. info'[o] = info[o] /\ Held(u) = o /\ o # 0 /\ u \in Times
      BY <1>2, <1>3, <2>2, ObjectIsThere DEF AllSteady, NoneIsLost, BaseInv
    <3>. QED  BY <1>1, <3>1
  <2>. QED  BY <1>2, <2>1, <2>2
<1>. QED  BY <1>1, <1>3 DEF NoneIsLost, Held

LEMMA OpenSteady ==
  ASSUME BaseInv, OwnerInv, AllTimes, AllSteady, NEW s \in Slots, downloadFile_open(s)
  PROVE  AllSteady'
<1>1. Runs(s, "open") /\ SameClient
      /\ \/ GoesOn(s, "IsExist") /\ Opened(run[s].time, run[s].file, 0)
         \/ GoesBack(s) /\ SameSessions
  BY OpenDoes
<1>2. run[s] # Idle /\ epoch' = epoch /\ client' = client
  BY <1>1 DEF Runs, SameClient
<1>3. CASE GoesBack(s) /\ SameSessions
  BY <1>2, <1>3, SteadyGoesBack
<1>4. CASE GoesOn(s, "IsExist") /\ Opened(run[s].time, run[s].file, 0)
  <2>. PICK t \in Times : t = run[s].time
    BY <1>2, AHandlerRuns DEF BaseInv
  <2>1. Works(s) /\ Opens(s, t)
    BY <1>1 DEF Runs, Works, Opens, At, OpenSteps
  <2>2. Held(t) = 0 /\ Quiet(t) /\ client[t].phase # "offline"
    BY <1>1, <2>1 DEF AllTimes, TimeOK, OpenerOK, Runs, Quiet
  <2>3. Alone(s, t)
    BY <2>1, <2>2, AloneOpens
  <2>4. Turns(s) /\ run'[s].epoch = run[s].epoch /\ run'[s].step = "IsExist" /\ ~Reopens("IsExist")
    BY <1>4 DEF GoesOn, Reopens
  <2>5. /\ \A u \in Times \ {t} : Held(u)' = Held(u)
        /\ NoneIsLost'
    BY <1>4, <2>2, OpenedStays
  <2>6. run'[s].epoch = epoch
    BY <1>2, <2>4 DEF AllSteady
  <2>. QED  BY <1>2, <2>2, <2>3, <2>4, <2>5, <2>6, SteadyIsKept
<1>. QED  BY <1>1, <1>3, <1>4

LEMMA HeaderSteady == ASSUME BaseInv, AllSteady, NEW s \in Slots, SendHeader(s) PROVE AllSteady'
<1>1. run[s] # Idle /\ SameSessions /\ GoesBack(s)
      /\ (Hears(run[s].time, Transfer(run[s].file)) \/ SameClient)
  BY HeaderDoes DEF Runs
<1>2. run[s].time \in Times
  BY <1>1, AHandlerRuns DEF BaseInv
<1>3. Transfer(run[s].file).phase = "header"
  BY DEF Transfer
<1>4. epoch' = epoch /\ \A t \in Times : client'[t].phase = "offline" => client[t].phase = "offline"
  BY <1>1, <1>2, <1>3 DEF Hears, SameClient
<1>. QED  BY <1>1, <1>4, SteadyGoesBack

LEMMA FindSteady ==
  ASSUME BaseInv, AllSteady, NEW s \in Slots, downloadFileHeadRs_find(s) \/ fileContentRs_find(s)
  PROVE  AllSteady'
<1>1. \E reply \in {"downloadFileHeadRs", "fileContentRs"}, step \in {"first", "advance"} : find(s, reply, step)
  BY DEF downloadFileHeadRs_find, fileContentRs_find
<1>2. PICK step \in {"first", "advance"} :
        run[s] # Idle /\ SameSessions /\ SameClient /\ (Ends(s) \/ GoesOn(s, step))
  BY <1>1, FindDoes DEF Runs
<1>3. ~Reopens(step)
  BY DEF Reopens
<1>. QED  BY <1>2, <1>3, SteadyEnds, SteadyGoesTo

LEMMA ChangedStays ==
  ASSUME BaseInv, AllSteady, NEW o \in 1..Len(info), Changed(o), info'[o].alive = info[o].alive,
         UNCHANGED m_mapTimstampToFileinfo
  PROVE  NoneIsLost' /\ \A t \in Times : Held(t)' = Held(t)
<1>1. (\A j \in 1..Len(info) : info'[j].alive = info[j].alive /\ info'[j].time = info[j].time)
      /\ (\A t : Held(t)' = Held(t)) /\ Len(info') = Len(info)
  BY DEF Changed, Held
<1>2. ASSUME NEW j \in 1..Len(info'), info'[j].alive, NEW u, u = info'[j].time PROVE Held(u)' = j
  BY <1>1, <1>2 DEF AllSteady, NoneIsLost
<1>. QED  BY <1>1, <1>2 DEF NoneIsLost, Held

(* A handler that uses the session it has found.                            *)
LEMMA SteadyUses ==
  ASSUME BaseInv, AllSteady, NEW s \in Slots, NEW o, o = run[s].obj,
         \E step \in {"first", "advance", "seek"} : Runs(s, step),
         Changed(o), info'[o].alive = info[o].alive, UNCHANGED m_mapTimstampToFileinfo, SameClient,
         Ends(s) \/ \E step \in {"block", "close"} : GoesOn(s, step)
  PROVE  AllSteady'
<1>1. o \in 1..Len(info)
  BY HasObject
<1>2. NoneIsLost' /\ \A t \in Times : Held(t)' = Held(t)
  BY <1>1, ChangedStays
<1>3. run[s] # Idle /\ epoch' = epoch /\ client' = client
  BY DEF Runs, SameClient
<1>4. Turns(s) /\ (run'[s] # Idle => run'[s].epoch = run[s].epoch /\ ~Reopens(run'[s].step))
  BY DEF Ends, GoesOn, Reopens
<1>5. run'[s] # Idle => run'[s].epoch = epoch
  BY <1>3, <1>4 DEF AllSteady
<1>6. \A t \in Times : At(s, t)' /\ Reopens(run'[s].step) => Held(t)' = 0
  BY <1>4 DEF At
<1>. QED  BY <1>2, <1>3, <1>4, <1>5, <1>6, SteadyIsKept

LEMMA FirstReadSteady ==
  ASSUME BaseInv, AllSteady, NEW s \in Slots, downloadFileHeadRs_read(s)
  PROVE  AllSteady'
<1>. PICK o, f, off : o = run[s].obj /\ f = info[o].file /\ off = info[o].off
  OBVIOUS
<1>1. Runs(s, "first") /\ SameClient /\ UNCHANGED m_mapTimstampToFileinfo
      /\ \/ Changed(o) /\ info'[o].alive = info[o].alive /\ GoesOn(s, "block")
         \/ Ends(s) /\ UNCHANGED info
  BY FirstReadDoes
<1>2. CASE Changed(o) /\ info'[o].alive = info[o].alive /\ GoesOn(s, "block")
  BY <1>1, <1>2, SteadyUses
<1>3. CASE Ends(s) /\ UNCHANGED info
  BY <1>1, <1>3, SteadyEnds DEF Runs, SameSessions
<1>. QED  BY <1>1, <1>2, <1>3

LEMMA ContentSteady ==
  ASSUME BaseInv, AllSteady, NEW s \in Slots, fileContentRs_refused(s) \/ fileContentRs_read(s)
  PROVE  AllSteady'
<1>. PICK o, f, off : o = run[s].obj /\ f = info[o].file /\ off = info[o].off
  OBVIOUS
<1>1. Runs(s, "advance") /\ SameClient /\ UNCHANGED m_mapTimstampToFileinfo
      /\ Changed(o) /\ info'[o].alive = info[o].alive /\ (GoesOn(s, "block") \/ GoesOn(s, "close"))
  BY RefusedDoes, ContentReadDoes
<1>. QED  BY <1>1, SteadyUses

LEMMA ContReadSteady ==
  ASSUME BaseInv, AllSteady, NEW s \in Slots, continueDownload_read(s)
  PROVE  AllSteady'
<1>. PICK o, f, n : o = run[s].obj /\ f = info[o].file /\ n = run[s].n
  OBVIOUS
<1>1. Runs(s, "seek") /\ SameClient /\ UNCHANGED m_mapTimstampToFileinfo
      /\ Changed(o) /\ info'[o].alive = info[o].alive /\ (GoesOn(s, "block") \/ Ends(s))
  BY ContReadDoes
<1>. QED  BY <1>1, SteadyUses

LEMMA CloseSteady ==
  ASSUME BaseInv, AllTimes, AllSteady, NEW s \in Slots, fileContentRs_close(s)
  PROVE  AllSteady'
<1>. PICK o, t : o = run[s].obj /\ t = run[s].time
  OBVIOUS
<1>1. /\ Runs(s, "close") /\ SameClient /\ Ends(s) /\ Changed(o) /\ info'[o].alive = FALSE
      /\ m_mapTimstampToFileinfo' = [m_mapTimstampToFileinfo EXCEPT ![user_time(t)] = 0]
      /\ m_mapTimstampToFileinfo' \in [Keys -> Nat]
  BY CloseDoes
<1>2. t \in Times /\ ReplyOK(s, t)
  BY <1>1, ReplierIs DEF ReplySteps
<1>3. o \in 1..Len(info) /\ info[o].time = t /\ o = Held(t)
  BY <1>1, <1>2, HasObject DEF ReplyOK, Runs
<1>4. Held(t)' = 0 /\ \A u \in Times \ {t} : Held(u)' = Held(u)
  BY <1>1, <1>2, <1>3, ClosedKeeps
<1>5. ASSUME NEW j \in 1..Len(info'), info'[j].alive, NEW u, u = info'[j].time PROVE Held(u)' = j
  <2>1. j \in 1..Len(info) /\ j # o /\ info'[j] = info[j]
    BY <1>1, <1>5 DEF Changed
  <2>2. Held(u) = j /\ u \in Times
    BY <1>5, <2>1, ObjectIsThere DEF AllSteady, NoneIsLost, BaseInv
  <2>. QED  BY <1>3, <1>4, <2>1, <2>2
<1>6. NoneIsLost'
  BY <1>5 DEF NoneIsLost, Held
<1>7. Turns(s) /\ run'[s] = Idle /\ epoch' = epoch /\ client' = client
  BY <1>1 DEF Ends, SameClient
<1>8. \A u \in Times : ~At(s, u)'
  BY <1>7 DEF At
<1>. QED  BY <1>4, <1>6, <1>7, <1>8, SteadyIsKept

LEMMA ContFindSteady ==
  ASSUME BaseInv, AllSteady, NEW s \in Slots, continueDownload_find(s)
  PROVE  AllSteady'
<1>1. Runs(s, "continueDownload") /\ run[s] # Idle /\ GoesOn(s, "reopen") /\ SameSessions /\ SameClient
  BY ContFindDoes DEF Runs
<1>2. Reopens(run[s].step)
  BY <1>1 DEF Reopens, Runs
<1>. QED  BY <1>1, <1>2, SteadyGoesTo

LEMMA ContOpenSteady ==
  ASSUME BaseInv, AllTimes, AllSteady, NEW s \in Slots, continueDownload_open(s)
  PROVE  AllSteady'
<1>1. Runs(s, "reopen") /\ SameClient
      /\ \/ GoesOn(s, "seek") /\ Opened(run[s].time, run[s].file, run[s].n)
         \/ Ends(s) /\ SameSessions
  BY ContOpenDoes
<1>2. run[s] # Idle /\ epoch' = epoch /\ client' = client
  BY <1>1 DEF Runs, SameClient
<1>3. CASE Ends(s) /\ SameSessions
  BY <1>1, <1>2, <1>3, SteadyEnds
<1>4. CASE GoesOn(s, "seek") /\ Opened(run[s].time, run[s].file, run[s].n)
  <2>. PICK t \in Times : t = run[s].time
    BY <1>2, AHandlerRuns DEF BaseInv
  <2>1. At(s, t) /\ Reopens(run[s].step) /\ Replies(s, t) /\ ReplyOK(s, t)
    BY <1>1, ReplierIs DEF Runs, At, Reopens, ReplySteps
  <2>2. Held(t) = 0 /\ run[s].epoch = epoch
    BY <1>2, <2>1 DEF AllSteady, Reopens
  <2>3. client[t].phase # "offline"
    BY <2>1, <2>2 DEF ReplyOK, PhaseOK
  <2>4. Alone(s, t)
    BY <2>1, AloneReplies DEF AllTimes
  <2>5. Turns(s) /\ run'[s].epoch = run[s].epoch /\ run'[s].step = "seek" /\ ~Reopens("seek")
    BY <1>4 DEF GoesOn, Reopens
  <2>6. NoneIsLost' /\ \A u \in Times \ {t} : Held(u)' = Held(u)
    BY <1>4, <2>2, OpenedStays
  <2>. QED  BY <1>2, <2>2, <2>3, <2>4, <2>5, <2>6, SteadyIsKept
<1>. QED  BY <1>1, <1>3, <1>4

LEMMA StoredPhase == \A c, r : Stored(c, r).phase = "offline" => c.phase = "offline"
BY DEF Stored

LEMMA BlockSteady ==
  ASSUME BaseInv, AllSteady, NEW s \in Slots, SendBlock(s) \/ lost(s)
  PROVE  AllSteady'
<1>1. run[s] # Idle /\ SameSessions /\ Ends(s)
      /\ (Hears(run[s].time, Stored(client[run[s].time], run[s])) \/ SameClient)
  BY BlockDoes, LostDoes DEF Runs
<1>2. run[s].time \in Times
  BY <1>1, AHandlerRuns DEF BaseInv
<1>3. epoch' = epoch /\ \A t \in Times : client'[t].phase = "offline" => client[t].phase = "offline"
  BY <1>1, <1>2, StoredPhase DEF Hears, SameClient
<1>. QED  BY <1>1, <1>3, SteadyGoesOn DEF Ends

(* A request of the client.                                                 *)
LEMMA SteadyBegins ==
  ASSUME AllSteady, SameSessions, epoch' = epoch, NEW step, NEW t, NEW f, NEW n, NEW result,
         Begins(step, t, f, n, result), Reopens(step) => Held(t) = 0,
         \A u \in Times : client'[u].phase = "offline" => client[u].phase = "offline"
  PROVE  AllSteady'
<1>. PICK s \in Slots : Starts(s, step, t, f, n, result)
  BY DEF Begins
<1>1. Turns(s) /\ run'[s].epoch = epoch /\ run'[s].step = step /\ run'[s].time = t
  BY DEF Starts
<1>2. \A u \in Times : At(s, u)' /\ Reopens(run'[s].step) => Held(u)' = 0
  BY <1>1, SameStaysOpen DEF At
<1>. QED  BY <1>1, <1>2, SameStaysOpen, SteadyIsKept

LEMMA ClientSteady ==
  ASSUME BaseInv, AllSteady, NEW t \in Times,
         sendHeaderRs(t) \/ sendContentRs(t) \/ sendContinue(t) \/ refuse(t)
  PROVE  AllSteady'
<1>1. \E step, f, n, result, c :
        /\ SameSessions /\ Hears(t, c) /\ c.phase # "offline" /\ Begins(step, t, f, n, result)
        /\ Reopens(step) => client[t].phase = "offline"
  <2>1. StateOK
    BY DEF BaseInv
  <2>2. Phased(t, "waiting").phase = "waiting" /\ Phased(t, "done").phase = "done"
    BY <2>1, PhasedIs DEF Phases
  <2>3. \A n : Without(t, n).phase = "waiting"
    BY <2>1, WithoutIs
  <2>4. ~Reopens("downloadFileHeadRs") /\ ~Reopens("fileContentRs")
    BY DEF Reopens
  <2>5. CASE sendHeaderRs(t)
    BY <2>2, <2>4, <2>5, HeaderRsDoes
  <2>6. CASE sendContentRs(t)
    BY <2>2, <2>4, <2>6, ContentRsDoes
  <2>7. CASE sendContinue(t)
    BY <2>2, <2>7, ContinueDoes
  <2>8. CASE refuse(t)
    BY <2>3, <2>4, <2>8, RefuseDoes
  <2>. QED  BY <2>5, <2>6, <2>7, <2>8
<1>. PICK step, f, n, result, c :
        /\ SameSessions /\ Hears(t, c) /\ c.phase # "offline" /\ Begins(step, t, f, n, result)
        /\ Reopens(step) => client[t].phase = "offline"
  BY <1>1
<1>2. epoch' = epoch /\ \A u \in Times : client'[u].phase = "offline" => client[u].phase = "offline"
  BY DEF Hears
<1>3. Reopens(step) => Held(t) = 0
  BY DEF AllSteady
<1>. QED  BY <1>2, <1>3, SteadyBegins

LEMMA RequestSteady ==
  ASSUME BaseInv, AllSteady, NEW r \in Requests, sendRequest(r)
  PROVE  AllSteady'
<1>1. PICK step \in {"downloadFolderByDir", "downloadFile"} :
        SameSessions /\ UNCHANGED <<epoch, client>> /\ Begins(step, r[1], r[2], 0, TRUE)
  BY RequestDoes
<1>2. ~Reopens(step)
  BY DEF Reopens
<1>. QED  BY <1>1, <1>2, SteadyBegins

(* After a restart there is neither session nor handler.                    *)
LEMMA EmptyIsSteady ==
  ASSUME \A s \in Slots : run[s] = Idle, \A t \in Times : Held(t) = 0, Len(info) = 0
  PROVE  AllSteady
BY DEF AllSteady, NoneIsLost, At

LEMMA CrashSteady == ASSUME BaseInv, crash PROVE AllSteady'
<1>1. info' = <<>> /\ run' = [s \in Slots |-> Idle] /\ m_mapTimstampToFileinfo' = [key \in Keys |-> 0]
  BY CrashDoes
<1>2. \A t \in Times : Held(t)' = 0
  BY <1>1, TimesAre DEF Held
<1>3. (\A s \in Slots : run'[s] = Idle) /\ Len(info') = 0
  BY <1>1
<1>. QED  BY <1>2, <1>3 DEF AllSteady, NoneIsLost, At

LEMMA SteadyInit == ASSUME Init PROVE SteadyInv
<1>1. (\A s \in Slots : run[s] = Idle) /\ Len(info) = 0
  BY DEF Init
<1>2. \A t \in Times : Held(t) = 0
  BY TimesAre DEF Init, Held
<1>. QED  BY <1>1, <1>2, EmptyIsSteady DEF SteadyInv, Calm, Init

LEMMA SteadyStutter == ASSUME AllSteady, UNCHANGED vars PROVE AllSteady'
<1>1. UNCHANGED <<m_mapTimstampToFileinfo, info, run, epoch, client>>
  BY DEF vars, memory, user
<1>. QED  BY <1>1 DEF AllSteady, NoneIsLost, At, Held

(* Without a reconnect there are no earlier requests.                       *)
LEMMA SteadyStep == ASSUME BaseInv, OwnerInv, TimesInv, SteadyInv, [Next]_vars PROVE SteadyInv'
<1>. SUFFICES ASSUME Steady' PROVE Calm' /\ AllSteady'
  BY DEF SteadyInv
<1>1. Steady
  BY OnlyWorse DEF Steady
<1>2. Calm /\ AllSteady /\ AllTimes
  BY <1>1 DEF SteadyInv, TimesInv, AllTimes
<1>3. \A t \in Times : ~Earlier(t)
  BY <1>2 DEF AllSteady, Earlier
<1>4. Calm'
  BY <1>2, <1>3, OnlyWorse
<1>5. ~disconnect
  BY DisconnectDoes DEF Worsens, Steady
<1>6. AllSteady'
  BY <1>2, <1>5, Steps, FolderSteady, OpenSteady, HeaderSteady, FindSteady, FirstReadSteady, ContentSteady, CloseSteady,
     ContFindSteady, ContOpenSteady, ContReadSteady, BlockSteady, ClientSteady, RequestSteady, CrashSteady, SteadyStutter
<1>. QED  BY <1>4, <1>6

-----------------------------------------------------------------------------
(* SizeInv.                                                                 *)
LEMMA SameSizes == ASSUME AllSizes, UNCHANGED info PROVE AllSizes'
BY DEF AllSizes

LEMMA OpenedSizes ==
  ASSUME BaseInv, AllSizes, NEW t, NEW f \in Files, NEW pos, Opened(t, f, pos)
  PROVE  AllSizes'
<1>1. Len(info) \in Nat /\ Len(info') = Len(info) + 1 /\ \A o \in 1..Len(info) : info'[o] = info[o]
  BY LensAre DEF BaseInv, Opened
<1>2. info'[Len(info) + 1].off = 0 /\ info'[Len(info) + 1].file = f
  BY DEF Opened
<1>3. 0 <= Size[f]
  BY DownloadAssumption
<1>4. ASSUME NEW o \in 1..Len(info') PROVE info'[o].off <= Size[info'[o].file]
  <2>1. CASE o = Len(info) + 1
    BY <1>2, <1>3, <2>1
  <2>2. CASE o \in 1..Len(info)
    BY <1>1, <2>2 DEF AllSizes
  <2>. QED  BY <1>1, <2>1, <2>2
<1>. QED  BY <1>4 DEF AllSizes

LEMMA ChangedSizes ==
  ASSUME AllSizes, NEW o \in 1..Len(info), Changed(o), info'[o].off <= Size[info[o].file]
  PROVE  AllSizes'
<1>1. ASSUME NEW j \in 1..Len(info') PROVE info'[j].off <= Size[info'[j].file]
  BY DEF Changed, AllSizes
<1>. QED  BY <1>1 DEF AllSizes

LEMMA OpenSizes ==
  ASSUME BaseInv, AllSizes, NEW s \in Slots, downloadFile_open(s) \/ continueDownload_open(s)
  PROVE  AllSizes'
<1>1. /\ Runs(s, "open") \/ Runs(s, "reopen")
      /\ SameSessions \/ \E pos : Opened(run[s].time, run[s].file, pos)
  BY OpenDoes, ContOpenDoes
<1>2. run[s].file \in Files
  BY <1>1 DEF Runs, BaseInv, HandlerOK, OpenSteps, ReplySteps
<1>. QED  BY <1>1, <1>2, SameSizes, OpenedSizes DEF SameSessions

LEMMA UsedObject ==
  ASSUME BaseInv, NEW s \in Slots, NEW step \in {"first", "advance", "close", "seek"}, Runs(s, step)
  PROVE  /\ run[s].obj \in 1..Len(info) /\ info[run[s].obj].file \in Files /\ info[run[s].obj].off \in Nat
         /\ Size[info[run[s].obj].file] \in Nat /\ run[s].n \in Nat
BY HasObject, DownloadAssumption

LEMMA FirstReadSizes == ASSUME BaseInv, AllSizes, NEW s \in Slots, downloadFileHeadRs_read(s) PROVE AllSizes'
<1>. PICK o, f, off : o = run[s].obj /\ f = info[o].file /\ off = info[o].off
  OBVIOUS
<1>1. Runs(s, "first") /\ (UNCHANGED info \/ (Changed(o) /\ info'[o].off = End(f, off)))
  BY FirstReadDoes
<1>2. o \in 1..Len(info) /\ f \in Files /\ off \in Nat /\ off <= Size[f]
  BY <1>1, UsedObject DEF AllSizes
<1>3. End(f, off) <= Size[f]
  BY <1>2, ReadIs
<1>. QED  BY <1>1, <1>2, <1>3, SameSizes, ChangedSizes

LEMMA RefusedSizes == ASSUME BaseInv, AllSizes, NEW s \in Slots, fileContentRs_refused(s) PROVE AllSizes'
<1>. PICK o, n : o = run[s].obj /\ n = run[s].n
  OBVIOUS
<1>. PICK f, off : f = info[o].file /\ off = info[o].off
  OBVIOUS
<1>1. Runs(s, "advance") /\ Changed(o) /\ info'[o].off = SeekBack(off, n)
  BY RefusedDoes
<1>2. o \in 1..Len(info) /\ off \in Nat /\ n \in Nat /\ off <= Size[f] /\ Size[f] \in Nat
  BY <1>1, UsedObject DEF AllSizes
<1>3. SeekBack(off, n) <= Size[f]
  BY <1>2 DEF SeekBack
<1>. QED  BY <1>1, <1>2, <1>3, ChangedSizes

(* A read that fails on an open descriptor ends what is said of the sizes.  *)
LEMMA ContentReadSizes ==
  ASSUME BaseInv, AllSizes, Fresh', NEW s \in Slots, fileContentRs_read(s)
  PROVE  AllSizes'
<1>. PICK o, f, off : o = run[s].obj /\ f = info[o].file /\ off = info[o].off
  OBVIOUS
<1>1. Runs(s, "advance") /\ Changed(o)
      /\ \/ info'[o].off = End(f, off)
         \/ Fails(o) /\ info'[o].off = IF info[o].alive THEN off + 1 ELSE off
  BY ContentReadDoes
<1>2. o \in 1..Len(info) /\ f \in Files /\ off \in Nat /\ off <= Size[f]
  BY <1>1, UsedObject DEF AllSizes
<1>3. Fails(o) => ~info[o].alive
  BY DEF Fails, Worsens, Fresh
<1>4. info'[o].off = End(f, off) \/ info'[o].off = off
  BY <1>1, <1>3
<1>5. info'[o].off <= Size[f]
  BY <1>2, <1>4, ReadIs
<1>. QED  BY <1>1, <1>2, <1>5, ChangedSizes

LEMMA CloseSizes == ASSUME BaseInv, AllSizes, NEW s \in Slots, fileContentRs_close(s) PROVE AllSizes'
<1>. PICK o, t : o = run[s].obj /\ t = run[s].time
  OBVIOUS
<1>1. Runs(s, "close") /\ Changed(o) /\ info'[o].off = info[o].off
  BY CloseDoes
<1>2. o \in 1..Len(info) /\ info'[o].off <= Size[info[o].file]
  BY <1>1, UsedObject DEF AllSizes
<1>. QED  BY <1>1, <1>2, ChangedSizes

(* A resume goes to where the client is, which is within the file.          *)
LEMMA ContReadSizes ==
  ASSUME BaseInv, AllTimes, AllSizes, NEW s \in Slots, continueDownload_read(s)
  PROVE  AllSizes'
<1>. PICK o, f, n, t : o = run[s].obj /\ f = info[o].file /\ n = run[s].n /\ t = run[s].time
  OBVIOUS
<1>1. Runs(s, "seek") /\ Changed(o) /\ (info'[o].off = n \/ info'[o].off = End(f, n))
  BY ContReadDoes
<1>2. o \in 1..Len(info) /\ f \in Files /\ n \in Nat /\ Size[f] \in Nat
  BY <1>1, UsedObject
<1>3. ReplyOK(s, t)
  BY <1>1, ReplierIs DEF ReplySteps
<1>4. o = Held(t) /\ Held(t) # 0 /\ n = Got(t) /\ Got(t) < Size[client[t].file] /\ f = client[t].file
  BY <1>1, <1>3 DEF ReplyOK, Runs
<1>5. n <= Size[f]
  BY <1>2, <1>4
<1>6. info'[o].off <= Size[f]
  BY <1>1, <1>2, <1>5, ReadIs
<1>. QED  BY <1>1, <1>2, <1>6, ChangedSizes

LEMMA SameInfo ==
  ASSUME BaseInv, [Next]_vars
  PROVE  \/ UNCHANGED info \/ info' = <<>>
         \/ \E s \in Slots : \/ downloadFile_open(s) \/ continueDownload_open(s) \/ downloadFileHeadRs_read(s)
                             \/ fileContentRs_refused(s) \/ fileContentRs_read(s) \/ fileContentRs_close(s)
                             \/ continueDownload_read(s)
<1>1. \A s \in Slots :
        (downloadFolderByDir_select(s) \/ downloadFolderByDir_next(s) \/ downloadFolderByDir_find(s)) => UNCHANGED info
  BY SelectDoes, NextDoes, FreeDoes DEF SameSessions
<1>2. \A s \in Slots :
        (downloadFile_select(s) \/ downloadFile_IsExist(s) \/ SendHeader(s)) => UNCHANGED info
  BY FileSelectDoes, IsExistDoes, HeaderDoes DEF SameSessions
<1>3. \A s \in Slots :
        (downloadFileHeadRs_find(s) \/ fileContentRs_find(s) \/ continueDownload_find(s)) => UNCHANGED info
  BY FindDoes, ContFindDoes DEF SameSessions, downloadFileHeadRs_find, fileContentRs_find
<1>4. \A s \in Slots : SendBlock(s) \/ lost(s) => UNCHANGED info
  BY BlockDoes, LostDoes DEF SameSessions
<1>5. \A t \in Times : (sendHeaderRs(t) \/ sendContentRs(t) \/ sendContinue(t) \/ refuse(t)) => UNCHANGED info
  BY HeaderRsDoes, ContentRsDoes, ContinueDoes, RefuseDoes DEF SameSessions
<1>6. (\A r \in Requests : sendRequest(r) => UNCHANGED info) /\ (disconnect => UNCHANGED info) /\ (crash => info' = <<>>)
  BY RequestDoes, DisconnectDoes, CrashDoes DEF SameSessions
<1>7. UNCHANGED vars => UNCHANGED info
  BY DEF vars, memory
<1>. QED  BY <1>1, <1>2, <1>3, <1>4, <1>5, <1>6, <1>7, Steps

LEMMA SizeStep == ASSUME BaseInv, TimesInv, SizeInv, [Next]_vars PROVE SizeInv'
<1>. SUFFICES ASSUME Fresh' PROVE AllSizes'
  BY DEF SizeInv
<1>1. Fresh
  BY OnlyWorse DEF Fresh
<1>2. AllSizes /\ AllTimes
  BY <1>1 DEF SizeInv, TimesInv, AllTimes, Fresh, Calm
<1>3. CASE UNCHANGED info
  BY <1>2, <1>3, SameSizes
<1>4. CASE info' = <<>>
  <2>1. Len(info') = 0
    BY <1>4
  <2>. QED  BY <2>1 DEF AllSizes
<1>. QED  BY <1>2, <1>3, <1>4, SameInfo, OpenSizes, FirstReadSizes, RefusedSizes, ContentReadSizes, CloseSizes, ContReadSizes

LEMMA SizeInit == ASSUME Init PROVE SizeInv
<1>1. Len(info) = 0
  BY DEF Init
<1>. QED  BY <1>1 DEF SizeInv, AllSizes
-----------------------------------------------------------------------------
(* The properties follow from the invariants.                               *)
AllInv == BaseInv /\ OwnerInv /\ TimesInv /\ SteadyInv /\ SizeInv

LEMMA KeysAre ==
  ASSUME NEW key \in Keys
  PROVE  (\E t \in Times : key = <<0, t>>) \/ (\E t \in Times : key = user_time(t))
BY DEF Keys, user_time

LEMMA MapIs ==
  ASSUME BaseInv, NEW key \in Keys, NEW o, o = m_mapTimstampToFileinfo[key]
  PROVE  o = 0 \/ (o \in 1..Len(info) /\ info[o].alive)
<1>1. CASE \E t \in Times : key = <<0, t>>
  BY <1>1 DEF BaseInv, MapOK
<1>2. CASE \E t \in Times : key = user_time(t)
  BY <1>2 DEF BaseInv, MapOK, Held
<1>. QED  BY <1>1, <1>2, KeysAre

LEMMA TypesFollow == ASSUME BaseInv, SizeInv PROVE TypeOK
<1>1. Len(info) \in Nat
  BY LensAre DEF BaseInv
<1>2. \A key \in Keys : m_mapTimstampToFileinfo[key] \in 0..Len(info)
  BY <1>1, MapIs
<1>3. ASSUME NEW s \in Slots, run[s] # Idle PROVE run[s].time \in Times /\ run[s].obj \in 0..Len(info)
  <2>1. run[s].time \in Times /\ run[s].obj \in Nat /\ HandlerOK(s)
    BY <1>3, AHandlerRuns DEF BaseInv
  <2>2. run[s].obj = 0 \/ run[s].obj \in 1..Len(info)
    BY <2>1 DEF HandlerOK
  <2>. QED  BY <1>1, <2>1, <2>2
<1>4. ASSUME NEW o \in 1..Len(info), Fresh PROVE info[o].off \in 0..Size[info[o].file]
  <2>1. info[o].off \in Nat /\ info[o].file \in Files
    BY ObjectIsThere DEF BaseInv
  <2>2. Size[info[o].file] \in Nat /\ info[o].off <= Size[info[o].file]
    BY <1>4, <2>1, DownloadAssumption DEF SizeInv, AllSizes
  <2>. QED  BY <2>1, <2>2
<1>. QED  BY <1>2, <1>3, <1>4 DEF TypeOK, Fresh

LEMMA SessionsFollow == ASSUME AllInv PROVE SessionsIntact
<1>1. TypeOK
  BY TypesFollow DEF AllInv
<1>2. ASSUME Calm, NEW t \in Times, NEW o, o = m_mapTimstampToFileinfo[user_time(t)], o # 0, client[t].phase \in Active
      PROVE  info[o].file = client[t].file
  BY <1>2 DEF AllInv, TimesInv, TimeOK, PeerOK, Held
<1>3. SessionIsTheClients
  BY <1>2 DEF SessionIsTheClients, Calm
<1>4. \A key \in Keys : LET o == m_mapTimstampToFileinfo[key] IN o # 0 => info[o].alive
  BY MapIs DEF AllInv
<1>5. Steady => \A o \in 1..Len(info) : info[o].alive => m_mapTimstampToFileinfo[user_time(info[o].time)] = o
  BY DEF AllInv, SteadyInv, AllSteady, NoneIsLost, Held
<1>6. MapHoldsLiveSessions
  BY <1>4, <1>5 DEF MapHoldsLiveSessions, Steady
<1>. QED  BY <1>1, <1>3, <1>6 DEF SessionsIntact

LEMMA PrefixFollows == ASSUME AllInv PROVE ClientHoldsPrefix
<1>1. ASSUME Calm, NEW t \in Times, client[t].phase # "none"
      PROVE  Len(client[t].got) <= Size[client[t].file] /\ client[t].got = Bytes(client[t].file, 0, Len(client[t].got))
  BY <1>1 DEF AllInv, TimesInv, TimeOK, PeerOK, Got
<1>. QED  BY <1>1 DEF ClientHoldsPrefix, Calm

LEMMA AllInit == Init => AllInv
BY BaseInit, OwnerInit, TimesInit, SteadyInit, SizeInit DEF AllInv

LEMMA AllStep == ASSUME Apart, AllInv, [Next]_vars PROVE AllInv'
BY BaseStep, OwnerStep, TimesStep, SteadyStep, SizeStep DEF AllInv

LEMMA AllHolds == Apart => (Spec => []AllInv)
<1>. SUFFICES ASSUME Apart PROVE Spec => []AllInv
  OBVIOUS
<1>1. AllInv /\ [Next]_vars => AllInv'
  BY AllStep
<1>. QED  BY <1>1, AllInit, PTL DEF Spec

-----------------------------------------------------------------------------
(* Whatever the requests, every variable has its type, the map leads from   *)
(* the key of a timestamp to an open FileInfo of that timestamp, and a      *)
(* handler only remembers objects that exist (downloadFile,                 *)
(* downloadFileHeadRs, fileContentRs, continueDownload).                    *)
THEOREM BaseHolds == Spec => []BaseInv
<1>1. BaseInv /\ [Next]_vars => BaseInv'
  BY BaseStep
<1>. QED  BY <1>1, BaseInit, PTL DEF Spec

(* For requests that do not compete for timestamps, the table of sessions   *)
(* (m_mapTimstampToFileinfo) tells the truth: each session is live, is for  *)
(* the file its client receives, stands within the file, and none that is   *)
(* open is lost, in the cases that the property names.                      *)
THEOREM SessionsIntactHolds == Apart => (Spec => []SessionsIntact)
<1>. SUFFICES ASSUME Apart PROVE Spec => []SessionsIntact
  OBVIOUS
<1>1. AllInv => SessionsIntact
  BY SessionsFollow
<1>. QED  BY <1>1, AllHolds, PTL

(* For such requests, what a client has of a file is a prefix of it, byte   *)
(* by byte, over refused blocks, failing reads, lost connections, restarts  *)
(* and resumes (downloadFileHeadRs, fileContentRs, continueDownload).       *)
THEOREM ClientHoldsPrefixHolds == Apart => (Spec => []ClientHoldsPrefix)
<1>. SUFFICES ASSUME Apart PROVE Spec => []ClientHoldsPrefix
  OBVIOUS
<1>1. AllInv => ClientHoldsPrefix
  BY PrefixFollows
<1>. QED  BY <1>1, AllHolds, PTL

(* The map and the sessions have no lock.  For such requests none is        *)
(* needed: until a client resumes beside its own old request, no two        *)
(* workers answer for the same timestamp at a time, and no worker opens a   *)
(* session while another answers for its timestamp.                         *)
OneWorkerPerTimestamp ==
  Calm => \A s, u \in Slots, t \in Times :
            Replies(s, t) /\ (Replies(u, t) \/ Opens(u, t)) => s = u
THEOREM OneWorkerPerTimestampHolds == Apart => (Spec => []OneWorkerPerTimestamp)
<1>. SUFFICES ASSUME Apart PROVE Spec => []OneWorkerPerTimestamp
  OBVIOUS
<1>1. ASSUME AllInv PROVE OneWorkerPerTimestamp
  BY <1>1 DEF AllInv, TimesInv, TimeOK, OpenerOK, Quiet, OneWorkerPerTimestamp
<1>. QED  BY <1>1, AllHolds, PTL
=============================================================================
