----------------------------- MODULE TcpKernel ------------------------------
(***************************************************************************)
(* Start-up and dispatch (src/src/TCPKernel.cpp, main.cpp, err_str.cpp):   *)
(* the main thread opens the database and the network, fills the table of  *)
(* handlers and enters the event loop; from then on workers look the type  *)
(* of a packet up and run its handler.  One SQL statement, one call on the *)
(* disk or one access to a locked map is one action of a handler.          *)
(***************************************************************************)
EXTENDS Naturals, FiniteSets, Sequences

CONSTANTS
  Requests,       \* what clients may send, each at most once
  Waves,          \* those that one behaviour may have (a bound)
  Slots,          \* the packets that can be with a worker at a time
  MaxFaults       \* how many calls may fail, and how often the process may end

VARIABLES
  main,           \* where the main thread is
  m_NetPackMap,   \* the table of handlers
  run,            \* the handler in each slot
  reply,          \* what the client knows of each request
  faults          \* how many are left, and what there was to disturb

kernelVars == <<main, m_NetPackMap, run, reply, faults>>

ASSUME KernelAssumption ==
  MaxFaults \in Nat /\ Waves \subseteq SUBSET Requests /\ \A r \in Requests : r.type \in STRING

(* The table that CLogic sets; all other types have no handler.             *)
setNetPackMap ==
  [REGISTER_RQ |-> "RegisterRq", LOGIN_RQ |-> "LoginRq",
   UPLOAD_FILE_RQ |-> "uploadFile", FILE_CONTENT_RQ |-> "fileContentRq",
   FILE_LIST_RQ |-> "getFileList", DOWNLOAD_FILE_RQ |-> "downloadFile",
   DOWNLOAD_FOLDER_RQ |-> "downloadFileFolder", FILE_HEADER_RS |-> "downloadFileHeadRs",
   FILE_CONTENT_RS |-> "fileContentRs", ADD_FOLDER_RQ |-> "addFolder",
   SHARE_FILE_RQ |-> "shareFile", MY_SHARE_RQ |-> "getShareList",
   GET_SHARE_RQ |-> "getShareByLink", DELETE_FILE_RQ |-> "deleteFile",
   CONTINUE_DOWNLOAD_RQ |-> "continueDownload", CONTINUE_UPLOAD_RQ |-> "continueUpload",
   PLAY_VIDEO_RQ |-> "playVideo"]
Cleared == [type \in {} |-> "none"]

(* The numbers of the protocol; every other number is named OUTSIDE.        *)
InRange(type) == type # "OUTSIDE"

-----------------------------------------------------------------------------
Idle == [r |-> "none"]
At(s, fn, step) == run[s] # Idle /\ run[s].fn = fn /\ run[s].step = step
Rq(s) == run[s].r
Goto(s, step) == run' = [run EXCEPT ![s].step = step]

Seen(kinds) == faults.seen \cap kinds # {}
Disturb(kinds) == faults' = [faults EXCEPT !.seen = @ \cup kinds]
Fault(kind) ==
  /\ faults.left > 0
  /\ faults' = [left |-> faults.left - 1, seen |-> faults.seen \cup {kind}]

SendData(s, kind) ==
  /\ run' = [run EXCEPT ![s] = Idle]
  /\ reply' = [reply EXCEPT ![Rq(s)].kind = kind]
Return(s) == SendData(s, "dropped")

-----------------------------------------------------------------------------
(* Open, called by main.                                                    *)

Open_ConnectMysql ==
  /\ main = "start" /\ main' = "connected"
  /\ UNCHANGED <<m_NetPackMap, run, reply, faults>>

(* From here on clients can connect and send.                               *)
Open_InitNet ==
  /\ main = "connected" /\ main' = "listening"
  /\ UNCHANGED <<m_NetPackMap, run, reply, faults>>

Filled_clearedLast == Cleared
Filled == setNetPackMap
Open_setNetPackMap ==
  /\ main = "listening" /\ main' = "EventLoop"
  /\ m_NetPackMap' = Filled
  /\ UNCHANGED <<run, reply, faults>>

(* The process ends, and is started again.  The network's failure calls     *)
(* exit; the database's is returned to main, which does not look at it and  *)
(* enters the event loop without a network object.                          *)
KernelRestarts ==
  /\ main' = "start" /\ m_NetPackMap' = Cleared
  /\ run' = [s \in Slots |-> Idle]
  /\ reply' = [r \in Requests |-> IF reply[r].kind = "asked"
                                  THEN [reply[r] EXCEPT !.kind = "dropped"] ELSE reply[r]]
Open_fails == main \in {"start", "connected"} /\ Fault("open") /\ KernelRestarts
crash == main \in {"listening", "EventLoop"} /\ Fault("crash") /\ KernelRestarts

-----------------------------------------------------------------------------
(* A packet that is taken from the queue.  begin: the first step of its     *)
(* handler, with everything the handler remembers.                          *)

InProgress(r) == \E s \in Slots : run[s] # Idle /\ Rq(s) = r

HasHandler(type) == InRange(type) /\ type \in DOMAIN m_NetPackMap

DealData(r, begin, kinds) ==
  /\ main = "EventLoop"
  /\ reply[r].kind = "asked" /\ ~InProgress(r)
  /\ \E s \in Slots :
       /\ run[s] = Idle /\ \A t \in Slots : t < s => run[t] # Idle
       /\ IF HasHandler(r.type)
          THEN /\ run' = [run EXCEPT ![s] = begin]
               /\ Disturb(kinds)
               /\ UNCHANGED reply
          ELSE reply' = [reply EXCEPT ![r].kind = "ignored"] /\ UNCHANGED <<run, faults>>
  /\ UNCHANGED <<main, m_NetPackMap>>

KernelInit ==
  /\ main = "start" /\ m_NetPackMap = Cleared
  /\ run = [s \in Slots |-> Idle]
  /\ \E wave \in Waves :
       reply = [r \in Requests |-> [kind |-> IF r \in wave THEN "none" ELSE "never", sure |-> "none"]]
  /\ faults = [left |-> MaxFaults, seen |-> {}]
=============================================================================
