------------------------------ MODULE Service -------------------------------
(***************************************************************************)
(* The kernel with accounts and videos: from the start of the process to   *)
(* the answer of each request, with two workers' handlers interleaved,     *)
(* calls that fail, and the process ending and being started again.  The   *)
(* handlers for files have modules of their own.                           *)
(***************************************************************************)
EXTENDS Accounts, Video

vars == <<kernelVars, accountVars, videoVars>>

Handler(s) ==
  \/ RegisterRq(s) /\ UNCHANGED videoVars
  \/ LoginRq(s) /\ UNCHANGED videoVars
  \/ playVideo(s) /\ UNCHANGED accountVars

HandlerFails(s) ==
  \/ (RegisterRq_fails(s) \/ LoginRq_fails(s)) /\ UNCHANGED videoVars
  \/ (playVideo_fails(s) \/ transcode_fails(s)) /\ UNCHANGED accountVars

First == [RegisterRq |-> "exists", LoginRq |-> "select", playVideo |-> "select"]

(* The handlers that are not here have modules of their own.                *)
ASSUME ServiceAssumption ==
  \A r \in Requests : r.type \in DOMAIN setNetPackMap => setNetPackMap[r.type] \in DOMAIN First

Begin(r) ==
  LET fn == setNetPackMap[r.type]
  IN  [r |-> r, fn |-> fn, step |-> First[fn], id |-> 0, info |-> 0, md5 |-> NoFile]

Registering(tel) ==
  \E s \in Slots : run[s] # Idle /\ run[s].fn = "RegisterRq" /\ Rq(s).tel = tel
Twice(r) ==
  IF r.type = "REGISTER_RQ" /\ Registering(r.tel) THEN {"twice"} ELSE {}

Deal(r) == DealData(r, Begin(r), Twice(r)) /\ UNCHANGED <<accountVars, videoVars>>

(* The client.  sure: what a login must be answered, when the client of     *)
(* that number has been told that it is registered.                         *)
Promised(tel) ==
  {q \in Requests : q.type = "REGISTER_RQ" /\ q.tel = tel /\ reply[q].kind = "register_success"}
Sure(r) ==
  IF r.type # "LOGIN_RQ" \/ Promised(r.tel) = {} THEN "none"
  ELSE IF \E q \in Promised(r.tel) : q.password = r.password THEN "login_success"
       ELSE "password_error"

Send(r) ==
  /\ main \in {"listening", "EventLoop"}
  /\ reply[r].kind = "none"
  /\ reply' = [reply EXCEPT ![r] = [kind |-> "asked", sure |-> Sure(r)]]
  /\ UNCHANGED <<main, m_NetPackMap, run, faults, accountVars, videoVars>>

Open == Open_ConnectMysql \/ Open_InitNet \/ Open_setNetPackMap
Restart == (Open_fails \/ crash) /\ NobodyOnline /\ UNCHANGED <<t_user, homes, videoVars>>

Init == KernelInit /\ AccountsInit /\ VideoInit
Next == \/ Open /\ UNCHANGED <<accountVars, videoVars>>
        \/ Restart
        \/ \E r \in Requests : Send(r) \/ Deal(r)
        \/ \E s \in Slots : Handler(s) \/ HandlerFails(s)

(* The main thread and the workers go on; ffmpeg comes to an end.           *)
FairSpec ==
  /\ Init /\ [][Next]_vars
  /\ WF_vars(Open /\ UNCHANGED <<accountVars, videoVars>>)
  /\ WF_vars(\E r \in Requests : Deal(r))
  /\ \A s \in Slots : WF_vars(Handler(s))

-----------------------------------------------------------------------------
RegisterAnswers == {"user_is_exist", "register_success", "register_error"}
LoginAnswers == {"user_not_exist", "password_error", "login_success"}
Answers == RegisterAnswers \cup LoginAnswers \cup {"play"}

(* Types, and: every handler that runs was looked up in the full table, and *)
(* remembers the id of an account and an object that exist.                 *)
TypeOK ==
  /\ main \in {"start", "connected", "listening", "EventLoop"}
  /\ m_NetPackMap \in {Cleared, setNetPackMap}
  /\ \A r \in Requests : reply[r].kind \in {"never", "none", "asked", "dropped", "ignored"} \cup Answers
  /\ homes \subseteq Ids
  /\ \A i \in DOMAIN m_mapIdToUserinfo : m_mapIdToUserinfo[i] \in 1..Len(heap)
  /\ hls \in [Directories -> {"none", "dir", "list"}] /\ hls[NoFile] # "list"
  /\ \A s \in Slots : run[s] # Idle =>
       /\ m_NetPackMap = setNetPackMap /\ setNetPackMap[Rq(s).type] = run[s].fn
       /\ run[s].id \in Ids \cup {0} /\ run[s].info \in 0..Len(heap)
       /\ run[s].md5 \in Directories /\ reply[Rq(s)].kind = "asked"

(* Of all who register one number at most one is told that it is theirs,    *)
(* even when both have found it free and both accounts were inserted, and   *)
(* it has the directory of the account that its number stands for.          *)
OneOwner ==
  \A tel \in {r.tel : r \in {q \in Requests : q.type = "REGISTER_RQ"}} :
    /\ Cardinality(Promised(tel)) <= 1
    /\ Promised(tel) # {} => FirstId(tel) \in homes

(* Who was told that it is registered gets in with its password, and nobody *)
(* with another one, whatever failed and over restarts; unless a query of   *)
(* the login failed, or two registered the number at once and the schema    *)
(* let them.                                                                *)
OwnerGetsIn ==
  \A r \in Requests :
    r.type = "LOGIN_RQ" /\ reply[r].sure # "none" /\ reply[r].kind \in LoginAnswers
    /\ ~Seen({"login"}) /\ (UniqueTel \/ ~Seen({"twice"}))
      => reply[r].kind = reply[r].sure

(* The entry of a user is about that user, names a client that logged in as *)
(* that user, and the user has a directory or its registration is about to  *)
(* make it; unless that was broken off.                                     *)
LoggedIn(client, tel) ==
  \E r \in Requests :
    /\ r.type = "LOGIN_RQ" /\ r.client = client /\ r.tel = tel
    /\ reply[r].kind = "login_success" \/ InProgress(r)
OnlineIsALogin ==
  \A i \in DOMAIN m_mapIdToUserinfo :
    LET info == heap[m_mapIdToUserinfo[i]]
    IN  /\ info.userid = i /\ LoggedIn(info.clientfd, t_user[i].u_tel)
        /\ ~Seen({"register", "crash"}) => i \in homes \/ Registering(t_user[i].u_tel)

(* Where a client is sent to, there is a complete play list, or one that is *)
(* being written for another viewer; unless the transcoding was broken off. *)
Transcoding(m) == \E s \in Slots : At(s, "playVideo", "transcode") /\ run[s].md5 = m
PathLeadsToList ==
  [][\A r \in Requests :
       reply[r].kind = "asked" /\ reply'[r].kind = "play" /\ Md5(r) # NoFile
       /\ ~Seen({"transcode", "crash"})
         => hls[Md5(r)] = "list" \/ Transcoding(Md5(r))]_vars

(* In the end every request that was sent is answered, when its type is     *)
(* known; what may be missing is the answer to a viewer, or of a process    *)
(* that has ended.                                                          *)
Settled(r) ==
  \/ reply[r].kind \in {"never", "none"} \cup Answers
  \/ reply[r].kind = "ignored" /\ r.type \notin DOMAIN setNetPackMap
  \/ reply[r].kind = "dropped" /\ (r.type = "PLAY_VIDEO_RQ" \/ Seen({"open", "crash"}))
KnownIsAnswered == <>[](\A r \in Requests : Settled(r))
=============================================================================
