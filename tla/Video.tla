------------------------------- MODULE Video --------------------------------
(***************************************************************************)
(* Playing a video (src/src/clogic.cpp: playVideo; src/src/transcode.cpp). *)
(* The handler answers with the place of a play list.  When the directory  *)
(* for the content does not exist it makes it and runs ffmpeg, for as long *)
(* as that takes; when it exists it answers at once.                       *)
(***************************************************************************)
EXTENDS TcpKernel

CONSTANTS
  Contents,         \* the md5 of files
  user_file_info    \* the view: [u_id, f_id, f_md5]

VARIABLE hls        \* for each content "none", "dir" or, with a play list, "list"
videoVars == <<hls>>

(* Without a row the md5 is empty, and the directory is the common one.     *)
NoFile == "no file"
ASSUME VideoAssumption == NoFile \notin Contents /\ \A q \in user_file_info : q.f_md5 \in Contents
Directories == Contents \cup {NoFile}
HlsExists == hls[NoFile] # "none"

Rows(r) == {q \in user_file_info : q.u_id = r.u_id /\ q.f_id = r.f_id}
Md5(r) == IF Rows(r) = {} THEN NoFile ELSE (CHOOSE q \in Rows(r) : TRUE).f_md5

playVideo_select(s) ==
  /\ At(s, "playVideo", "select")
  /\ run' = [run EXCEPT ![s].step = "stat", ![s].md5 = Md5(Rq(s))]
  /\ UNCHANGED <<main, m_NetPackMap, reply, faults, videoVars>>

playVideo_fails(s) ==
  /\ At(s, "playVideo", "select")
  /\ Fault("select") /\ Return(s)
  /\ UNCHANGED <<main, m_NetPackMap, videoVars>>

Transcoded_always(m) == TRUE
Transcoded(m) == hls[m] # "none"

playVideo_stat(s) ==
  /\ At(s, "playVideo", "stat")
  /\ Goto(s, IF Transcoded(run[s].md5) THEN "reply" ELSE "mkdir")
  /\ UNCHANGED <<main, m_NetPackMap, reply, faults, videoVars>>

(* The result of mkdir is printed.  It fails when another viewer was first  *)
(* and when the common directory is missing.                                *)
playVideo_mkdir(s) ==
  /\ At(s, "playVideo", "mkdir")
  /\ LET m == run[s].md5
     IN  hls' = IF hls[m] = "none" /\ (m = NoFile \/ HlsExists)
                THEN [hls EXCEPT ![m] = "dir"] ELSE hls
  /\ Goto(s, "transcode")
  /\ UNCHANGED <<main, m_NetPackMap, reply, faults>>

(* ffmpeg needs a file to read and a directory to write to.                 *)
Failed_ignored(s, ok) == FALSE
Failed(s, ok) == ~ok
transcode(s) ==
  /\ At(s, "playVideo", "transcode")
  /\ LET m  == run[s].md5
         ok == m # NoFile /\ hls[m] # "none"
     IN  /\ hls' = IF ok THEN [hls EXCEPT ![m] = "list"] ELSE hls
         /\ IF Failed(s, ok) THEN Return(s) ELSE Goto(s, "reply") /\ UNCHANGED reply
  /\ UNCHANGED <<main, m_NetPackMap, faults>>

transcode_fails(s) ==
  /\ At(s, "playVideo", "transcode")
  /\ Fault("transcode") /\ Return(s)
  /\ UNCHANGED <<main, m_NetPackMap, videoVars>>

playVideo_reply(s) ==
  /\ At(s, "playVideo", "reply")
  /\ SendData(s, "play")
  /\ UNCHANGED <<main, m_NetPackMap, faults, videoVars>>

playVideo(s) ==
  \/ playVideo_select(s) \/ playVideo_stat(s) \/ playVideo_mkdir(s)
  \/ transcode(s) \/ playVideo_reply(s)

(* The common directory may or may not have been set up.                    *)
VideoInit == hls \in {[m \in Directories |-> IF m = NoFile THEN base ELSE "none"]
                      : base \in {"none", "dir"}}
=============================================================================
