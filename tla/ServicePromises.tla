--------------------------- MODULE ServicePromises ---------------------------
(***************************************************************************)
(* The four safety promises of Service, each from an invariant of its own  *)
(* relative to KernelInv of ServiceProofs.                                 *)
(*                                                                         *)
(*   OwnerInv   who is told, or about to be told, that a number is its own *)
(*              has found the directory of the number's first account free *)
(*              and made it; no two of one number have                     *)
(*   VideoInv   a directory without a play list is being filled            *)
(*   LoginInv   the password of a number's first account is that of who    *)
(*              registered it, and what every login is compared with       *)
(*   HomeInv    an account without a directory has a registration under way *)
(*   OnlineInv  an entry of the table of users, or an object on its way into *)
(*              it, is of one user and names a client that came in as it   *)
(***************************************************************************)
EXTENDS ServiceProofs

-----------------------------------------------------------------------------
(* Who has been told that a number is its own, or is about to be told. *)
HasIt(q) ==
  \/ reply[q].kind = "register_success"
  \/ \E s \in Slots : At(s, "RegisterRq", "reply") /\ Rq(s) = q

Registrations == {q \in Requests : q.type = "REGISTER_RQ"}

(* The directory is what decides: it is there once somebody has the number. *)
OwnerInv ==
  /\ \A q \in Registrations : HasIt(q) => Registered(q.tel) /\ FirstId(q.tel) \in homes
  /\ \A p, q \in Registrations : p.tel = q.tel /\ HasIt(p) /\ HasIt(q) => p = q


LEMMA OwnerInvInit == Init => OwnerInv
BY DEF Init, KernelInit, OwnerInv, HasIt, At, Registrations

(* A step that makes nobody new an owner. *)
LEMMA OwnerKept ==
  ASSUME OwnerInv, \A q \in Registrations : HasIt(q)' => HasIt(q),
         \A tel : Registered(tel) => Registered(tel)' /\ FirstId(tel)' = FirstId(tel),
         homes \subseteq homes'
  PROVE  OwnerInv'
BY DEF OwnerInv

LEMMA NotAnOwner ==
  ASSUME KernelInv, NEW s \in Slots, run[s] # Idle,
         \/ \E k \in Kinds \ {"register_success"} : Ended(s, k)
         \/ \E step \in Steps : WentOn(s, step) /\ (run[s].fn # "RegisterRq" \/ step # "reply")
  PROVE  \A q \in Registrations : HasIt(q)' => HasIt(q)
<1>. SUFFICES ASSUME NEW q \in Registrations, HasIt(q)' PROVE HasIt(q)
  OBVIOUS
<1>1. Rq(s) \in Requests /\ q \in Requests
  BY DEF KernelInv, StateOK, Running, Rq, Registrations
<1>2. CASE reply'[q].kind = "register_success"
  BY <1>1, <1>2 DEF Ended, WentOn, HasIt
<1>3. ASSUME NEW t \in Slots, At(t, "RegisterRq", "reply")', Rq(t)' = q
      PROVE  HasIt(q)
  <2>1. t # s
    BY <1>3 DEF Ended, WentOn, At
  <2>2. run'[t] = run[t]
    BY <2>1 DEF Ended, WentOn
  <2>. QED  BY <1>3, <2>2 DEF At, Rq, HasIt
<1>. QED  BY <1>2, <1>3 DEF HasIt

LEMMA OwnerInvStep == KernelInv /\ OwnerInv /\ [Next]_vars => OwnerInv'
<1>. SUFFICES ASSUME KernelInv, OwnerInv, [Next]_vars PROVE OwnerInv'
  OBVIOUS
<1>1. CASE Open /\ UNCHANGED <<accountVars, videoVars>>
  BY <1>1, OpenDoes, SameAccounts, OwnerKept DEF HasIt, At, Rq, KernelInv
<1>2. CASE Restart
  <2>1. \A q \in Registrations : HasIt(q)' => HasIt(q)
    BY <1>2, RestartDoes DEF HasIt, At, Registrations
  <2>. QED  BY <1>2, <2>1, RestartDoes, SameAccounts, OwnerKept DEF KernelInv
<1>3. ASSUME NEW r \in Requests, Send(r) PROVE OwnerInv'
  <2>1. \A q \in Registrations : HasIt(q)' => HasIt(q)
    <3>1. /\ run' = run /\ reply'[r].kind = "asked"
          /\ \A q \in Requests \ {r} : reply'[q] = reply[q]
      BY <1>3, SendDoes
    <3>. QED  BY <3>1 DEF HasIt, At, Rq, Registrations
  <2>. QED  BY <1>3, <2>1, SendDoes, SameAccounts, OwnerKept DEF KernelInv
<1>4. ASSUME NEW r \in Requests, Deal(r) PROVE OwnerInv'
  <2>1. \A q \in Registrations : HasIt(q)' => HasIt(q)
    <3>1. ASSUME NEW s \in Slots, Started(s, r)
          PROVE  \A q \in Registrations : HasIt(q)' => HasIt(q)
      <4>1. run'[s].step # "reply" /\ reply' = reply /\ \A t \in Slots \ {s} : run'[t] = run[t]
        BY <3>1 DEF Started, First, Running, HandlerNames
      <4>. QED  BY <4>1 DEF HasIt, At, Rq
    <3>2. ASSUME run' = run, reply'[r].kind = "ignored",
                 \A q \in Requests \ {r} : reply'[q] = reply[q]
          PROVE  \A q \in Registrations : HasIt(q)' => HasIt(q)
      BY <3>2 DEF HasIt, At, Rq, Registrations
    <3>. QED  BY <1>4, <3>1, <3>2, DealDoes
  <2>. QED  BY <1>4, <2>1, DealDoes, SameAccounts, OwnerKept DEF KernelInv
<1>5. ASSUME NEW s \in Slots, RegisterRq_exists(s), UNCHANGED videoVars PROVE OwnerInv'
  <2>1. /\ RestKept /\ UNCHANGED homes
        /\ \/ \E k \in Kinds \ {"register_success"} : Ended(s, k)
           \/ \E step \in Steps : WentOn(s, step) /\ (run[s].fn # "RegisterRq" \/ step # "reply")
    BY <1>5, Register_exists, AtIsThere DEF RegisterRq_exists, Steps, Kinds, Answers, RegisterAnswers, LoginAnswers
  <2>2. run[s] # Idle
    BY <1>5, AtIsThere DEF RegisterRq_exists
  <2>. QED  BY <2>1, <2>2, NotAnOwner, OwnerKept DEF RestKept
<1>6. ASSUME NEW s \in Slots, RegisterRq_insert(s), UNCHANGED videoVars PROVE OwnerInv'
  <2>1. /\ RestKept /\ UNCHANGED homes
        /\ \/ \E k \in Kinds \ {"register_success"} : Ended(s, k)
           \/ \E step \in Steps : WentOn(s, step) /\ (run[s].fn # "RegisterRq" \/ step # "reply")
    BY <1>6, Register_insert, AtIsThere DEF RegisterRq_insert, Steps, Kinds, Answers, RegisterAnswers, LoginAnswers
  <2>2. run[s] # Idle
    BY <1>6, AtIsThere DEF RegisterRq_insert
  <2>. QED  BY <2>1, <2>2, NotAnOwner, OwnerKept DEF RestKept
<1>7. ASSUME NEW s \in Slots, RegisterRq_selectId(s), UNCHANGED videoVars PROVE OwnerInv'
  <2>1. /\ RestKept /\ UNCHANGED homes
        /\ \/ \E k \in Kinds \ {"register_success"} : Ended(s, k)
           \/ \E step \in Steps : WentOn(s, step) /\ (run[s].fn # "RegisterRq" \/ step # "reply")
    BY <1>7, Register_selectId, AtIsThere DEF RegisterRq_selectId, Steps, Kinds, Answers, RegisterAnswers, LoginAnswers
  <2>2. run[s] # Idle
    BY <1>7, AtIsThere DEF RegisterRq_selectId
  <2>. QED  BY <2>1, <2>2, NotAnOwner, OwnerKept DEF RestKept
<1>8. ASSUME NEW s \in Slots, RegisterRq_mkdir(s), UNCHANGED videoVars PROVE OwnerInv'
  <2>1. /\ RestKept /\ Registered(Rq(s).tel) /\ homes' = homes \cup {FirstId(Rq(s).tel)}
        /\ \/ WentOn(s, "reply") /\ FirstId(Rq(s).tel) \notin homes
           \/ Ended(s, "register_error")
    BY <1>8, Register_mkdir
  <2>2. run[s] # Idle /\ Rq(s) \in Registrations
    BY <1>8, AtIsThere DEF RegisterRq_mkdir, Registrations
  <2>3. CASE Ended(s, "register_error")
    BY <2>1, <2>2, <2>3, NotAnOwner, OwnerKept DEF RestKept, Kinds, Answers, RegisterAnswers
  <2>4. CASE WentOn(s, "reply") /\ FirstId(Rq(s).tel) \notin homes
    <3>1. \A q \in Registrations : HasIt(q)' => HasIt(q) \/ q = Rq(s)
      BY <2>4 DEF WentOn, HasIt, At, Rq
    <3>2. \A q \in Registrations : q.tel = Rq(s).tel => ~HasIt(q)
      BY <2>4 DEF OwnerInv
    <3>3. PICK x \in Registrations : x = Rq(s)
      BY <2>2
    <3>4. Registered(x.tel)' /\ FirstId(x.tel)' \in homes'
      BY <2>1, <3>3 DEF RestKept
    <3>5. \A q \in Registrations : HasIt(q)' => Registered(q.tel)' /\ FirstId(q.tel)' \in homes'
      BY <2>1, <3>1, <3>3, <3>4 DEF OwnerInv, RestKept
    <3>6. \A p, q \in Registrations : p.tel = q.tel /\ HasIt(p)' /\ HasIt(q)' => p = q
      BY <3>1, <3>2 DEF OwnerInv
    <3>. QED  BY <3>5, <3>6 DEF OwnerInv
  <2>. QED  BY <2>1, <2>3, <2>4
<1>9. ASSUME NEW s \in Slots, RegisterRq_reply(s), UNCHANGED videoVars PROVE OwnerInv'
  <2>1. RestKept /\ UNCHANGED homes /\ Ended(s, "register_success")
    BY <1>9, Register_reply
  <2>2. run[s] # Idle /\ Rq(s) \in Registrations /\ HasIt(Rq(s))
    BY <1>9, AtIsThere DEF RegisterRq_reply, Registrations, HasIt
  <2>3. \A q \in Registrations : HasIt(q)' => HasIt(q)
    BY <2>1, <2>2 DEF HasIt, Ended, At, Rq, Registrations
  <2>. QED  BY <2>1, <2>3, OwnerKept DEF RestKept
<1>10. ASSUME NEW s \in Slots, RegisterRq_fails(s), UNCHANGED videoVars PROVE OwnerInv'
  <2>1. /\ RestKept /\ UNCHANGED homes
        /\ \/ \E k \in Kinds \ {"register_success"} : Ended(s, k)
           \/ \E step \in Steps : WentOn(s, step) /\ (run[s].fn # "RegisterRq" \/ step # "reply")
    BY <1>10, Register_fails, AtIsThere DEF RegisterRq_fails, Steps, Kinds, Answers, RegisterAnswers, LoginAnswers
  <2>2. run[s] # Idle
    BY <1>10, AtIsThere DEF RegisterRq_fails
  <2>. QED  BY <2>1, <2>2, NotAnOwner, OwnerKept DEF RestKept
<1>11. ASSUME NEW s \in Slots, LoginRq(s) \/ LoginRq_fails(s), UNCHANGED videoVars PROVE OwnerInv'
  BY <1>11, LoginSteps, NotAnOwner, OwnerKept DEF RestKept, Kinds, Answers, LoginAnswers
<1>12. ASSUME NEW s \in Slots, playVideo(s) \/ playVideo_fails(s) \/ transcode_fails(s),
              UNCHANGED accountVars
       PROVE  OwnerInv'
  BY <1>12, ViewerSteps, NotAnOwner, OwnerKept DEF RestKept, Kinds, Answers
<1>13. CASE UNCHANGED vars
  <2>1. UNCHANGED <<run, reply, t_user, homes>>
    BY <1>13 DEF vars, kernelVars, accountVars
  <2>. QED  BY <2>1, SameAccounts, OwnerKept DEF HasIt, At, Rq, KernelInv
<1>. QED  BY <1>1, <1>2, <1>3, <1>4, <1>5, <1>6, <1>7, <1>8, <1>9, <1>10, <1>11, <1>12, <1>13
          DEF Next, Handler, HandlerFails, RegisterRq

LEMMA OwnerInvariant == FairSpec => []OwnerInv
BY OwnerInvInit, OwnerInvStep, KernelInvariant, PTL DEF FairSpec

(* Of several who register a number at once at most one is told that it is  *)
(* its own, whatever fails, and then the number has its directory.          *)
THEOREM OneOwnerHolds == FairSpec => []OneOwner
<1>1. OwnerInv => OneOwner
  <2>. SUFFICES ASSUME OwnerInv, NEW r \in Registrations
                PROVE  /\ Cardinality(Promised(r.tel)) <= 1
                       /\ Promised(r.tel) # {} => FirstId(r.tel) \in homes
    BY DEF OneOwner, Registrations
  <2>1. \A q \in Promised(r.tel) : q \in Registrations /\ q.tel = r.tel /\ HasIt(q)
    BY DEF Promised, Registrations, HasIt
  <2>2. \A p, q \in Promised(r.tel) : p = q
    BY <2>1 DEF OwnerInv
  <2>3. CASE Promised(r.tel) = {}
    BY <2>3, FS_EmptySet
  <2>4. CASE Promised(r.tel) # {}
    <3>1. PICK q : Promised(r.tel) = {q}
      BY <2>2, <2>4
    <3>2. Cardinality({q}) = 1
      BY FS_Singleton
    <3>. QED  BY <2>1, <3>1, <3>2 DEF OwnerInv
  <2>. QED  BY <2>3, <2>4
<1>. QED  BY <1>1, OwnerInvariant, PTL

-----------------------------------------------------------------------------
(* A viewer who goes on has asked for the content it waits for.  A directory *)
(* without a play list is being filled by a transcoding.                     *)
ViewsAt(s, steps) == run[s] # Idle /\ run[s].fn = "playVideo" /\ run[s].step \in steps
ViewerOK(s) ==
  /\ ViewsAt(s, {"stat", "mkdir", "transcode", "reply"}) => run[s].md5 = Md5(Rq(s))
  /\ ViewsAt(s, {"reply"}) /\ run[s].md5 # NoFile => hls[run[s].md5] # "none"
BeingFilled(m) == hls[m] = "dir" => Transcoding(m)
VideoInv ==
  /\ ~Seen({"transcode", "crash"}) => \A m \in Contents : BeingFilled(m)
  /\ \A s \in Slots : ViewerOK(s)

LEMMA VideoInvInit == Init => VideoInv
BY VideoAssumption DEF Init, KernelInit, VideoInit, VideoInv, ViewerOK, ViewsAt, BeingFilled, Directories

(* What was disturbed stays disturbed. *)
LEMMA SeenStays ==
  ASSUME faults.seen \subseteq faults'.seen, NEW kinds, Seen(kinds)
  PROVE  Seen(kinds)'
BY DEF Seen

(* A step of s that leaves the disk alone and ends no transcoding. *)
LEMMA VideoKept ==
  ASSUME VideoInv, NEW s \in Slots, \A t \in Slots \ {s} : run'[t] = run[t],
         hls' = hls, faults.seen \subseteq faults'.seen, ViewerOK(s)',
         \/ ~ViewsAt(s, {"transcode"})
         \/ Seen({"transcode", "crash"})'
         \/ ViewsAt(s, {"transcode"}) /\ hls[run[s].md5] # "dir"
  PROVE  VideoInv'
<1>1. \A t \in Slots : ViewerOK(t)'
  BY DEF VideoInv, ViewerOK, ViewsAt, Rq
<1>2. ASSUME ~Seen({"transcode", "crash"})', NEW m \in Contents, hls'[m] = "dir"
      PROVE  Transcoding(m)'
  <2>1. PICK t \in Slots : At(t, "playVideo", "transcode") /\ run[t].md5 = m
    BY <1>2, SeenStays DEF VideoInv, BeingFilled, Transcoding
  <2>2. t # s
    BY <1>2, <2>1 DEF ViewsAt, At
  <2>. QED  BY <2>1, <2>2 DEF Transcoding, At
<1>. QED  BY <1>1, <1>2 DEF VideoInv, BeingFilled

LEMMA OtherHandler ==
  ASSUME VideoInv, NEW s \in Slots, run[s] # Idle, run[s].fn # "playVideo",
         hls' = hls, faults.seen \subseteq faults'.seen,
         \/ \E k \in Kinds : Ended(s, k)
         \/ \E step \in Steps : WentOn(s, step)
  PROVE  VideoInv'
<1>1. ViewerOK(s)' /\ ~ViewsAt(s, {"transcode"}) /\ \A t \in Slots \ {s} : run'[t] = run[t]
  BY DEF ViewerOK, ViewsAt, Ended, WentOn
<1>. QED  BY <1>1, VideoKept

LEMMA VideoInvStep == KernelInv /\ VideoInv /\ [Next]_vars => VideoInv'
<1>. SUFFICES ASSUME KernelInv, VideoInv, [Next]_vars PROVE VideoInv'
  OBVIOUS
<1>1. CASE Open /\ UNCHANGED <<accountVars, videoVars>>
  BY <1>1, OpenDoes DEF VideoInv, ViewerOK, ViewsAt, BeingFilled, Transcoding, At, Rq, Seen
<1>2. CASE Restart
  <2>1. \A s \in Slots : run'[s] = Idle
    BY <1>2, RestartDoes
  <2>2. hls' = hls
    BY <1>2, RestartDoes
  <2>3. \/ faults'.seen = faults.seen \cup {"crash"}
        \/ faults'.seen = faults.seen \cup {"open"} /\ \A s \in Slots : run[s] = Idle
    BY <1>2, RestartDoes
  <2>4. \A s \in Slots : ViewerOK(s)'
    BY <2>1 DEF ViewerOK, ViewsAt
  <2>5. ASSUME ~Seen({"transcode", "crash"})', NEW m \in Contents, hls'[m] = "dir"
        PROVE  FALSE
    BY <2>2, <2>3, <2>5 DEF VideoInv, BeingFilled, Transcoding, At, Seen
  <2>. QED  BY <2>4, <2>5 DEF VideoInv, BeingFilled
<1>3. ASSUME NEW r \in Requests, Send(r) PROVE VideoInv'
  BY <1>3, SendDoes DEF VideoInv, ViewerOK, ViewsAt, BeingFilled, Transcoding, At, Rq, Seen
<1>4. ASSUME NEW r \in Requests, Deal(r) PROVE VideoInv'
  <2>1. hls' = hls
    BY <1>4, DealDoes
  <2>2. ASSUME NEW s \in Slots, Started(s, r) PROVE VideoInv'
    <3>1. run'[s].step \in {"exists", "select"} /\ run[s] = Idle
      BY <2>2 DEF Started, Running, HandlerNames, First
    <3>2. ViewerOK(s)' /\ ~ViewsAt(s, {"transcode"})
      BY <3>1 DEF ViewerOK, ViewsAt
    <3>. QED  BY <2>1, <2>2, <3>2, VideoKept DEF Started
  <2>3. CASE UNCHANGED <<run, faults>>
    BY <2>1, <2>3 DEF VideoInv, ViewerOK, ViewsAt, BeingFilled, Transcoding, At, Rq, Seen
  <2>. QED  BY <1>4, <2>2, <2>3, DealDoes
<1>5. ASSUME NEW s \in Slots, RegisterRq(s) \/ RegisterRq_fails(s), UNCHANGED videoVars PROVE VideoInv'
  BY <1>5, RegisterSteps, OtherHandler DEF Kinds, Answers
<1>6. ASSUME NEW s \in Slots, LoginRq(s) \/ LoginRq_fails(s), UNCHANGED videoVars PROVE VideoInv'
  BY <1>6, LoginSteps, OtherHandler DEF Kinds, Answers
<1>7. ASSUME NEW s \in Slots, playVideo_select(s), UNCHANGED accountVars PROVE VideoInv'
  <2>1. /\ run[s] # Idle /\ run[s].fn = "playVideo" /\ run[s].step = "select"
        /\ run[s] \in Running
    BY <1>7, AtIsThere DEF playVideo_select
  <2>2. /\ UNCHANGED <<hls, faults>> /\ run'[s].md5 = Md5(Rq(s))
        /\ run'[s].step = "reply" => hls[run'[s].md5] # "none"
        /\ run'[s].r = run[s].r /\ \A t \in Slots \ {s} : run'[t] = run[t]
    BY <1>7, <2>1, Video_select DEF VideoInv, ViewerOK, ViewsAt, WentOn
  <2>3. ViewerOK(s)' /\ ~ViewsAt(s, {"transcode"})
    BY <2>1, <2>2 DEF ViewerOK, ViewsAt, Rq
  <2>. QED  BY <2>2, <2>3, VideoKept
<1>8. ASSUME NEW s \in Slots, playVideo_stat(s), UNCHANGED accountVars PROVE VideoInv'
  <2>1. /\ run[s] # Idle /\ run[s].fn = "playVideo" /\ run[s].step = "stat"
        /\ run[s] \in Running
    BY <1>8, AtIsThere DEF playVideo_stat
  <2>2. /\ UNCHANGED <<hls, faults>> /\ run'[s].md5 = Md5(Rq(s))
        /\ run'[s].step = "reply" => hls[run'[s].md5] # "none"
        /\ run'[s].r = run[s].r /\ \A t \in Slots \ {s} : run'[t] = run[t]
    BY <1>8, <2>1, Video_stat DEF VideoInv, ViewerOK, ViewsAt, WentOn
  <2>3. ViewerOK(s)' /\ ~ViewsAt(s, {"transcode"})
    BY <2>1, <2>2 DEF ViewerOK, ViewsAt, Rq
  <2>. QED  BY <2>2, <2>3, VideoKept
<1>9. ASSUME NEW s \in Slots, playVideo_mkdir(s), UNCHANGED accountVars PROVE VideoInv'
  <2>1. /\ run[s] # Idle /\ run[s].fn = "playVideo" /\ run[s].step = "mkdir"
        /\ run[s] \in Running /\ run[s].md5 \in Directories /\ run[s].md5 = Md5(Rq(s))
    BY <1>9, AtIsThere DEF playVideo_mkdir, VideoInv, ViewerOK, ViewsAt, Running
  <2>2. /\ WentOn(s, "transcode") /\ run'[s].md5 = run[s].md5 /\ UNCHANGED faults
        /\ (hls' = hls \/ (hls' = [hls EXCEPT ![run[s].md5] = "dir"] /\ hls[run[s].md5] = "none"))
    BY <1>9, Video_mkdir
  <2>3. \A m \in Directories : hls'[m] # hls[m] => hls'[m] = "dir" /\ m = run[s].md5
    BY <2>1, <2>2 DEF KernelInv, StateOK
  <2>4. Transcoding(run[s].md5)' /\ \A m : Transcoding(m) => Transcoding(m)'
    <3>1. run'[s] # Idle /\ At(s, "playVideo", "transcode")' /\ ~At(s, "playVideo", "transcode")
      BY <2>1, <2>2, RunningIsNotIdle DEF WentOn, At
    <3>2. \A t \in Slots : At(t, "playVideo", "transcode") => run'[t] = run[t]
      BY <2>2, <3>1 DEF WentOn
    <3>3. run'[s].md5 = run[s].md5
      BY <2>2
    <3>4. PICK x : x = run[s].md5
      OBVIOUS
    <3>5. Transcoding(x)'
      BY <3>1, <3>3, <3>4 DEF Transcoding
    <3>6. Transcoding(run[s].md5)'
      BY <3>3, <3>4, <3>5
    <3>7. \A m : Transcoding(m) => Transcoding(m)'
      BY <3>2 DEF Transcoding, At
    <3>. QED  BY <3>6, <3>7
  <2>5. \A t \in Slots : ViewerOK(t)'
    <3>1. ASSUME NEW t \in Slots, t # s PROVE ViewerOK(t)'
      <4>1. ViewerOK(t) /\ run'[t] = run[t] /\ run[t] \in Running \cup {Idle}
        BY <2>2, <3>1 DEF WentOn, VideoInv, KernelInv, StateOK
      <4>2. run[t] # Idle => run[t].md5 \in Directories
        BY <4>1 DEF Running
      <4>3. \A m \in Directories : hls[m] # "none" => hls'[m] # "none"
        BY <2>3
      <4>. QED  BY <4>1, <4>2, <4>3 DEF ViewerOK, ViewsAt, Rq
    <3>2. ViewerOK(s)'
      BY <2>1, <2>2 DEF ViewerOK, ViewsAt, Rq, WentOn
    <3>. QED  BY <3>1, <3>2
  <2>6. ASSUME ~Seen({"transcode", "crash"})', NEW m \in Contents PROVE BeingFilled(m)'
    <3>1. m \in Directories /\ BeingFilled(m)
      BY <2>2, <2>6 DEF Directories, VideoInv, Seen
    <3>2. CASE hls'[m] = hls[m]
      BY <2>4, <3>1, <3>2 DEF BeingFilled
    <3>3. CASE hls'[m] # hls[m]
      BY <2>2, <2>3, <2>4, <3>1, <3>3 DEF BeingFilled
    <3>. QED  BY <3>2, <3>3
  <2>. QED  BY <2>5, <2>6 DEF VideoInv
<1>10. ASSUME NEW s \in Slots, transcode(s), UNCHANGED accountVars PROVE VideoInv'
  <2>1. /\ run[s] # Idle /\ run[s].fn = "playVideo" /\ run[s].step = "transcode"
        /\ run[s] \in Running /\ run[s].md5 \in Directories /\ run[s].md5 = Md5(Rq(s))
    BY <1>10, AtIsThere DEF transcode, VideoInv, ViewerOK, ViewsAt, Running
  <2>2. CASE WentOn(s, "reply") /\ run'[s].md5 = run[s].md5 /\ hls' = [hls EXCEPT ![run[s].md5] = "list"]
    <3>1. faults' = faults
      BY <1>10, Video_transcode
    <3>2. \A m \in Directories : hls'[m] # hls[m] => hls'[m] = "list" /\ m = run[s].md5
      BY <2>1, <2>2 DEF KernelInv, StateOK
    <3>3. hls'[run[s].md5] = "list"
      BY <2>1, <2>2 DEF KernelInv, StateOK
    <3>4. ASSUME NEW t \in Slots, t # s PROVE ViewerOK(t)'
      <4>1. ViewerOK(t) /\ run'[t] = run[t] /\ run[t] \in Running \cup {Idle}
        BY <2>2, <3>4 DEF WentOn, VideoInv, KernelInv, StateOK
      <4>2. run[t] # Idle => run[t].md5 \in Directories
        BY <4>1 DEF Running
      <4>3. \A m \in Directories : hls[m] # "none" => hls'[m] # "none"
        BY <3>2
      <4>. QED  BY <4>1, <4>2, <4>3 DEF ViewerOK, ViewsAt, Rq
    <3>5. ViewerOK(s)'
      BY <2>1, <2>2, <3>3 DEF ViewerOK, ViewsAt, Rq, WentOn
    <3>6. ASSUME ~Seen({"transcode", "crash"})', NEW m \in Contents, hls'[m] = "dir"
          PROVE  Transcoding(m)'
      <4>1. m \in Directories /\ hls[m] = "dir" /\ m # run[s].md5
        BY <3>2, <3>3, <3>6 DEF Directories
      <4>2. PICK t \in Slots : At(t, "playVideo", "transcode") /\ run[t].md5 = m
        BY <3>1, <3>6, <4>1 DEF VideoInv, BeingFilled, Transcoding, Seen
      <4>3. run'[t] = run[t]
        BY <2>2, <4>1, <4>2 DEF WentOn
      <4>. QED  BY <4>2, <4>3 DEF Transcoding, At
    <3>. QED  BY <3>4, <3>5, <3>6 DEF VideoInv, BeingFilled
  <2>3. CASE Ended(s, "dropped") /\ hls' = hls /\ (run[s].md5 = NoFile \/ hls[run[s].md5] = "none")
    <3>1. ViewerOK(s)' /\ faults' = faults
      BY <1>10, <2>3, Video_transcode DEF ViewerOK, ViewsAt, Ended
    <3>2. CASE hls[run[s].md5] # "dir"
      BY <2>1, <2>3, <3>1, <3>2, VideoKept DEF ViewsAt, Ended
    <3>3. CASE run[s].md5 = NoFile
      <4>1. ASSUME ~Seen({"transcode", "crash"})', NEW m \in Contents, hls'[m] = "dir"
            PROVE  Transcoding(m)'
        <5>1. PICK t \in Slots : At(t, "playVideo", "transcode") /\ run[t].md5 = m
          BY <2>3, <3>1, <4>1 DEF VideoInv, BeingFilled, Transcoding, Seen
        <5>2. run'[t] = run[t]
          BY <2>3, <3>3, <5>1, VideoAssumption DEF Ended
        <5>. QED  BY <5>1, <5>2 DEF Transcoding, At
      <4>2. \A t \in Slots : ViewerOK(t)'
        BY <2>3, <3>1 DEF VideoInv, ViewerOK, ViewsAt, Rq, Ended
      <4>. QED  BY <4>1, <4>2 DEF VideoInv, BeingFilled
    <3>. QED  BY <2>3, <3>2, <3>3
  <2>. QED  BY <1>10, <2>2, <2>3, Video_transcode
<1>11. ASSUME NEW s \in Slots, playVideo_reply(s), UNCHANGED accountVars PROVE VideoInv'
  <2>1. /\ hls' = hls /\ faults.seen \subseteq faults'.seen
        /\ \E k \in Kinds : Ended(s, k)
    BY <1>11, Video_reply DEF Kinds, Answers
  <2>2. run[s] # Idle /\ run[s].fn = "playVideo" /\ run[s].step = "reply"
    BY <1>11, AtIsThere DEF playVideo_reply
  <2>3. /\ ViewerOK(s)' /\ ~ViewsAt(s, {"transcode"})
        /\ \A t \in Slots \ {s} : run'[t] = run[t]
    BY <2>1, <2>2 DEF ViewerOK, ViewsAt, Ended, Seen
  <2>. QED  BY <2>1, <2>3, VideoKept
<1>12. ASSUME NEW s \in Slots, playVideo_fails(s), UNCHANGED accountVars PROVE VideoInv'
  <2>1. /\ hls' = hls /\ faults.seen \subseteq faults'.seen
        /\ \E k \in Kinds : Ended(s, k)
    BY <1>12, Video_fails DEF Kinds, Answers
  <2>2. run[s] # Idle /\ run[s].fn = "playVideo" /\ run[s].step = "select"
    BY <1>12, AtIsThere DEF playVideo_fails
  <2>3. /\ ViewerOK(s)' /\ ~ViewsAt(s, {"transcode"})
        /\ \A t \in Slots \ {s} : run'[t] = run[t]
    BY <2>1, <2>2 DEF ViewerOK, ViewsAt, Ended, Seen
  <2>. QED  BY <2>1, <2>3, VideoKept
<1>13. ASSUME NEW s \in Slots, transcode_fails(s), UNCHANGED accountVars PROVE VideoInv'
  <2>1. /\ hls' = hls /\ faults.seen \subseteq faults'.seen
        /\ \E k \in Kinds : Ended(s, k)
        /\ "transcode" \in faults'.seen
    BY <1>13, Video_transcode_fails DEF Kinds, Answers
  <2>2. run[s] # Idle /\ run[s].fn = "playVideo" /\ run[s].step = "transcode"
    BY <1>13, AtIsThere DEF transcode_fails
  <2>3. /\ ViewerOK(s)' /\ Seen({"transcode", "crash"})'
        /\ \A t \in Slots \ {s} : run'[t] = run[t]
    BY <2>1, <2>2 DEF ViewerOK, ViewsAt, Ended, Seen
  <2>. QED  BY <2>1, <2>3, VideoKept
<1>14. CASE UNCHANGED vars
  <2>1. UNCHANGED <<run, faults, hls>>
    BY <1>14 DEF vars, kernelVars, videoVars
  <2>. QED  BY <2>1 DEF VideoInv, ViewerOK, ViewsAt, BeingFilled, Transcoding, At, Rq, Seen
<1>. QED  BY <1>1, <1>2, <1>3, <1>4, <1>5, <1>6, <1>7, <1>8, <1>9, <1>10, <1>11, <1>12, <1>13, <1>14
          DEF Next, Handler, HandlerFails, playVideo

LEMMA VideoInvariant == FairSpec => []VideoInv
BY VideoInvInit, VideoInvStep, KernelInvariant, PTL DEF FairSpec
(* Only the last step of the handler of r sends the viewer of r on. *)
LEMMA PlaySteps ==
  ASSUME KernelInv, [Next]_vars, NEW r \in Requests, reply[r].kind = "asked", reply'[r].kind = "play"
  PROVE  \E s \in Slots : playVideo_reply(s) /\ UNCHANGED accountVars /\ Rq(s) = r
<1>1. ASSUME NEW s \in Slots, NEW k \in Kinds, Ended(s, k) PROVE k = "play" /\ Rq(s) = r
  BY <1>1 DEF Ended
<1>2. ASSUME NEW s \in Slots, NEW step \in Steps, WentOn(s, step) PROVE FALSE
  BY <1>2 DEF WentOn
<1>3. ~(Open /\ UNCHANGED <<accountVars, videoVars>>) /\ ~Restart /\ ~UNCHANGED vars
  BY OpenDoes, RestartDoes DEF vars, kernelVars
<1>4. \A q \in Requests : ~Send(q) /\ ~Deal(q)
  BY SendDoes, DealDoes DEF Started
<1>5. ASSUME NEW s \in Slots, RegisterRq(s) \/ RegisterRq_fails(s), UNCHANGED videoVars PROVE FALSE
  BY <1>1, <1>2, <1>5, RegisterSteps DEF Kinds, Answers, RegisterAnswers
<1>6. ASSUME NEW s \in Slots, LoginRq(s) \/ LoginRq_fails(s), UNCHANGED videoVars PROVE FALSE
  BY <1>1, <1>2, <1>6, LoginSteps DEF Kinds, Answers, LoginAnswers
<1>7. ASSUME NEW s \in Slots, playVideo_fails(s) \/ transcode_fails(s), UNCHANGED accountVars PROVE FALSE
  BY <1>1, <1>7, Video_fails, Video_transcode_fails DEF Kinds
<1>8. ASSUME NEW s \in Slots, playVideo_select(s) \/ playVideo_stat(s) \/ playVideo_mkdir(s),
             UNCHANGED accountVars
      PROVE  FALSE
  BY <1>2, <1>8, Video_select, Video_stat, Video_mkdir DEF Steps
<1>9. ASSUME NEW s \in Slots, transcode(s), UNCHANGED accountVars PROVE FALSE
  BY <1>1, <1>2, <1>9, Video_transcode DEF Steps, Kinds
<1>10. ASSUME NEW s \in Slots, playVideo_reply(s), UNCHANGED accountVars PROVE Rq(s) = r
  BY <1>1, <1>10, Video_reply DEF Kinds, Answers
<1>. QED  BY <1>3, <1>4, <1>5, <1>6, <1>7, <1>8, <1>9, <1>10 DEF Next, Handler, HandlerFails, playVideo

(* Where a client is sent to, there is a complete play list, or one that is *)
(* being written, for every number of viewers, workers and contents.        *)
THEOREM PathLeadsToListHolds == FairSpec => PathLeadsToList
<1>1. ASSUME KernelInv, VideoInv, [Next]_vars,
             NEW r \in Requests, reply[r].kind = "asked", reply'[r].kind = "play", Md5(r) # NoFile,
             ~Seen({"transcode", "crash"})
      PROVE  hls[Md5(r)] = "list" \/ Transcoding(Md5(r))
  <2>1. PICK s \in Slots : playVideo_reply(s) /\ Rq(s) = r
    BY <1>1, PlaySteps
  <2>2. run[s].md5 = Md5(r) /\ hls[Md5(r)] # "none"
    BY <1>1, <2>1 DEF playVideo_reply, At, VideoInv, ViewerOK, ViewsAt
  <2>3. Md5(r) \in Contents /\ Md5(r) \in Directories
    BY <1>1, Md5IsDirectory DEF Directories
  <2>. QED  BY <1>1, <2>2, <2>3 DEF VideoInv, BeingFilled, KernelInv, StateOK
<1>2. KernelInv /\ VideoInv /\ [Next]_vars
        => [\A r \in Requests :
              reply[r].kind = "asked" /\ reply'[r].kind = "play" /\ Md5(r) # NoFile
              /\ ~Seen({"transcode", "crash"})
                => hls[Md5(r)] = "list" \/ Transcoding(Md5(r))]_vars
  BY <1>1
<1>. QED  BY <1>2, KernelInvariant, VideoInvariant, PTL DEF FairSpec, PathLeadsToList
-----------------------------------------------------------------------------
(* What the first account of a number has for a password is what counts: it *)
(* never changes, and as long as no two register a number at once it is the *)
(* password of who was told that it is registered.                          *)
FirstPassword(tel) == t_user[FirstId(tel)].u_password
Sound == UniqueTel \/ ~Seen({"twice"})
RegistersAt(s, steps) == run[s] # Idle /\ run[s].fn = "RegisterRq" /\ run[s].step \in steps
LogsInAt(s, steps) == run[s] # Idle /\ run[s].fn = "LoginRq" /\ run[s].step \in steps

OneRegistersATel ==
  ~UniqueTel => \A s, t \in Slots : RegistersAt(s, Steps) /\ RegistersAt(t, Steps) /\ Rq(s).tel = Rq(t).tel => s = t
RegistersOK(s) ==
  /\ ~UniqueTel /\ RegistersAt(s, {"insert"}) => ~Registered(Rq(s).tel)
  /\ RegistersAt(s, {"selectId", "mkdir", "reply"}) => FirstPassword(Rq(s).tel) = Rq(s).password
PromiseOK(q) ==
  q.type = "REGISTER_RQ" /\ reply[q].kind = "register_success" => FirstPassword(q.tel) = q.password
RightAnswer(r) == IF FirstPassword(r.tel) = r.password THEN "login_success" ELSE "password_error"
SureOK(r) ==
  r.type = "LOGIN_RQ" /\ reply[r].sure # "none" => Registered(r.tel) /\ reply[r].sure = RightAnswer(r)
AnswerOK(r) ==
  r.type = "LOGIN_RQ" /\ reply[r].sure # "none" /\ reply[r].kind \in LoginAnswers /\ ~Seen({"login"})
  => reply[r].kind = reply[r].sure
LogsInOK(s) == LogsInAt(s, {"find", "write", "publish"}) => FirstPassword(Rq(s).tel) = Rq(s).password

LoginInv ==
  /\ Sound => /\ OneRegistersATel
              /\ \A s \in Slots : RegistersOK(s)
              /\ \A r \in Requests : PromiseOK(r) /\ SureOK(r) /\ AnswerOK(r)
  /\ \A s \in Slots : LogsInOK(s)

LEMMA LoginInvInit == Init => LoginInv
BY DEF Init, KernelInit, LoginInv, OneRegistersATel, RegistersOK, RegistersAt, PromiseOK, SureOK, AnswerOK,
       LogsInOK, LogsInAt, LoginAnswers

(* Accounts stay, and stay in their order. *)
AccountsKept ==
  /\ Ids \subseteq Ids' /\ \A i \in Ids : t_user'[i] = t_user[i]
  /\ \A tel : Registered(tel) => Registered(tel)' /\ FirstId(tel)' = FirstId(tel)

(* The first account of a number keeps its password. *)
LEMMA PasswordStays ==
  ASSUME KernelInv, AccountsKept
  PROVE  \A tel : Registered(tel) => Registered(tel)' /\ FirstPassword(tel)' = FirstPassword(tel)
<1>. SUFFICES ASSUME NEW tel, Registered(tel)
              PROVE  Registered(tel)' /\ FirstPassword(tel)' = FirstPassword(tel)
  OBVIOUS
<1>1. FirstId(tel) \in Ids
  BY FirstIdIsFirst DEF KernelInv, StateOK, IsFirst
<1>. QED  BY <1>1 DEF AccountsKept, FirstPassword

(* The password of a number that was free is that of the inserted account. *)
LEMMA InsertedIsFirst ==
  ASSUME t_user \in Seq(Account), NEW a \in Account, t_user' = Append(t_user, a), ~Registered(a.u_tel)
  PROVE  FirstPassword(a.u_tel)' = a.u_password
<1>1. /\ t_user' \in Seq(Account) /\ Len(t_user') = Len(t_user) + 1 /\ t_user'[Len(t_user) + 1] = a
      /\ \A i \in Ids : t_user'[i] = t_user[i]
  BY DEF Ids
<1>2. Registered(a.u_tel)'
  BY InsertedIsLast
<1>3. FirstId(a.u_tel)' \in Ids' /\ t_user'[FirstId(a.u_tel)'].u_tel = a.u_tel
  BY <1>1, <1>2, FirstIdIsFirstNext DEF IsFirst
<1>4. FirstId(a.u_tel)' \notin Ids
  BY <1>1, <1>3 DEF Registered, Accounts
<1>5. FirstId(a.u_tel)' = Len(t_user) + 1
  BY <1>1, <1>3, <1>4 DEF Ids
<1>. QED  BY <1>1, <1>5 DEF FirstPassword

(* No other number gets an account. *)
LEMMA InsertedIsOne ==
  ASSUME t_user \in Seq(Account), NEW a \in Account, t_user' = Append(t_user, a)
  PROVE  \A tel : Registered(tel)' => Registered(tel) \/ tel = a.u_tel
BY DEF Registered, Accounts, Ids

(* A step that is no step of a handler, or starts one. *)
LEMMA SureStays ==
  ASSUME KernelInv, LoginInv, AccountsKept, Sound, NEW r \in Requests,
         reply'[r].sure = reply[r].sure
  PROVE  SureOK(r)'
BY PasswordStays DEF LoginInv, SureOK, RightAnswer

LEMMA PromiseStays ==
  ASSUME KernelInv, OwnerInv, LoginInv, AccountsKept, Sound, NEW r \in Requests,
         reply'[r].kind = "register_success" => reply[r].kind = "register_success"
  PROVE  PromiseOK(r)'
BY PasswordStays DEF LoginInv, PromiseOK, OwnerInv, Registrations, HasIt

LEMMA AnswerStays ==
  ASSUME LoginInv, Sound, faults.seen \subseteq faults'.seen, NEW r \in Requests,
         reply'[r] = reply[r] \/ reply'[r].kind \notin LoginAnswers
  PROVE  AnswerOK(r)'
BY SeenStays DEF LoginInv, AnswerOK

(* What a handler that takes no step relies on. *)
LEMMA HandlerStays ==
  ASSUME KernelInv, LoginInv, AccountsKept, NEW t \in Slots, run'[t] = run[t]
  PROVE  /\ LogsInOK(t)'
         /\ Sound /\ (~UniqueTel /\ RegistersAt(t, {"insert"})
                      => \A tel : tel = Rq(t).tel /\ Registered(tel)' => Registered(tel))
            => RegistersOK(t)'
<1>1. run[t] # Idle => HandlerOK(t)
  BY DEF KernelInv, HandlersOK
<1>2. PICK tel : tel = Rq(t).tel
  OBVIOUS
<1>3. Rq(t)' = Rq(t)
  BY DEF Rq
<1>4. LogsInOK(t)'
  BY <1>1, <1>2, <1>3, PasswordStays DEF LoginInv, LogsInOK, LogsInAt, HandlerOK
<1>5. ASSUME Sound, ~UniqueTel /\ RegistersAt(t, {"insert"}) /\ Registered(tel)' => Registered(tel)
      PROVE  RegistersOK(t)'
  BY <1>1, <1>2, <1>3, <1>5, PasswordStays DEF LoginInv, RegistersOK, RegistersAt, HandlerOK
<1>. QED  BY <1>2, <1>4, <1>5

(* A step of the handler in s, which is about r. *)
OnlyIts(s, r) ==
  /\ \A t \in Slots \ {s} : run'[t] = run[t]
  /\ \A q \in Requests \ {r} : reply'[q] = reply[q]
  /\ run'[s] # Idle => run'[s].r = run[s].r /\ run'[s].fn = run[s].fn
  /\ reply'[r].sure = reply[r].sure

LEMMA LoginKept ==
  ASSUME KernelInv, OwnerInv, LoginInv, RestKept, faults.seen \subseteq faults'.seen,
         NEW s \in Slots, run[s] # Idle, NEW r \in Requests, r = Rq(s),
         OnlyIts(s, r),
         \A tel : Registered(tel)' => Registered(tel) \/ (RegistersAt(s, {"insert"}) /\ tel = r.tel),
         Sound => RegistersOK(s)' /\ PromiseOK(r)' /\ AnswerOK(r)',
         LogsInOK(s)'
  PROVE  LoginInv'
<1>1. /\ \A t \in Slots \ {s} : run'[t] = run[t]
      /\ \A q \in Requests \ {r} : reply'[q] = reply[q]
      /\ run'[s] # Idle => run'[s].r = run[s].r /\ run'[s].fn = run[s].fn
      /\ reply'[r].sure = reply[r].sure
  BY DEF OnlyIts
<1>2. Sound' => Sound
  BY SeenStays DEF Sound
<1>3. AccountsKept
  BY DEF RestKept, AccountsKept
<1>4. \A t \in Slots : LogsInOK(t)'
  BY <1>3, <1>1, HandlerStays
<1>5. ASSUME Sound PROVE OneRegistersATel'
  <2>1. run[s] \in Running
    BY DEF KernelInv, StateOK
  <2>2. \A t \in Slots : RegistersAt(t, Steps)' => RegistersAt(t, Steps) /\ Rq(t)' = Rq(t)
    BY <1>1, <2>1 DEF RegistersAt, Running, Rq
  <2>. QED  BY <1>5, <2>2 DEF LoginInv, OneRegistersATel
<1>6. ASSUME Sound, NEW t \in Slots, t # s PROVE RegistersOK(t)'
  <2>1. RegistersAt(s, {"insert"}) => RegistersAt(s, Steps)
    BY DEF RegistersAt, Steps
  <2>2. RegistersAt(t, {"insert"}) => RegistersAt(t, Steps)
    BY DEF RegistersAt, Steps
  <2>3. ~UniqueTel /\ RegistersAt(t, {"insert"})
          => \A tel : tel = Rq(t).tel /\ Registered(tel)' => Registered(tel)
    BY <1>6, <2>1, <2>2 DEF LoginInv, OneRegistersATel
  <2>. QED  BY <1>3, <1>1, <1>6, <2>3, HandlerStays
<1>7. ASSUME Sound, NEW q \in Requests PROVE PromiseOK(q)' /\ SureOK(q)' /\ AnswerOK(q)'
  BY <1>3, <1>1, <1>7, PromiseStays, SureStays, AnswerStays
<1>. QED  BY <1>2, <1>4, <1>5, <1>6, <1>7 DEF LoginInv

(* A step of no handler, or one that starts a handler. *)
LEMMA LoginKeptByOthers ==
  ASSUME KernelInv, OwnerInv, LoginInv, UNCHANGED t_user, faults.seen \subseteq faults'.seen,
         \A t \in Slots : run'[t] = run[t] \/ (RegistersOK(t)' /\ LogsInOK(t)'),
         Sound' => OneRegistersATel',
         \A q \in Requests :
           reply'[q].kind \in LoginAnswers \cup {"register_success"} => reply'[q] = reply[q],
         Sound => \A q \in Requests : reply'[q].sure = reply[q].sure \/ SureOK(q)'
  PROVE  LoginInv'
<1>1. AccountsKept /\ \A tel : Registered(tel)' => Registered(tel)
  BY SameAccounts DEF KernelInv, AccountsKept
<1>2. Sound' => Sound
  BY SeenStays DEF Sound
<1>3. \A t \in Slots : LogsInOK(t)' /\ (Sound => RegistersOK(t)')
  BY <1>1, HandlerStays
<1>4. ASSUME Sound, NEW q \in Requests PROVE PromiseOK(q)' /\ SureOK(q)' /\ AnswerOK(q)'
  BY <1>1, <1>4, PromiseStays, SureStays, AnswerStays
<1>. QED  BY <1>2, <1>3, <1>4 DEF LoginInv

(* The steps of a registration. *)
LEMMA RegisteringGoesOn ==
  ASSUME KernelInv, OwnerInv, LoginInv, RestKept, faults.seen \subseteq faults'.seen,
         NEW s \in Slots, run[s] # Idle, run[s].fn = "RegisterRq", NEW r \in Requests, r = Rq(s),
         NEW step \in Steps, WentOn(s, step), Sound => RegistersOK(s)',
         \A tel : Registered(tel)' => Registered(tel) \/ (RegistersAt(s, {"insert"}) /\ tel = r.tel)
  PROVE  LoginInv'
<1>1. HandlerOK(s)
  BY DEF KernelInv, HandlersOK
<1>2. r.type = "REGISTER_RQ" /\ reply[r].kind = "asked"
  BY <1>1 DEF HandlerOK, setNetPackMap
<1>3. OnlyIts(s, r) /\ LogsInOK(s)' /\ AnswerOK(r)' /\ PromiseOK(r)'
  BY <1>2 DEF WentOn, OnlyIts, Rq, LogsInOK, LogsInAt, PromiseOK, AnswerOK
<1>. QED  BY <1>3, LoginKept

LEMMA RegisteringEnds ==
  ASSUME KernelInv, OwnerInv, LoginInv, RestKept, faults.seen \subseteq faults'.seen,
         NEW s \in Slots, run[s] # Idle, run[s].fn = "RegisterRq", NEW r \in Requests, r = Rq(s),
         NEW k \in RegisterAnswers, Ended(s, k),
         Sound /\ k = "register_success" => FirstPassword(r.tel)' = r.password,
         \A tel : Registered(tel)' => Registered(tel)
  PROVE  LoginInv'
<1>1. HandlerOK(s)
  BY DEF KernelInv, HandlersOK
<1>2. r.type = "REGISTER_RQ"
  BY <1>1 DEF HandlerOK, setNetPackMap
<1>3. OnlyIts(s, r) /\ LogsInOK(s)' /\ RegistersOK(s)' /\ AnswerOK(r)' /\ (Sound => PromiseOK(r)')
  BY <1>2 DEF Ended, OnlyIts, Rq, LogsInOK, LogsInAt, RegistersOK, RegistersAt, PromiseOK, AnswerOK
<1>. QED  BY <1>3, LoginKept

(* The steps of a login. *)
LEMMA LoggingInGoesOn ==
  ASSUME KernelInv, OwnerInv, LoginInv, RestKept, UNCHANGED t_user, faults.seen \subseteq faults'.seen,
         NEW s \in Slots, run[s] # Idle, run[s].fn = "LoginRq", NEW r \in Requests, r = Rq(s),
         NEW step \in Steps, WentOn(s, step), LogsInOK(s)'
  PROVE  LoginInv'
<1>1. HandlerOK(s)
  BY DEF KernelInv, HandlersOK
<1>2. r.type = "LOGIN_RQ" /\ reply[r].kind = "asked"
  BY <1>1 DEF HandlerOK, setNetPackMap
<1>3. OnlyIts(s, r) /\ RegistersOK(s)' /\ PromiseOK(r)' /\ AnswerOK(r)'
  BY <1>2 DEF WentOn, OnlyIts, Rq, RegistersOK, RegistersAt, PromiseOK, AnswerOK, LoginAnswers
<1>4. \A tel : Registered(tel)' => Registered(tel)
  BY SameAccounts DEF KernelInv
<1>. QED  BY <1>3, <1>4, LoginKept

LEMMA LoggingInEnds ==
  ASSUME KernelInv, OwnerInv, LoginInv, RestKept, UNCHANGED t_user, faults.seen \subseteq faults'.seen,
         NEW s \in Slots, run[s] # Idle, run[s].fn = "LoginRq", NEW r \in Requests, r = Rq(s),
         NEW k \in LoginAnswers, Ended(s, k),
         Sound /\ reply[r].sure # "none" /\ ~Seen({"login"})' => k = reply[r].sure
  PROVE  LoginInv'
<1>1. HandlerOK(s)
  BY DEF KernelInv, HandlersOK
<1>2. r.type = "LOGIN_RQ"
  BY <1>1 DEF HandlerOK, setNetPackMap
<1>3. OnlyIts(s, r) /\ LogsInOK(s)' /\ RegistersOK(s)' /\ PromiseOK(r)' /\ (Sound => AnswerOK(r)')
  BY <1>2 DEF Ended, OnlyIts, Rq, LogsInOK, LogsInAt, RegistersOK, RegistersAt, PromiseOK, AnswerOK
<1>4. \A tel : Registered(tel)' => Registered(tel)
  BY SameAccounts DEF KernelInv
<1>. QED  BY <1>3, <1>4, LoginKept

LEMMA LoginInvStep == KernelInv /\ OwnerInv /\ LoginInv /\ [Next]_vars => LoginInv'
<1>. SUFFICES ASSUME KernelInv, OwnerInv, LoginInv, [Next]_vars PROVE LoginInv'
  OBVIOUS
<1>1. CASE Open /\ UNCHANGED <<accountVars, videoVars>>
  <2>1. UNCHANGED <<t_user, run, reply, faults>>
    BY <1>1, OpenDoes
  <2>. QED  BY <2>1, LoginKeptByOthers DEF Sound, Seen, LoginInv, OneRegistersATel, RegistersAt, Rq
<1>2. CASE Restart
  <2>1. /\ UNCHANGED t_user /\ faults.seen \subseteq faults'.seen /\ \A s \in Slots : run'[s] = Idle
        /\ \A q \in Requests : reply'[q].sure = reply[q].sure
    BY <1>2, RestartDoes
  <2>2. ASSUME NEW q \in Requests, reply'[q].kind \in LoginAnswers \cup {"register_success"}
        PROVE  reply'[q] = reply[q]
    <3>1. reply[q] \in Reply /\ reply'[q] \in Reply
      BY <1>2, RestartDoes DEF KernelInv, StateOK
    <3>2. reply'[q].kind = reply[q].kind
      BY <1>2, <2>2, RestartDoes DEF LoginAnswers
    <3>. QED  BY <2>1, <3>1, <3>2 DEF Reply
  <2>3. \A s \in Slots : RegistersOK(s)' /\ LogsInOK(s)'
    BY <2>1 DEF RegistersOK, RegistersAt, LogsInOK, LogsInAt
  <2>4. OneRegistersATel'
    BY <2>1 DEF OneRegistersATel, RegistersAt
  <2>. QED  BY <2>1, <2>2, <2>3, <2>4, LoginKeptByOthers
<1>3. ASSUME NEW r \in Requests, Send(r) PROVE LoginInv'
  <2>1. /\ UNCHANGED <<t_user, run, faults>> /\ reply'[r].kind = "asked" /\ reply'[r].sure = Sure(r)
        /\ \A q \in Requests \ {r} : reply'[q] = reply[q]
    BY <1>3, SendDoes
  <2>2. Sound' => OneRegistersATel'
    BY <2>1 DEF Sound, Seen, LoginInv, OneRegistersATel, RegistersAt, Rq
  <2>3. Sound => SureOK(r)'
    <3>1. SUFFICES ASSUME Sound, r.type = "LOGIN_RQ", Promised(r.tel) # {}
                   PROVE  Registered(r.tel)' /\ Sure(r) = RightAnswer(r)'
      BY <2>1 DEF SureOK, Sure
    <3>2. \A q \in Promised(r.tel) : q.tel = r.tel /\ Registered(r.tel) /\ FirstPassword(r.tel) = q.password
      BY <3>1 DEF Promised, LoginInv, PromiseOK, OwnerInv, HasIt, Registrations
    <3>3. Registered(r.tel)' /\ FirstPassword(r.tel)' = FirstPassword(r.tel)
      BY <2>1, <3>1, <3>2, SameAccounts DEF KernelInv, FirstPassword
    <3>4. PICK q \in Promised(r.tel) : TRUE
      BY <3>1
    <3>. QED  BY <3>1, <3>2, <3>3, <3>4 DEF Sure, RightAnswer
  <2>4. \A q \in Requests :
          reply'[q].kind \in LoginAnswers \cup {"register_success"} => reply'[q] = reply[q]
    BY <2>1 DEF LoginAnswers
  <2>. QED  BY <2>1, <2>2, <2>3, <2>4, LoginKeptByOthers
<1>4. ASSUME NEW r \in Requests, Deal(r) PROVE LoginInv'
  <2>1. ASSUME NEW s \in Slots, Started(s, r) PROVE LoginInv'
    <3>1. run'[s].step \in {"exists", "select"} /\ run[s] = Idle /\ UNCHANGED t_user
      BY <1>4, <2>1, DealDoes DEF Started, Running, HandlerNames, First
    <3>2. RegistersOK(s)' /\ LogsInOK(s)'
      BY <3>1 DEF RegistersOK, RegistersAt, LogsInOK, LogsInAt
    <3>3. Sound' => OneRegistersATel'
      <4>1. SUFFICES ASSUME Sound', ~UniqueTel, NEW t \in Slots, NEW u \in Slots,
                            RegistersAt(t, Steps)', RegistersAt(u, Steps)', Rq(t)'.tel = Rq(u)'.tel
                     PROVE  t = u
        BY DEF OneRegistersATel
      <4>2. Sound /\ Twice(r) = {}
        BY <2>1, <4>1 DEF Started, Sound, Seen, Twice
      <4>3. CASE t # s /\ u # s
        <5>1. run'[t] = run[t] /\ run'[u] = run[u]
          BY <2>1, <4>3 DEF Started
        <5>. QED  BY <4>1, <4>2, <5>1 DEF LoginInv, OneRegistersATel, RegistersAt, Rq
      <4>4. ASSUME NEW v \in Slots, v # s, RegistersAt(v, Steps)', Rq(v)'.tel = r.tel,
                   run'[s].fn = "RegisterRq"
            PROVE  FALSE
        <5>1. run'[v] = run[v]
          BY <2>1, <4>4 DEF Started
        <5>2. Registering(r.tel)
          BY <4>4, <5>1 DEF Registering, RegistersAt, Rq
        <5>3. r.type = "REGISTER_RQ"
          <6>1. HandlerOK(s)'
            BY <1>4, <2>1, DealDoes, RunningIsNotIdle DEF Started, KernelInv, HandlersOK
          <6>2. r.type \in DOMAIN setNetPackMap /\ setNetPackMap[r.type] = "RegisterRq"
            BY <2>1, <4>4, <6>1 DEF HandlerOK, Started, Rq
          <6>. QED  BY <6>2 DEF setNetPackMap
        <5>. QED  BY <4>2, <5>2, <5>3 DEF Twice
      <4>. QED  BY <2>1, <4>1, <4>3, <4>4 DEF Started, RegistersAt, Rq
    <3>. QED  BY <2>1, <3>1, <3>2, <3>3, LoginKeptByOthers DEF Started
  <2>2. CASE /\ UNCHANGED <<run, faults>> /\ reply'[r].kind = "ignored" /\ reply'[r].sure = reply[r].sure
             /\ \A q \in Requests \ {r} : reply'[q] = reply[q]
    <3>1. Sound' => OneRegistersATel'
      BY <2>2 DEF Sound, Seen, LoginInv, OneRegistersATel, RegistersAt, Rq
    <3>2. UNCHANGED t_user
      BY <1>4, DealDoes
    <3>. QED  BY <2>2, <3>1, <3>2, LoginKeptByOthers DEF LoginAnswers
  <2>. QED  BY <1>4, <2>1, <2>2, DealDoes
<1>5. ASSUME NEW s \in Slots, RegisterRq_exists(s), UNCHANGED videoVars PROVE LoginInv'
  <2>1. PICK r \in Requests : r = Rq(s)
    BY <1>5, AtIsThere DEF RegisterRq_exists
  <2>2. run[s] # Idle /\ run[s].fn = "RegisterRq"
    BY <1>5, AtIsThere DEF RegisterRq_exists
  <2>3. /\ RestKept /\ UNCHANGED <<t_user, faults>>
        /\ Ended(s, "user_is_exist") \/ (WentOn(s, "insert") /\ ~Registered(r.tel))
    BY <1>5, <2>1, Register_exists
  <2>4. \A tel : Registered(tel)' = Registered(tel)
    BY <2>3, SameAccounts DEF KernelInv
  <2>5. CASE WentOn(s, "insert") /\ ~Registered(r.tel)
    <3>1. Rq(s)' = r /\ ~Registered(r.tel)'
      BY <2>1, <2>4, <2>5 DEF WentOn, Rq
    <3>2. RegistersOK(s)'
      BY <2>5, <3>1 DEF RegistersOK, RegistersAt, WentOn
    <3>. QED  BY <2>1, <2>2, <2>3, <2>4, <2>5, <3>2, RegisteringGoesOn, RegisteringEnds DEF Steps
  <2>6. CASE Ended(s, "user_is_exist")
    BY <2>1, <2>2, <2>3, <2>4, <2>6, RegisteringGoesOn, RegisteringEnds DEF RegisterAnswers
  <2>. QED  BY <2>3, <2>5, <2>6
<1>6. ASSUME NEW s \in Slots, RegisterRq_insert(s), UNCHANGED videoVars PROVE LoginInv'
  <2>1. PICK r \in Requests : r = Rq(s)
    BY <1>6, AtIsThere DEF RegisterRq_insert
  <2>2. /\ run[s] # Idle /\ run[s].fn = "RegisterRq" /\ RegistersAt(s, {"insert"})
        /\ r.type = "REGISTER_RQ"
    BY <1>6, <2>1, AtIsThere DEF RegisterRq_insert, RegistersAt
  <2>3. /\ RestKept /\ UNCHANGED faults
        /\ \/ Ended(s, "register_error") /\ UNCHANGED t_user
           \/ /\ WentOn(s, "selectId") /\ (UniqueTel => ~Registered(r.tel))
              /\ t_user' = Append(t_user, [u_tel |-> r.tel, u_password |-> r.password])
    BY <1>6, <2>1, Register_insert
  <2>4. CASE Ended(s, "register_error") /\ UNCHANGED t_user
    <3>1. \A tel : Registered(tel)' = Registered(tel)
      BY <2>4, SameAccounts DEF KernelInv
    <3>. QED  BY <2>1, <2>2, <2>3, <2>4, <3>1, RegisteringGoesOn, RegisteringEnds DEF RegisterAnswers
  <2>5. CASE /\ WentOn(s, "selectId") /\ (UniqueTel => ~Registered(r.tel))
             /\ t_user' = Append(t_user, [u_tel |-> r.tel, u_password |-> r.password])
    <3>1. PICK a \in Account : a = [u_tel |-> r.tel, u_password |-> r.password]
      BY <2>2, AccountsAssumption DEF Account
    <3>2. t_user \in Seq(Account) /\ t_user' = Append(t_user, a) /\ a.u_tel = r.tel /\ a.u_password = r.password
      BY <2>5, <3>1 DEF KernelInv, StateOK
    <3>3. \A tel : Registered(tel)' => Registered(tel) \/ tel = r.tel
      BY <3>2, InsertedIsOne
    <3>4. ASSUME Sound PROVE RegistersOK(s)'
      <4>1. ~Registered(r.tel)
        BY <2>1, <2>2, <2>5, <3>4 DEF LoginInv, RegistersOK
      <4>2. FirstPassword(r.tel)' = r.password
        BY <3>2, <4>1, InsertedIsFirst
      <4>3. Rq(s)' = r
        BY <2>1, <2>5 DEF WentOn, Rq
      <4>. QED  BY <2>5, <4>2, <4>3 DEF RegistersOK, RegistersAt, WentOn
    <3>. QED  BY <2>1, <2>2, <2>3, <2>5, <3>3, <3>4, RegisteringGoesOn, RegisteringEnds DEF Steps
  <2>. QED  BY <2>3, <2>4, <2>5
<1>7. ASSUME NEW s \in Slots, RegisterRq_selectId(s), UNCHANGED videoVars PROVE LoginInv'
  <2>1. PICK r \in Requests : r = Rq(s)
    BY <1>7, AtIsThere DEF RegisterRq_selectId
  <2>2. /\ run[s] # Idle /\ run[s].fn = "RegisterRq" /\ RegistersAt(s, {"selectId"})
        /\ Registered(r.tel)
    BY <1>7, <2>1, AtIsThere DEF RegisterRq_selectId, RegistersAt, HandlerOK
  <2>3. /\ RestKept /\ UNCHANGED t_user /\ faults.seen \subseteq faults'.seen
        /\ WentOn(s, "mkdir")
    BY <1>7, Register_selectId
  <2>4. \A tel : Registered(tel)' = Registered(tel)
    BY <2>3, SameAccounts DEF KernelInv
  <2>5. ASSUME Sound PROVE FirstPassword(r.tel)' = r.password
    <3>1. FirstPassword(r.tel)' = FirstPassword(r.tel)
      BY <2>2, <2>3, PasswordStays DEF RestKept, AccountsKept
    <3>. QED  BY <2>1, <2>2, <2>5, <3>1 DEF LoginInv, RegistersOK, RegistersAt
  <2>6. Sound => RegistersOK(s)'
    BY <2>1, <2>3, <2>5 DEF RegistersOK, RegistersAt, WentOn, Rq
  <2>. QED  BY <2>1, <2>2, <2>3, <2>4, <2>6, RegisteringGoesOn, RegisteringEnds DEF Steps
<1>8. ASSUME NEW s \in Slots, RegisterRq_mkdir(s), UNCHANGED videoVars PROVE LoginInv'
  <2>1. PICK r \in Requests : r = Rq(s)
    BY <1>8, AtIsThere DEF RegisterRq_mkdir
  <2>2. /\ run[s] # Idle /\ run[s].fn = "RegisterRq" /\ RegistersAt(s, {"mkdir"})
        /\ Registered(r.tel)
    BY <1>8, <2>1, AtIsThere DEF RegisterRq_mkdir, RegistersAt, HandlerOK
  <2>3. /\ RestKept /\ UNCHANGED t_user /\ faults.seen \subseteq faults'.seen
        /\ WentOn(s, "reply") \/ Ended(s, "register_error")
    BY <1>8, Register_mkdir
  <2>4. \A tel : Registered(tel)' = Registered(tel)
    BY <2>3, SameAccounts DEF KernelInv
  <2>5. ASSUME Sound PROVE FirstPassword(r.tel)' = r.password
    <3>1. FirstPassword(r.tel)' = FirstPassword(r.tel)
      BY <2>2, <2>3, PasswordStays DEF RestKept, AccountsKept
    <3>. QED  BY <2>1, <2>2, <2>5, <3>1 DEF LoginInv, RegistersOK, RegistersAt
  <2>6. WentOn(s, "reply") /\ Sound => RegistersOK(s)'
    BY <2>1, <2>5 DEF RegistersOK, RegistersAt, WentOn, Rq
  <2>. QED  BY <2>1, <2>2, <2>3, <2>4, <2>6, RegisteringGoesOn, RegisteringEnds DEF Steps, RegisterAnswers
<1>9. ASSUME NEW s \in Slots, RegisterRq_reply(s), UNCHANGED videoVars PROVE LoginInv'
  <2>1. PICK r \in Requests : r = Rq(s)
    BY <1>9, AtIsThere DEF RegisterRq_reply
  <2>2. /\ run[s] # Idle /\ run[s].fn = "RegisterRq" /\ RegistersAt(s, {"reply"})
        /\ Registered(r.tel)
    BY <1>9, <2>1, AtIsThere DEF RegisterRq_reply, RegistersAt, HandlerOK
  <2>3. /\ RestKept /\ UNCHANGED t_user /\ faults.seen \subseteq faults'.seen
        /\ Ended(s, "register_success")
    BY <1>9, Register_reply
  <2>4. \A tel : Registered(tel)' = Registered(tel)
    BY <2>3, SameAccounts DEF KernelInv
  <2>5. ASSUME Sound PROVE FirstPassword(r.tel)' = r.password
    <3>1. FirstPassword(r.tel)' = FirstPassword(r.tel)
      BY <2>2, <2>3, PasswordStays DEF RestKept, AccountsKept
    <3>. QED  BY <2>1, <2>2, <2>5, <3>1 DEF LoginInv, RegistersOK, RegistersAt
  <2>. QED  BY <2>1, <2>2, <2>3, <2>4, <2>5, RegisteringGoesOn, RegisteringEnds DEF RegisterAnswers
<1>10. ASSUME NEW s \in Slots, RegisterRq_fails(s), UNCHANGED videoVars PROVE LoginInv'
  <2>1. PICK r \in Requests : r = Rq(s)
    BY <1>10, AtIsThere DEF RegisterRq_fails
  <2>2. run[s] # Idle /\ run[s].fn = "RegisterRq"
    BY <1>10, AtIsThere DEF RegisterRq_fails
  <2>3. /\ RestKept /\ UNCHANGED t_user /\ faults.seen \subseteq faults'.seen /\ Ended(s, "register_error")
    BY <1>10, Register_fails
  <2>4. \A tel : Registered(tel)' = Registered(tel)
    BY <2>3, SameAccounts DEF KernelInv
  <2>. QED  BY <2>1, <2>2, <2>3, <2>4, RegisteringGoesOn, RegisteringEnds DEF RegisterAnswers
<1>11. ASSUME NEW s \in Slots, LoginRq_select(s), UNCHANGED videoVars PROVE LoginInv'
  <2>1. PICK r \in Requests : r = Rq(s)
    BY <1>11, AtIsThere DEF LoginRq_select
  <2>2. /\ run[s] # Idle /\ run[s].fn = "LoginRq" /\ LogsInAt(s, {"select"})
        /\ r.type = "LOGIN_RQ"
    BY <1>11, <2>1, AtIsThere DEF LoginRq_select, LogsInAt, HandlerOK, setNetPackMap
  <2>3. /\ RestKept /\ UNCHANGED t_user /\ faults.seen \subseteq faults'.seen
        /\ \/ Ended(s, "user_not_exist") /\ ~Registered(r.tel)
           \/ Ended(s, "password_error") /\ FirstPassword(r.tel) # r.password
           \/ WentOn(s, "find") /\ FirstPassword(r.tel) = r.password
    BY <1>11, <2>1, Login_select DEF FirstPassword
  <2>4. Sound /\ reply[r].sure # "none" => Registered(r.tel) /\ reply[r].sure = RightAnswer(r)
    BY <2>2 DEF LoginInv, SureOK
  <2>5. CASE WentOn(s, "find") /\ FirstPassword(r.tel) = r.password
    <3>1. FirstPassword(r.tel)' = r.password /\ Rq(s)' = r
      BY <2>1, <2>3, <2>5, SameAccounts DEF KernelInv, FirstPassword, WentOn, Rq
    <3>2. LogsInOK(s)'
      BY <3>1 DEF LogsInOK
    <3>. QED  BY <2>1, <2>2, <2>3, <2>5, <3>2, LoggingInGoesOn, LoggingInEnds DEF Steps
  <2>6. CASE Ended(s, "user_not_exist") /\ ~Registered(r.tel)
    BY <2>1, <2>2, <2>3, <2>4, <2>6, LoggingInGoesOn, LoggingInEnds DEF LoginAnswers
  <2>7. CASE Ended(s, "password_error") /\ FirstPassword(r.tel) # r.password
    BY <2>1, <2>2, <2>3, <2>4, <2>7, LoggingInGoesOn, LoggingInEnds DEF LoginAnswers, RightAnswer
  <2>. QED  BY <2>3, <2>5, <2>6, <2>7
<1>12. ASSUME NEW s \in Slots, LoginRq_find(s), UNCHANGED videoVars PROVE LoginInv'
  <2>1. PICK r \in Requests : r = Rq(s)
    BY <1>12, AtIsThere DEF LoginRq_find
  <2>2. /\ run[s] # Idle /\ run[s].fn = "LoginRq" /\ LogsInAt(s, {"find"})
        /\ r.type = "LOGIN_RQ"
    BY <1>12, <2>1, AtIsThere DEF LoginRq_find, LogsInAt, HandlerOK, setNetPackMap
  <2>3. /\ RestKept /\ UNCHANGED t_user /\ faults.seen \subseteq faults'.seen
        /\ WentOn(s, "write")
    BY <1>12, <2>1, Login_find DEF FirstPassword
  <2>4. FirstPassword(r.tel)' = r.password /\ Rq(s)' = r
    BY <2>1, <2>2, <2>3, SameAccounts DEF KernelInv, LoginInv, LogsInOK, LogsInAt, FirstPassword, WentOn, Rq
  <2>5. LogsInOK(s)'
    BY <2>4 DEF LogsInOK
  <2>. QED  BY <2>1, <2>2, <2>3, <2>5, LoggingInGoesOn, LoggingInEnds DEF Steps
<1>13. ASSUME NEW s \in Slots, LoginRq_write(s), UNCHANGED videoVars PROVE LoginInv'
  <2>1. PICK r \in Requests : r = Rq(s)
    BY <1>13, AtIsThere DEF LoginRq_write
  <2>2. /\ run[s] # Idle /\ run[s].fn = "LoginRq" /\ LogsInAt(s, {"write"})
        /\ r.type = "LOGIN_RQ"
    BY <1>13, <2>1, AtIsThere DEF LoginRq_write, LogsInAt, HandlerOK, setNetPackMap
  <2>3. /\ RestKept /\ UNCHANGED t_user /\ faults.seen \subseteq faults'.seen
        /\ WentOn(s, "publish")
    BY <1>13, <2>1, Login_write DEF FirstPassword
  <2>4. FirstPassword(r.tel)' = r.password /\ Rq(s)' = r
    BY <2>1, <2>2, <2>3, SameAccounts DEF KernelInv, LoginInv, LogsInOK, LogsInAt, FirstPassword, WentOn, Rq
  <2>5. LogsInOK(s)'
    BY <2>4 DEF LogsInOK
  <2>. QED  BY <2>1, <2>2, <2>3, <2>5, LoggingInGoesOn, LoggingInEnds DEF Steps
<1>14. ASSUME NEW s \in Slots, LoginRq_insert(s), UNCHANGED videoVars PROVE LoginInv'
  <2>1. PICK r \in Requests : r = Rq(s)
    BY <1>14, AtIsThere DEF LoginRq_insert
  <2>2. /\ run[s] # Idle /\ run[s].fn = "LoginRq" /\ LogsInAt(s, {"publish"})
        /\ r.type = "LOGIN_RQ"
    BY <1>14, <2>1, AtIsThere DEF LoginRq_insert, LogsInAt, HandlerOK, setNetPackMap
  <2>3. /\ RestKept /\ UNCHANGED t_user /\ faults.seen \subseteq faults'.seen
        /\ Ended(s, "login_success")
    BY <1>14, <2>1, Login_insert DEF FirstPassword
  <2>4. FirstPassword(r.tel) = r.password
    BY <2>1, <2>2 DEF LoginInv, LogsInOK, LogsInAt
  <2>5. Sound /\ reply[r].sure # "none" => reply[r].sure = "login_success"
    BY <2>2, <2>4 DEF LoginInv, SureOK, RightAnswer
  <2>. QED  BY <2>1, <2>2, <2>3, <2>5, LoggingInGoesOn, LoggingInEnds DEF LoginAnswers
<1>15. ASSUME NEW s \in Slots, LoginRq_fails(s), UNCHANGED videoVars PROVE LoginInv'
  <2>1. PICK r \in Requests : r = Rq(s)
    BY <1>15, AtIsThere DEF LoginRq_fails
  <2>2. /\ run[s] # Idle /\ run[s].fn = "LoginRq" /\ LogsInAt(s, {"select"})
        /\ r.type = "LOGIN_RQ"
    BY <1>15, <2>1, AtIsThere DEF LoginRq_fails, LogsInAt, HandlerOK, setNetPackMap
  <2>3. /\ RestKept /\ UNCHANGED t_user /\ faults.seen \subseteq faults'.seen
        /\ Ended(s, "user_not_exist") /\ Seen({"login"})'
    BY <1>15, <2>1, Login_fails DEF Seen
  <2>. QED  BY <2>1, <2>2, <2>3, LoggingInGoesOn, LoggingInEnds DEF LoginAnswers
<1>16. ASSUME NEW s \in Slots, playVideo(s) \/ playVideo_fails(s) \/ transcode_fails(s),
              UNCHANGED accountVars
       PROVE  LoginInv'
  <2>1. /\ RestKept /\ UNCHANGED t_user /\ faults.seen \subseteq faults'.seen
        /\ run[s] # Idle /\ run[s].fn = "playVideo"
        /\ (\E k \in {"play", "dropped"} : Ended(s, k)) \/ (\E step \in Steps : WentOn(s, step))
    BY <1>16, ViewerSteps
  <2>2. PICK r \in Requests : r = Rq(s)
    BY <2>1 DEF KernelInv, StateOK, Running, Rq
  <2>3. r.type = "PLAY_VIDEO_RQ"
    BY <2>1, <2>2 DEF KernelInv, HandlersOK, HandlerOK, setNetPackMap
  <2>4. \A tel : Registered(tel)' = Registered(tel)
    BY <2>1, SameAccounts DEF KernelInv
  <2>5. OnlyIts(s, r) /\ RegistersOK(s)' /\ LogsInOK(s)' /\ PromiseOK(r)' /\ AnswerOK(r)'
    BY <2>1, <2>2, <2>3
       DEF Ended, WentOn, OnlyIts, Rq, RegistersOK, RegistersAt, LogsInOK, LogsInAt, PromiseOK, AnswerOK
  <2>. QED  BY <2>1, <2>2, <2>4, <2>5, LoginKept
<1>17. CASE UNCHANGED vars
  <2>1. UNCHANGED <<t_user, run, reply, faults>>
    BY <1>17 DEF vars, kernelVars, accountVars
  <2>. QED  BY <2>1, LoginKeptByOthers DEF Sound, Seen, LoginInv, OneRegistersATel, RegistersAt, Rq
<1>. QED  BY <1>1, <1>2, <1>3, <1>4, <1>5, <1>6, <1>7, <1>8, <1>9, <1>10, <1>11, <1>12, <1>13,
             <1>14, <1>15, <1>16, <1>17
          DEF Next, Handler, HandlerFails, RegisterRq, LoginRq

LEMMA LoginInvariant == FairSpec => []LoginInv
BY LoginInvInit, LoginInvStep, KernelInvariant, OwnerInvariant, PTL DEF FairSpec

(* Who was told that it is registered gets in with its password, and nobody *)
(* with another one, over failed calls and restarts, for every schema and   *)
(* every number of workers.                                                 *)
THEOREM OwnerGetsInHolds == FairSpec => []OwnerGetsIn
<1>1. LoginInv => OwnerGetsIn
  BY DEF LoginInv, AnswerOK, OwnerGetsIn, Sound
<1>. QED  BY <1>1, LoginInvariant, PTL
-----------------------------------------------------------------------------
(* Every account's number has a directory, or a registration of it is about *)
(* to make one; unless a call of a registration failed or the process ended.*)
HomeOK(tel) ==
  \/ FirstId(tel) \in homes
  \/ \E s \in Slots : RegistersAt(s, {"selectId", "mkdir"}) /\ Rq(s).tel = tel
HomeInv == ~Seen({"register", "crash"}) => \A tel : Registered(tel) => HomeOK(tel)

LEMMA HomeInvInit == Init => HomeInv
<1>. SUFFICES ASSUME Init, NEW tel, Registered(tel) PROVE FirstId(tel) \in homes
  BY DEF HomeInv, HomeOK
<1>1. t_user \in Seq(Account) /\ homes = Ids
  BY AccountsAssumption DEF Init, AccountsInit, Account, Ids
<1>. QED  BY <1>1, FirstIdIsFirst DEF IsFirst

(* A step after which the numbers that have an account are the same ones,   *)
(* and nobody who was to make a directory has gone.                         *)
LEMMA HomeKept ==
  ASSUME HomeInv, AccountsKept, homes \subseteq homes', faults.seen \subseteq faults'.seen,
         \/ Seen({"register", "crash"})'
         \/ /\ \A tel : Registered(tel)' => Registered(tel)
            /\ \A t \in Slots : RegistersAt(t, {"selectId", "mkdir"})
                                 => RegistersAt(t, {"selectId", "mkdir"})' /\ Rq(t)' = Rq(t)
  PROVE  HomeInv'
<1>1. SUFFICES ASSUME ~Seen({"register", "crash"})', NEW tel, Registered(tel)' PROVE HomeOK(tel)'
  BY DEF HomeInv
<1>2. Registered(tel) /\ HomeOK(tel) /\ FirstId(tel)' = FirstId(tel)
  BY <1>1, SeenStays DEF HomeInv, AccountsKept
<1>3. CASE FirstId(tel) \in homes
  BY <1>2, <1>3 DEF HomeOK
<1>4. ASSUME NEW t \in Slots, RegistersAt(t, {"selectId", "mkdir"}), Rq(t).tel = tel PROVE HomeOK(tel)'
  BY <1>1, <1>4 DEF HomeOK
<1>. QED  BY <1>2, <1>3, <1>4 DEF HomeOK

LEMMA HomeInvStep == KernelInv /\ HomeInv /\ [Next]_vars => HomeInv'
<1>. SUFFICES ASSUME KernelInv, HomeInv, [Next]_vars PROVE HomeInv'
  OBVIOUS
<1>. DEFINE Making(t) == RegistersAt(t, {"selectId", "mkdir"})
<1>1. ASSUME UNCHANGED <<t_user, homes>>, faults.seen \subseteq faults'.seen,
             Seen({"register", "crash"})' \/ \A t \in Slots : Making(t) => Making(t)' /\ Rq(t)' = Rq(t)
      PROVE  HomeInv'
  <2>1. AccountsKept /\ \A tel : Registered(tel)' => Registered(tel)
    BY <1>1, SameAccounts DEF KernelInv, AccountsKept
  <2>. QED  BY <1>1, <2>1, HomeKept
<1>2. CASE Open /\ UNCHANGED <<accountVars, videoVars>>
  BY <1>1, <1>2, OpenDoes DEF RegistersAt, Rq
<1>3. CASE Restart
  <2>1. /\ UNCHANGED <<t_user, homes>> /\ faults.seen \subseteq faults'.seen
        /\ "crash" \in faults'.seen \/ \A s \in Slots : run[s] = Idle
    BY <1>3, RestartDoes
  <2>2. Seen({"register", "crash"})' \/ \A t \in Slots : ~Making(t)
    BY <2>1 DEF Seen, RegistersAt
  <2>. QED  BY <1>1, <2>1, <2>2
<1>4. ASSUME NEW r \in Requests, Send(r) PROVE HomeInv'
  BY <1>1, <1>4, SendDoes DEF RegistersAt, Rq
<1>5. ASSUME NEW r \in Requests, Deal(r) PROVE HomeInv'
  <2>1. UNCHANGED <<t_user, homes>>
    BY <1>5, DealDoes
  <2>2. ASSUME NEW s \in Slots, Started(s, r) PROVE HomeInv'
    <3>1. \A t \in Slots : Making(t) => Making(t)' /\ Rq(t)' = Rq(t)
      BY <2>2 DEF Started, RegistersAt, Rq
    <3>. QED  BY <1>1, <2>1, <2>2, <3>1 DEF Started
  <2>3. CASE UNCHANGED <<run, faults>>
    BY <1>1, <2>1, <2>3 DEF RegistersAt, Rq
  <2>. QED  BY <1>5, <2>2, <2>3, DealDoes
<1>6. ASSUME NEW s \in Slots, run[s] # Idle, ~Making(s), UNCHANGED <<t_user, homes>>,
             faults.seen \subseteq faults'.seen, \A t \in Slots \ {s} : run'[t] = run[t]
      PROVE  HomeInv'
  BY <1>1, <1>6 DEF RegistersAt, Rq
<1>7. ASSUME NEW s \in Slots, LoginRq(s) \/ LoginRq_fails(s), UNCHANGED videoVars PROVE HomeInv'
  BY <1>6, <1>7, LoginSteps DEF Ended, WentOn, RegistersAt
<1>8. ASSUME NEW s \in Slots, playVideo(s) \/ playVideo_fails(s) \/ transcode_fails(s), UNCHANGED accountVars
      PROVE  HomeInv'
  BY <1>6, <1>8, ViewerSteps DEF Ended, WentOn, RegistersAt
<1>9. ASSUME NEW s \in Slots, RegisterRq_exists(s) \/ RegisterRq_reply(s), UNCHANGED videoVars PROVE HomeInv'
  <2>1. run[s] # Idle /\ ~Making(s)
    BY <1>9, AtIsThere DEF RegisterRq_exists, RegisterRq_reply, RegistersAt
  <2>. QED  BY <1>6, <1>9, <2>1, Register_exists, Register_reply DEF Ended, WentOn
<1>10. ASSUME NEW s \in Slots, RegisterRq_fails(s), UNCHANGED videoVars PROVE HomeInv'
  <2>1. Seen({"register", "crash"})'
    BY <1>10, Register_fails DEF Seen
  <2>. QED  BY <1>1, <1>10, <2>1, Register_fails
<1>11. ASSUME NEW s \in Slots, RegisterRq_insert(s), UNCHANGED videoVars PROVE HomeInv'
  <2>1. PICK r \in Requests : r = Rq(s) /\ r.type = "REGISTER_RQ"
    BY <1>11, AtIsThere DEF RegisterRq_insert
  <2>2. /\ RestKept /\ UNCHANGED <<homes, faults>>
        /\ \/ Ended(s, "register_error") /\ UNCHANGED t_user
           \/ /\ WentOn(s, "selectId") /\ (UniqueTel => ~Registered(r.tel))
              /\ t_user' = Append(t_user, [u_tel |-> r.tel, u_password |-> r.password])
    BY <1>11, <2>1, Register_insert
  <2>3. run[s] # Idle /\ run[s].fn = "RegisterRq" /\ ~Making(s)
    BY <1>11, AtIsThere DEF RegisterRq_insert, RegistersAt
  <2>4. CASE Ended(s, "register_error") /\ UNCHANGED t_user
    BY <1>6, <2>2, <2>4, <2>3 DEF Ended
  <2>5. CASE /\ WentOn(s, "selectId")
             /\ t_user' = Append(t_user, [u_tel |-> r.tel, u_password |-> r.password])
    <3>1. PICK a \in Account : a = [u_tel |-> r.tel, u_password |-> r.password]
      BY <2>1, AccountsAssumption DEF Account
    <3>2. \A tel : Registered(tel)' => Registered(tel) \/ tel = r.tel
      BY <2>5, <3>1, InsertedIsOne DEF KernelInv, StateOK
    <3>3. Making(s)' /\ Rq(s)' = r /\ \A t \in Slots \ {s} : run'[t] = run[t]
      BY <2>1, <2>5, <2>3, RunningIsNotIdle DEF WentOn, RegistersAt, Rq
    <3>4. ASSUME ~Seen({"register", "crash"})', NEW tel, Registered(tel)' PROVE HomeOK(tel)'
      <4>1. CASE tel = r.tel
        BY <3>3, <4>1 DEF HomeOK
      <4>2. CASE Registered(tel)
        <5>1. HomeOK(tel) /\ FirstId(tel)' = FirstId(tel)
          BY <2>2, <3>4, <4>2 DEF HomeInv, Seen, RestKept
        <5>2. ASSUME NEW t \in Slots, Making(t), Rq(t).tel = tel PROVE HomeOK(tel)'
          <6>1. run'[t] = run[t]
            BY <2>3, <3>3, <5>2
          <6>. QED  BY <5>2, <6>1 DEF HomeOK, RegistersAt, Rq
        <5>3. CASE FirstId(tel) \in homes
          BY <2>2, <5>1, <5>3 DEF HomeOK
        <5>. QED  BY <5>1, <5>2, <5>3 DEF HomeOK
      <4>. QED  BY <3>2, <3>4, <4>1, <4>2
    <3>. QED  BY <3>4 DEF HomeInv
  <2>. QED  BY <2>2, <2>4, <2>5
<1>12. ASSUME NEW s \in Slots, RegisterRq_selectId(s), UNCHANGED videoVars PROVE HomeInv'
  <2>1. Making(s)' /\ Rq(s)' = Rq(s)
    <3>1. At(s, "RegisterRq", "selectId")
      BY <1>12 DEF RegisterRq_selectId
    <3>2. WentOn(s, "mkdir") /\ run[s].fn = "RegisterRq"
      BY <1>12, <3>1, Register_selectId, AtIsThere
    <3>. QED  BY <3>2, RunningIsNotIdle DEF WentOn, RegistersAt, Rq
  <2>2. \A t \in Slots \ {s} : run'[t] = run[t]
    BY <1>12, Register_selectId DEF WentOn
  <2>. QED  BY <1>1, <1>12, <2>1, <2>2, Register_selectId DEF RegistersAt, Rq
<1>13. ASSUME NEW s \in Slots, RegisterRq_mkdir(s), UNCHANGED videoVars PROVE HomeInv'
  <2>1. PICK r \in Requests : r = Rq(s)
    BY <1>13, AtIsThere DEF RegisterRq_mkdir
  <2>2. /\ RestKept /\ UNCHANGED <<t_user, faults>> /\ homes' = homes \cup {FirstId(r.tel)}
        /\ \A t \in Slots \ {s} : run'[t] = run[t]
    BY <1>13, <2>1, Register_mkdir DEF Ended, WentOn
  <2>3. \A tel : Registered(tel)' = Registered(tel) /\ FirstId(tel)' = FirstId(tel)
    BY <2>2, SameAccounts DEF KernelInv
  <2>4. ASSUME ~Seen({"register", "crash"})', NEW tel, Registered(tel)' PROVE HomeOK(tel)'
    <3>1. Registered(tel) /\ HomeOK(tel) /\ FirstId(tel)' = FirstId(tel)
      BY <2>2, <2>3, <2>4 DEF HomeInv, Seen
    <3>2. CASE tel = r.tel \/ FirstId(tel) \in homes
      BY <2>2, <3>1, <3>2 DEF HomeOK
    <3>3. ASSUME NEW t \in Slots, Making(t), Rq(t).tel = tel, tel # r.tel PROVE HomeOK(tel)'
      <4>1. t # s
        BY <2>1, <3>3
      <4>. QED  BY <2>2, <3>3, <4>1 DEF HomeOK, RegistersAt, Rq
    <3>. QED  BY <3>1, <3>2, <3>3 DEF HomeOK
  <2>. QED  BY <2>4 DEF HomeInv
<1>14. CASE UNCHANGED vars
  BY <1>1, <1>14 DEF vars, kernelVars, accountVars, RegistersAt, Rq
<1>. QED  BY <1>2, <1>3, <1>4, <1>5, <1>7, <1>8, <1>9, <1>10, <1>11, <1>12, <1>13, <1>14
          DEF Next, Handler, HandlerFails, RegisterRq

LEMMA HomeInvariant == FairSpec => []HomeInv
BY HomeInvInit, HomeInvStep, KernelInvariant, PTL DEF FairSpec
-----------------------------------------------------------------------------
(* Who is online.  An entry of the map is about its user and names a client *)
(* that came in as that user; two logins that hold one object are logins of *)
(* one user, and what they have filled in is about that user.               *)
Logins == {r \in Requests : r.type = "LOGIN_RQ"}
CameIn(client, tel) ==
  \E r \in Logins : /\ r.client = client /\ r.tel = tel
                    /\ \/ reply[r].kind = "login_success"
                       \/ \E s \in Slots : LogsInAt(s, {"publish"}) /\ Rq(s) = r
HasObject(s) == LogsInAt(s, {"write", "publish"})

EntryOK(i) ==
  /\ i \in Ids /\ i = FirstId(t_user[i].u_tel)
  /\ heap[m_mapIdToUserinfo[i]].userid = i
  /\ CameIn(heap[m_mapIdToUserinfo[i]].clientfd, t_user[i].u_tel)
ObjectOK(s) ==
  HasObject(s) => /\ \A i \in DOMAIN m_mapIdToUserinfo :
                       m_mapIdToUserinfo[i] = run[s].info => i = run[s].id
                  /\ \A t \in Slots : HasObject(t) /\ run[t].info = run[s].info => run[t].id = run[s].id
FilledIn(s) ==
  LogsInAt(s, {"publish"}) => /\ heap[run[s].info].userid = run[s].id
                              /\ CameIn(heap[run[s].info].clientfd, Rq(s).tel)
OnlineInv ==
  /\ \A i \in DOMAIN m_mapIdToUserinfo : EntryOK(i)
  /\ \A s \in Slots : ObjectOK(s) /\ FilledIn(s)

LEMMA OnlineInvInit == Init => OnlineInv
BY DEF Init, KernelInit, AccountsInit, OnlineInv, ObjectOK, FilledIn, HasObject, LogsInAt

(* A user's id is that of the first account of its number, for good. *)
LEMMA UserStays ==
  ASSUME AccountsKept, NEW i \in Ids, i = FirstId(t_user[i].u_tel)
  PROVE  i \in Ids' /\ t_user'[i] = t_user[i] /\ (i = FirstId(t_user[i].u_tel))'
<1>1. i \in Ids' /\ t_user'[i] = t_user[i]
  BY DEF AccountsKept
<1>2. Registered(t_user[i].u_tel)
  BY DEF Registered, Accounts
<1>3. PICK tel : tel = t_user[i].u_tel
  OBVIOUS
<1>4. (t_user[i].u_tel)' = tel
  BY <1>1, <1>3
<1>5. FirstId(tel)' = FirstId(tel)
  BY <1>2, <1>3 DEF AccountsKept
<1>. QED  BY <1>1, <1>3, <1>4, <1>5

(* A step that leaves the map, the objects and those who hold one alone. *)
LEMMA OnlineKept ==
  ASSUME OnlineInv, AccountsKept, UNCHANGED <<m_mapIdToUserinfo, heap>>,
         \A t \in Slots : HasObject(t)' => run'[t] = run[t],
         \A client, tel : CameIn(client, tel) => CameIn(client, tel)'
  PROVE  OnlineInv'
<1>1. ASSUME NEW i \in DOMAIN m_mapIdToUserinfo PROVE EntryOK(i)'
  <2>1. EntryOK(i)
    BY DEF OnlineInv
  <2>2. i \in Ids' /\ t_user'[i] = t_user[i] /\ (i = FirstId(t_user[i].u_tel))'
    BY <2>1, UserStays DEF EntryOK
  <2>3. CameIn(heap[m_mapIdToUserinfo[i]].clientfd, t_user[i].u_tel)'
    BY <2>1, <2>2 DEF EntryOK
  <2>. QED  BY <2>1, <2>2, <2>3 DEF EntryOK
<1>2. \A t \in Slots : HasObject(t)' => HasObject(t) /\ run'[t] = run[t]
  BY DEF HasObject, LogsInAt
<1>3. ASSUME NEW s \in Slots PROVE ObjectOK(s)' /\ FilledIn(s)'
  <2>1. ObjectOK(s) /\ FilledIn(s)
    BY DEF OnlineInv
  <2>2. ObjectOK(s)'
    BY <1>2, <2>1 DEF ObjectOK
  <2>3. LogsInAt(s, {"publish"})' => HasObject(s)'
    BY DEF HasObject, LogsInAt
  <2>4. FilledIn(s)'
    BY <1>2, <2>1, <2>3 DEF FilledIn, LogsInAt, Rq
  <2>. QED  BY <2>2, <2>4
<1>. QED  BY <1>1, <1>3 DEF OnlineInv

(* Who came in has come in, after a step of the handler in s that does not  *)
(* stand before publishing, or that answers.                                *)
LEMMA CameInStays ==
  ASSUME KernelInv, NEW s \in Slots, run[s] # Idle,
         \/ \E k \in Kinds : Ended(s, k) /\ (LogsInAt(s, {"publish"}) => k = "login_success")
         \/ \E step \in Steps : WentOn(s, step) /\ ~LogsInAt(s, {"publish"})
  PROVE  \A client, tel : CameIn(client, tel) => CameIn(client, tel)'
<1>1. HandlerOK(s) /\ Rq(s) \in Requests
  BY DEF KernelInv, HandlersOK, StateOK, Running, Rq
<1>2. ASSUME NEW r \in Logins, reply[r].kind = "login_success" PROVE reply'[r].kind = "login_success"
  <2>1. r # Rq(s) /\ r \in Requests
    BY <1>1, <1>2 DEF HandlerOK, Logins
  <2>. QED  BY <1>2, <2>1 DEF Ended, WentOn
<1>3. ASSUME NEW r \in Logins, NEW t \in Slots, LogsInAt(t, {"publish"}), Rq(t) = r
      PROVE  reply'[r].kind = "login_success" \/ (LogsInAt(t, {"publish"})' /\ Rq(t)' = r)
  <2>1. CASE t = s
    BY <1>3, <2>1 DEF Ended
  <2>2. CASE t # s
    <3>1. run'[t] = run[t]
      BY <2>2 DEF Ended, WentOn
    <3>. QED  BY <1>3, <3>1 DEF LogsInAt, Rq
  <2>. QED  BY <2>1, <2>2
<1>. QED  BY <1>2, <1>3 DEF CameIn
(* The steps of a login. *)
LEMMA FindKeepsOnline ==
  ASSUME KernelInv, OnlineInv, NEW s \in Slots, LoginRq_find(s), UNCHANGED videoVars
  PROVE  OnlineInv'
<1>1. /\ run[s] # Idle /\ run[s].fn = "LoginRq" /\ run[s].step = "find" /\ HandlerOK(s)
  BY AtIsThere DEF LoginRq_find
<1>2. /\ RestKept /\ UNCHANGED m_mapIdToUserinfo /\ WentOn(s, "write") /\ run'[s].id = run[s].id
      /\ \/ /\ run[s].id \in DOMAIN m_mapIdToUserinfo /\ heap' = heap
            /\ run'[s].info = m_mapIdToUserinfo[run[s].id]
         \/ /\ run[s].id \notin DOMAIN m_mapIdToUserinfo
            /\ heap' = Append(heap, [userid |-> 0, clientfd |-> "none"])
            /\ run'[s].info = Len(heap) + 1
  BY Login_find
<1>3. \A client, tel : CameIn(client, tel) => CameIn(client, tel)'
  BY <1>1, <1>2, CameInStays DEF LogsInAt, Steps
<1>4. /\ heap \in Seq(User) /\ Len(heap) \in Nat
      /\ \A i \in DOMAIN m_mapIdToUserinfo : m_mapIdToUserinfo[i] \in 1..Len(heap)
  BY DEF KernelInv, StateOK
<1>5. \A j \in 1..Len(heap) : heap'[j] = heap[j]
  BY <1>2, <1>4
<1>6. \A t \in Slots : HasObject(t) => run[t].info \in 1..Len(heap)
  BY DEF KernelInv, HandlersOK, HandlerOK, HasObject, LogsInAt
<1>7. \A t \in Slots \ {s} : run'[t] = run[t]
  BY <1>2 DEF WentOn
<1>8. ~HasObject(s) /\ ~LogsInAt(s, {"publish"})'
  BY <1>1, <1>2 DEF HasObject, LogsInAt, WentOn
<1>9. ASSUME NEW i \in DOMAIN m_mapIdToUserinfo PROVE EntryOK(i)'
  <2>1. EntryOK(i) /\ heap'[m_mapIdToUserinfo[i]] = heap[m_mapIdToUserinfo[i]]
    BY <1>4, <1>5 DEF OnlineInv
  <2>2. i \in Ids' /\ t_user'[i] = t_user[i] /\ (i = FirstId(t_user[i].u_tel))'
    BY <1>2, <2>1, UserStays DEF EntryOK, RestKept, AccountsKept
  <2>3. CameIn(heap[m_mapIdToUserinfo[i]].clientfd, t_user[i].u_tel)'
    BY <1>2, <1>3, <2>1, <2>2 DEF EntryOK
  <2>. QED  BY <1>2, <2>1, <2>2, <2>3 DEF EntryOK
<1>10. ASSUME NEW t \in Slots PROVE FilledIn(t)'
  <2>1. SUFFICES ASSUME LogsInAt(t, {"publish"})' PROVE FilledIn(t)'
    BY DEF FilledIn
  <2>2. run'[t] = run[t] /\ LogsInAt(t, {"publish"}) /\ HasObject(t) /\ Rq(t)' = Rq(t)
    BY <1>7, <1>8, <2>1 DEF LogsInAt, HasObject, Rq
  <2>3. FilledIn(t) /\ heap'[run[t].info] = heap[run[t].info]
    BY <1>5, <1>6, <2>2 DEF OnlineInv
  <2>4. CameIn(heap[run[t].info].clientfd, Rq(t).tel)'
    BY <1>3, <2>2, <2>3 DEF FilledIn
  <2>. QED  BY <2>2, <2>3, <2>4 DEF FilledIn
(* No entry and no other login has the object, or it is of the same user. *)
<1>11. \A i \in DOMAIN m_mapIdToUserinfo : m_mapIdToUserinfo[i] = run'[s].info => i = run[s].id
  BY <1>2, <1>4 DEF OnlineInv, EntryOK
<1>12. ASSUME NEW t \in Slots \ {s}, HasObject(t), run[t].info = run'[s].info PROVE run[t].id = run[s].id
  <2>1. run[t].info \in 1..Len(heap) /\ ObjectOK(t)
    BY <1>6, <1>12 DEF OnlineInv
  <2>2. run[s].id \in DOMAIN m_mapIdToUserinfo /\ run[t].info = m_mapIdToUserinfo[run[s].id]
    BY <1>2, <1>4, <1>12, <2>1
  <2>. QED  BY <1>12, <2>1, <2>2 DEF ObjectOK
<1>13. \A t \in Slots \ {s} : HasObject(t)' => HasObject(t)
  BY <1>7 DEF HasObject, LogsInAt
<1>14. ASSUME NEW t \in Slots PROVE ObjectOK(t)'
  <2>1. CASE t = s
    BY <1>2, <1>7, <1>11, <1>12, <1>13, <2>1 DEF ObjectOK
  <2>2. CASE t # s /\ HasObject(t)'
    <3>1. run'[t] = run[t] /\ HasObject(t) /\ ObjectOK(t)
      BY <1>7, <1>13, <2>2 DEF OnlineInv
    <3>2. \A u \in Slots \ {s} : HasObject(u)' /\ run'[u].info = run'[t].info => run'[u].id = run'[t].id
      BY <1>7, <1>13, <3>1 DEF ObjectOK
    <3>3. run'[s].info = run'[t].info => run'[s].id = run'[t].id
      BY <1>2, <1>12, <2>2, <3>1
    <3>. QED  BY <1>2, <3>1, <3>2, <3>3 DEF ObjectOK
  <2>. QED  BY <2>1, <2>2 DEF ObjectOK
<1>. QED  BY <1>2, <1>9, <1>10, <1>14 DEF OnlineInv

LEMMA WriteKeepsOnline ==
  ASSUME KernelInv, OnlineInv, NEW s \in Slots, LoginRq_write(s), UNCHANGED videoVars
  PROVE  OnlineInv'
<1>1. /\ run[s] # Idle /\ run[s].fn = "LoginRq" /\ run[s].step = "write" /\ HandlerOK(s)
      /\ Rq(s) \in Requests /\ Rq(s).type = "LOGIN_RQ"
  BY AtIsThere DEF LoginRq_write, HandlerOK, setNetPackMap
<1>2. /\ RestKept /\ UNCHANGED <<t_user, m_mapIdToUserinfo>> /\ WentOn(s, "publish")
      /\ run'[s].id = run[s].id /\ run'[s].info = run[s].info
      /\ heap'[run[s].info] = [userid |-> run[s].id, clientfd |-> Rq(s).client]
      /\ \A j \in 1..Len(heap) : j # run[s].info => heap'[j] = heap[j]
  BY Login_write
<1>3. \A client, tel : CameIn(client, tel) => CameIn(client, tel)'
  BY <1>1, <1>2, CameInStays DEF LogsInAt, Steps
<1>4. HasObject(s) /\ LogsInAt(s, {"publish"})' /\ Rq(s)' = Rq(s) /\ ObjectOK(s)
  BY <1>1, <1>2, RunningIsNotIdle DEF HasObject, LogsInAt, WentOn, Rq, OnlineInv
<1>5. PICK r \in Logins : r = Rq(s)
  BY <1>1 DEF Logins
<1>6. CameIn(r.client, r.tel)'
  BY <1>4, <1>5 DEF CameIn
<1>7. /\ \A i \in DOMAIN m_mapIdToUserinfo : m_mapIdToUserinfo[i] \in 1..Len(heap)
      /\ \A t \in Slots : HasObject(t) => /\ run[t].info \in 1..Len(heap)
                                          /\ Registered(Rq(t).tel) /\ run[t].id = FirstId(Rq(t).tel)
  BY DEF KernelInv, StateOK, HandlersOK, HandlerOK, HasObject, LogsInAt
<1>8. \A t \in Slots : HasObject(t) => IsFirst(Rq(t).tel)
  BY <1>7, FirstIdIsFirst DEF KernelInv, StateOK
<1>9. r.tel = t_user[run[s].id].u_tel
  BY <1>4, <1>5, <1>7, <1>8 DEF IsFirst
<1>10. \A t \in Slots \ {s} : run'[t] = run[t]
  BY <1>2 DEF WentOn
<1>11. ASSUME NEW i \in DOMAIN m_mapIdToUserinfo PROVE EntryOK(i)'
  <2>1. EntryOK(i)
    BY DEF OnlineInv
  <2>2. i \in Ids' /\ t_user'[i] = t_user[i] /\ (i = FirstId(t_user[i].u_tel))'
    BY <1>2, <2>1, UserStays DEF EntryOK, RestKept, AccountsKept
  <2>3. CASE m_mapIdToUserinfo[i] = run[s].info
    <3>1. i = run[s].id
      BY <1>4, <2>3 DEF ObjectOK
    <3>2. heap'[m_mapIdToUserinfo[i]].userid = i /\ heap'[m_mapIdToUserinfo[i]].clientfd = r.client
      BY <1>2, <1>5, <2>3, <3>1
    <3>3. CameIn(heap[m_mapIdToUserinfo[i]].clientfd, t_user[i].u_tel)'
      BY <1>2, <1>6, <1>9, <3>1, <3>2
    <3>. QED  BY <1>2, <2>2, <3>2, <3>3 DEF EntryOK
  <2>4. CASE m_mapIdToUserinfo[i] # run[s].info
    <3>1. heap'[m_mapIdToUserinfo[i]] = heap[m_mapIdToUserinfo[i]]
      BY <1>2, <1>7, <2>4
    <3>2. CameIn(heap[m_mapIdToUserinfo[i]].clientfd, t_user[i].u_tel)'
      BY <1>2, <1>3, <2>1, <2>2, <3>1 DEF EntryOK
    <3>. QED  BY <1>2, <2>1, <2>2, <3>1, <3>2 DEF EntryOK
  <2>. QED  BY <2>3, <2>4
<1>12. ASSUME NEW t \in Slots PROVE FilledIn(t)'
  <2>1. SUFFICES ASSUME LogsInAt(t, {"publish"})' PROVE FilledIn(t)'
    BY DEF FilledIn
  <2>2. /\ run'[t].info = run[t].info /\ run'[t].id = run[t].id /\ HasObject(t) /\ Rq(t)' = Rq(t)
        /\ t = s \/ LogsInAt(t, {"publish"})
    BY <1>2, <1>4, <1>10, <2>1 DEF LogsInAt, HasObject, Rq
  <2>3. CASE run[t].info = run[s].info
    <3>1. run[t].id = run[s].id
      BY <1>4, <2>2, <2>3 DEF ObjectOK
    <3>2. Rq(t).tel = r.tel
      BY <1>8, <1>7, <1>9, <2>2, <3>1 DEF IsFirst
    <3>3. heap'[run[t].info].userid = run[t].id /\ heap'[run[t].info].clientfd = r.client
      BY <1>2, <1>5, <2>3, <3>1
    <3>4. CameIn(heap[run[t].info].clientfd, Rq(t).tel)'
      BY <1>6, <2>2, <3>2, <3>3
    <3>. QED  BY <2>2, <3>3, <3>4 DEF FilledIn
  <2>4. CASE run[t].info # run[s].info
    <3>1. heap'[run[t].info] = heap[run[t].info] /\ FilledIn(t)
      BY <1>2, <1>7, <2>2, <2>4 DEF OnlineInv
    <3>2. CameIn(heap[run[t].info].clientfd, Rq(t).tel)'
      BY <1>3, <2>2, <2>4, <3>1 DEF FilledIn
    <3>. QED  BY <2>2, <2>4, <3>1, <3>2 DEF FilledIn
  <2>. QED  BY <2>3, <2>4
<1>13. \A t \in Slots : HasObject(t)' => HasObject(t) /\ run'[t].info = run[t].info /\ run'[t].id = run[t].id
  BY <1>2, <1>4, <1>10 DEF HasObject, LogsInAt
<1>14. \A t \in Slots : ObjectOK(t)'
  BY <1>2, <1>13 DEF OnlineInv, ObjectOK
<1>. QED  BY <1>2, <1>11, <1>12, <1>14 DEF OnlineInv

LEMMA InsertKeepsOnline ==
  ASSUME KernelInv, OnlineInv, NEW s \in Slots, LoginRq_insert(s), UNCHANGED videoVars
  PROVE  OnlineInv'
<1>1. /\ run[s] # Idle /\ run[s].fn = "LoginRq" /\ run[s].step = "publish" /\ HandlerOK(s)
  BY AtIsThere DEF LoginRq_insert
<1>2. /\ RestKept /\ UNCHANGED <<t_user, heap>> /\ Ended(s, "login_success")
      /\ DOMAIN m_mapIdToUserinfo' = DOMAIN m_mapIdToUserinfo \cup {run[s].id}
      /\ m_mapIdToUserinfo'[run[s].id] = run[s].info
      /\ \A i \in DOMAIN m_mapIdToUserinfo : i # run[s].id => m_mapIdToUserinfo'[i] = m_mapIdToUserinfo[i]
  BY Login_insert
<1>3. "login_success" \in Kinds
  BY DEF Kinds, Answers, LoginAnswers
<1>4. \A client, tel : CameIn(client, tel) => CameIn(client, tel)'
  BY <1>1, <1>2, <1>3, CameInStays
<1>5. LogsInAt(s, {"publish"}) /\ HasObject(s) /\ ObjectOK(s) /\ FilledIn(s)
  BY <1>1 DEF LogsInAt, HasObject, OnlineInv
<1>6. IsFirst(Rq(s).tel) /\ run[s].id = FirstId(Rq(s).tel)
  BY <1>1, FirstIdIsFirst DEF HandlerOK, KernelInv, StateOK
<1>7. PICK id : id = run[s].id
  OBVIOUS
<1>8. EntryOK(id)'
  <2>1. id \in Ids /\ t_user[id].u_tel = Rq(s).tel /\ id = FirstId(t_user[id].u_tel)
    BY <1>6, <1>7 DEF IsFirst
  <2>2. id \in Ids' /\ t_user'[id] = t_user[id] /\ (id = FirstId(t_user[id].u_tel))'
    BY <1>2, <2>1, UserStays DEF RestKept, AccountsKept
  <2>3. heap'[m_mapIdToUserinfo'[id]] = heap[run[s].info]
    BY <1>2, <1>7
  <2>4. CameIn(heap[m_mapIdToUserinfo[id]].clientfd, t_user[id].u_tel)'
    BY <1>4, <1>5, <2>1, <2>2, <2>3 DEF FilledIn
  <2>. QED  BY <1>5, <1>7, <2>2, <2>3, <2>4 DEF EntryOK, FilledIn
<1>9. ASSUME NEW i \in DOMAIN m_mapIdToUserinfo, i # id PROVE EntryOK(i)'
  <2>1. EntryOK(i) /\ m_mapIdToUserinfo'[i] = m_mapIdToUserinfo[i]
    BY <1>2, <1>7, <1>9 DEF OnlineInv
  <2>2. i \in Ids' /\ t_user'[i] = t_user[i] /\ (i = FirstId(t_user[i].u_tel))'
    BY <1>2, <2>1, UserStays DEF EntryOK, RestKept, AccountsKept
  <2>3. CameIn(heap[m_mapIdToUserinfo[i]].clientfd, t_user[i].u_tel)'
    BY <1>2, <1>4, <2>1, <2>2 DEF EntryOK
  <2>. QED  BY <1>2, <2>1, <2>2, <2>3 DEF EntryOK
<1>10. \A t \in Slots : (HasObject(t) \/ LogsInAt(t, {"publish"}))' => HasObject(t) /\ run'[t] = run[t]
  BY <1>2 DEF Ended, HasObject, LogsInAt
<1>11. ASSUME NEW t \in Slots PROVE FilledIn(t)' /\ ObjectOK(t)'
  <2>1. FilledIn(t) /\ ObjectOK(t)
    BY DEF OnlineInv
  <2>2. FilledIn(t)'
    <3>1. SUFFICES ASSUME LogsInAt(t, {"publish"})' PROVE FilledIn(t)'
      BY DEF FilledIn
    <3>2. run'[t] = run[t] /\ LogsInAt(t, {"publish"}) /\ Rq(t)' = Rq(t)
      BY <1>10, <3>1 DEF LogsInAt, Rq
    <3>3. CameIn(heap[run[t].info].clientfd, Rq(t).tel)'
      BY <1>2, <1>4, <2>1, <3>2 DEF FilledIn
    <3>. QED  BY <1>2, <2>1, <3>2, <3>3 DEF FilledIn
  <2>3. ObjectOK(t)'
    <3>1. SUFFICES ASSUME HasObject(t)' PROVE ObjectOK(t)'
      BY DEF ObjectOK
    <3>2. run'[t] = run[t] /\ HasObject(t)
      BY <1>10, <3>1
    <3>3. \A i \in DOMAIN m_mapIdToUserinfo' : m_mapIdToUserinfo'[i] = run'[t].info => i = run'[t].id
      BY <1>2, <1>5, <2>1, <3>2 DEF ObjectOK
    <3>4. \A u \in Slots : HasObject(u)' /\ run'[u].info = run'[t].info => run'[u].id = run'[t].id
      BY <1>10, <2>1, <3>2 DEF ObjectOK
    <3>. QED  BY <3>3, <3>4 DEF ObjectOK
  <2>. QED  BY <2>2, <2>3
<1>. QED  BY <1>2, <1>7, <1>8, <1>9, <1>11 DEF OnlineInv
LEMMA OnlineInvStep == KernelInv /\ OnlineInv /\ [Next]_vars => OnlineInv'
<1>. SUFFICES ASSUME KernelInv, OnlineInv, [Next]_vars PROVE OnlineInv'
  OBVIOUS
<1>1. ASSUME UNCHANGED <<t_user, m_mapIdToUserinfo, heap>>, \A t \in Slots : HasObject(t)' => run'[t] = run[t],
             \A client, tel : CameIn(client, tel) => CameIn(client, tel)'
      PROVE  OnlineInv'
  BY <1>1, SameAccounts, OnlineKept DEF KernelInv, AccountsKept
<1>2. ASSUME \A r \in Logins : reply[r].kind = "login_success" => reply'[r].kind = "login_success",
             \A t \in Slots : LogsInAt(t, {"publish"}) => run'[t] = run[t]
      PROVE  \A client, tel : CameIn(client, tel) => CameIn(client, tel)'
  <2>1. ASSUME NEW client, NEW tel, CameIn(client, tel) PROVE CameIn(client, tel)'
    <3>1. PICK r \in Logins : /\ r.client = client /\ r.tel = tel
                              /\ \/ reply[r].kind = "login_success"
                                 \/ \E s \in Slots : LogsInAt(s, {"publish"}) /\ Rq(s) = r
      BY <2>1 DEF CameIn
    <3>2. CASE reply[r].kind = "login_success"
      BY <1>2, <3>1, <3>2 DEF CameIn
    <3>3. ASSUME NEW s \in Slots, LogsInAt(s, {"publish"}), Rq(s) = r PROVE CameIn(client, tel)'
      <4>1. LogsInAt(s, {"publish"})' /\ Rq(s)' = r
        BY <1>2, <3>3 DEF LogsInAt, Rq
      <4>. QED  BY <3>1, <4>1 DEF CameIn
    <3>. QED  BY <3>1, <3>2, <3>3
  <2>. QED  BY <2>1
<1>3. CASE Open /\ UNCHANGED <<accountVars, videoVars>>
  <2>1. UNCHANGED <<t_user, m_mapIdToUserinfo, heap, run, reply>>
    BY <1>3, OpenDoes
  <2>. QED  BY <1>1, <1>2, <2>1
<1>4. CASE Restart
  <2>1. (\A s \in Slots : run'[s] = Idle) /\ DOMAIN m_mapIdToUserinfo' = {}
    BY <1>4, RestartDoes
  <2>. QED  BY <2>1 DEF OnlineInv, ObjectOK, FilledIn, HasObject, LogsInAt
<1>5. ASSUME NEW r \in Requests, Send(r) PROVE OnlineInv'
  <2>1. /\ UNCHANGED <<t_user, m_mapIdToUserinfo, heap, run>> /\ reply[r].kind = "none"
        /\ \A q \in Requests \ {r} : reply'[q] = reply[q]
    BY <1>5, SendDoes
  <2>2. \A q \in Logins : reply[q].kind = "login_success" => reply'[q].kind = "login_success"
    BY <2>1 DEF Logins
  <2>. QED  BY <1>1, <1>2, <2>1, <2>2
<1>6. ASSUME NEW r \in Requests, Deal(r) PROVE OnlineInv'
  <2>1. UNCHANGED <<t_user, m_mapIdToUserinfo, heap>> /\ reply[r].kind = "asked"
    BY <1>6, DealDoes DEF Deal, DealData
  <2>2. ASSUME NEW s \in Slots, Started(s, r) PROVE OnlineInv'
    <3>1. /\ run'[s].step \in {"exists", "select"} /\ run[s] = Idle /\ reply' = reply
          /\ \A t \in Slots \ {s} : run'[t] = run[t]
      BY <2>2 DEF Started, Running, HandlerNames, First
    <3>2. \A t \in Slots : /\ HasObject(t)' => run'[t] = run[t]
                           /\ LogsInAt(t, {"publish"}) => run'[t] = run[t]
      BY <3>1 DEF HasObject, LogsInAt
    <3>. QED  BY <1>1, <1>2, <2>1, <3>1, <3>2
  <2>3. CASE /\ UNCHANGED <<run, faults>> /\ reply'[r].kind = "ignored"
             /\ \A q \in Requests \ {r} : reply'[q] = reply[q]
    <3>1. \A q \in Logins : reply[q].kind = "login_success" => reply'[q].kind = "login_success"
      BY <2>1, <2>3 DEF Logins
    <3>. QED  BY <1>1, <1>2, <2>1, <2>3, <3>1
  <2>. QED  BY <1>6, <2>2, <2>3, DealDoes
<1>7. ASSUME NEW s \in Slots, RegisterRq(s) \/ RegisterRq_fails(s), UNCHANGED videoVars PROVE OnlineInv'
  <2>1. /\ RestKept /\ UNCHANGED <<m_mapIdToUserinfo, heap>> /\ run[s] # Idle /\ run[s].fn = "RegisterRq"
        /\ (\E k \in RegisterAnswers : Ended(s, k)) \/ (\E step \in Steps : WentOn(s, step))
    BY <1>7, RegisterSteps
  <2>2. \A t \in Slots : HasObject(t)' => run'[t] = run[t]
    BY <2>1 DEF HasObject, LogsInAt, Ended, WentOn
  <2>3. ~LogsInAt(s, {"publish"}) /\ RegisterAnswers \subseteq Kinds
    BY <2>1 DEF LogsInAt, Kinds, Answers
  <2>4. \A client, tel : CameIn(client, tel) => CameIn(client, tel)'
    BY <2>1, <2>3, CameInStays
  <2>. QED  BY <2>1, <2>2, <2>4, OnlineKept DEF RestKept, AccountsKept
<1>8. ASSUME NEW s \in Slots, playVideo(s) \/ playVideo_fails(s) \/ transcode_fails(s), UNCHANGED accountVars
      PROVE  OnlineInv'
  <2>1. /\ UNCHANGED <<t_user, m_mapIdToUserinfo, heap>> /\ run[s] # Idle /\ run[s].fn = "playVideo"
        /\ (\E k \in {"play", "dropped"} : Ended(s, k)) \/ (\E step \in Steps : WentOn(s, step))
    BY <1>8, ViewerSteps
  <2>2. \A t \in Slots : HasObject(t)' => run'[t] = run[t]
    BY <2>1 DEF HasObject, LogsInAt, Ended, WentOn
  <2>3. ~LogsInAt(s, {"publish"}) /\ {"play", "dropped"} \subseteq Kinds
    BY <2>1 DEF LogsInAt, Kinds, Answers
  <2>4. \A client, tel : CameIn(client, tel) => CameIn(client, tel)'
    BY <2>1, <2>3, CameInStays
  <2>. QED  BY <1>1, <2>1, <2>2, <2>4
<1>9. ASSUME NEW s \in Slots, LoginRq_select(s) \/ LoginRq_fails(s), UNCHANGED videoVars PROVE OnlineInv'
  <2>1. run[s] # Idle /\ run[s].fn = "LoginRq" /\ run[s].step = "select"
    BY <1>9, AtIsThere DEF LoginRq_select, LoginRq_fails
  <2>2. /\ UNCHANGED <<t_user, m_mapIdToUserinfo, heap>>
        /\ (\E k \in LoginAnswers : Ended(s, k)) \/ WentOn(s, "find")
    BY <1>9, Login_select, Login_fails DEF LoginAnswers
  <2>3. \A t \in Slots : HasObject(t)' => run'[t] = run[t]
    BY <2>1, <2>2 DEF HasObject, LogsInAt, Ended, WentOn
  <2>4. ~LogsInAt(s, {"publish"}) /\ LoginAnswers \subseteq Kinds /\ "find" \in Steps
    BY <2>1 DEF LogsInAt, Kinds, Answers, Steps
  <2>5. \A client, tel : CameIn(client, tel) => CameIn(client, tel)'
    BY <2>1, <2>2, <2>4, CameInStays
  <2>. QED  BY <1>1, <2>2, <2>3, <2>5
<1>10. ASSUME NEW s \in Slots, LoginRq_find(s) \/ LoginRq_write(s) \/ LoginRq_insert(s), UNCHANGED videoVars
       PROVE  OnlineInv'
  BY <1>10, FindKeepsOnline, WriteKeepsOnline, InsertKeepsOnline
<1>11. CASE UNCHANGED vars
  <2>1. UNCHANGED <<t_user, m_mapIdToUserinfo, heap, run, reply>>
    BY <1>11 DEF vars, kernelVars, accountVars
  <2>. QED  BY <1>1, <1>2, <2>1
<1>. QED  BY <1>3, <1>4, <1>5, <1>6, <1>7, <1>8, <1>9, <1>10, <1>11
          DEF Next, Handler, HandlerFails, LoginRq

LEMMA OnlineInvariant == FairSpec => []OnlineInv
BY OnlineInvInit, OnlineInvStep, KernelInvariant, PTL DEF FairSpec

(* Who is online came in with a login of its own, and has a directory or    *)
(* one that is being made, for every number of workers that log in at once. *)
THEOREM OnlineIsALoginHolds == FairSpec => []OnlineIsALogin
<1>1. KernelInv /\ OnlineInv /\ HomeInv => OnlineIsALogin
  <2>. SUFFICES ASSUME KernelInv, OnlineInv, HomeInv, NEW i \in DOMAIN m_mapIdToUserinfo
                PROVE  LET info == heap[m_mapIdToUserinfo[i]]
                       IN  /\ info.userid = i /\ LoggedIn(info.clientfd, t_user[i].u_tel)
                           /\ ~Seen({"register", "crash"}) => i \in homes \/ Registering(t_user[i].u_tel)
    BY DEF OnlineIsALogin
  <2>1. EntryOK(i)
    BY DEF OnlineInv
  <2>2. \A client, tel : CameIn(client, tel) => LoggedIn(client, tel)
    BY DEF CameIn, LoggedIn, InProgress, Logins, LogsInAt
  <2>3. Registered(t_user[i].u_tel)
    BY <2>1 DEF EntryOK, Registered, Accounts
  <2>4. ~Seen({"register", "crash"}) => i \in homes \/ Registering(t_user[i].u_tel)
    BY <2>1, <2>3 DEF EntryOK, HomeInv, HomeOK, RegistersAt, Registering
  <2>. QED  BY <2>1, <2>2, <2>4 DEF EntryOK
<1>. QED  BY <1>1, KernelInvariant, OnlineInvariant, HomeInvariant, PTL
=============================================================================
