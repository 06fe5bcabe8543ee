---------------------------- MODULE ServiceProofs ----------------------------
(***************************************************************************)
(* Type correctness of Service, for every set of requests, every schema of *)
(* t_user, every number of slots and every bound on failures.              *)
(*                                                                         *)
(* That the user id a handler remembers is a natural number, and that      *)
(* select always finds one there, rest on what each handler knows at each  *)
(* of its statements.  KernelInv says that: the table of handlers that the *)
(* dispatch saw, the row that the handler's own insert or select has found, *)
(* and the entry of the table of users that its find has returned.         *)
(***************************************************************************)
EXTENDS Service, FiniteSetTheorems, SequenceTheorems, TLAPS

Mains == {"start", "connected", "listening", "EventLoop"}
Kinds == {"never", "none", "asked", "dropped", "ignored"} \cup Answers
Reply == [kind : Kinds, sure : {"none", "login_success", "password_error"}]
Account == [u_tel : STRING, u_password : STRING]
User == [userid : Nat, clientfd : {"none"} \cup {r.client : r \in {q \in Requests : q.type = "LOGIN_RQ"}}]
HandlerNames == {"RegisterRq", "LoginRq", "playVideo"}
Steps == {"exists", "insert", "selectId", "mkdir", "reply", "select", "find", "write",
          "publish", "stat", "transcode"}
Disturbances == {"open", "crash", "twice", "register", "login", "select", "transcode"}
Running ==
  [r : Requests, fn : HandlerNames, step : Steps, id : Nat, info : Nat, md5 : Directories]

(* What every variable holds. *)
StateOK ==
  /\ main \in Mains
  /\ m_NetPackMap \in {Cleared, setNetPackMap}
  /\ run \in [Slots -> Running \cup {Idle}]
  /\ reply \in [Requests -> Reply]
  /\ faults \in [left : Nat, seen : SUBSET Disturbances]
  /\ t_user \in Seq(Account)
  /\ homes \subseteq Ids
  /\ heap \in Seq(User)
  /\ \A i \in DOMAIN m_mapIdToUserinfo : m_mapIdToUserinfo[i] \in 1..Len(heap)
  /\ hls \in [Directories -> {"none", "dir", "list"}] /\ hls[NoFile] # "list"

(* What a handler that runs remembers. *)
HandlerOK(s) ==
  /\ main = "EventLoop" /\ m_NetPackMap = setNetPackMap
  /\ Rq(s).type \in DOMAIN setNetPackMap /\ setNetPackMap[Rq(s).type] = run[s].fn
  /\ reply[Rq(s)].kind = "asked"
  /\ run[s].id \in Ids \cup {0} /\ run[s].info \in 0..Len(heap)
  /\ run[s].fn = "RegisterRq" /\ run[s].step \in {"selectId", "mkdir", "reply"}
       => Registered(Rq(s).tel)
  /\ run[s].fn = "RegisterRq" /\ run[s].step \in {"mkdir", "reply"}
       => run[s].id = FirstId(Rq(s).tel)
  /\ run[s].fn = "LoginRq" /\ run[s].step \in {"find", "write", "publish"}
       => Registered(Rq(s).tel) /\ run[s].id = FirstId(Rq(s).tel)
  /\ run[s].fn = "LoginRq" /\ run[s].step \in {"write", "publish"}
       => run[s].info \in 1..Len(heap)

HandlersOK == \A s \in Slots : run[s] # Idle => HandlerOK(s)
OneSlotEach == \A s, t \in Slots : run[s] # Idle /\ run[t] # Idle /\ Rq(s) = Rq(t) => s = t

KernelInv == StateOK /\ HandlersOK /\ OneSlotEach

-----------------------------------------------------------------------------
LEMMA RunningIsNotIdle == \A h \in Running : h # Idle
<1>. SUFFICES ASSUME NEW h \in Running PROVE h # Idle
  OBVIOUS
<1>1. "fn" \in DOMAIN h /\ "fn" \notin DOMAIN Idle
  BY DEF Running, Idle
<1>. QED  BY <1>1

(* A set of natural numbers that is not empty has a least element. *)
LEMMA Smallest ==
  ASSUME NEW S \in SUBSET Nat, S # {}
  PROVE  \E n \in S : \A m \in S : n <= m
<1>. DEFINE R == {ss \in Nat \X Nat : ss[1] < ss[2]}
<1>1. IsWellFoundedOn(R, Nat)
  BY NatLessThanWellFounded, SMT DEF OpToRel
<1>. HIDE DEF R
<1>2. PICK x \in S : \A y \in S : ~ (<<y, x>> \in R)
  BY <1>1, WFMin
<1>3. ASSUME NEW y \in S PROVE x <= y
  <2>1. x \in Nat /\ y \in Nat
    OBVIOUS
  <2>2. y < x => <<y, x>> \in R
    BY <2>1, SMT DEF R
  <2>. QED  BY <1>2, <2>1, <2>2
<1>. QED  BY <1>3

(* The first account of a number that has one. *)
IsFirst(tel) ==
  /\ FirstId(tel) \in Ids /\ FirstId(tel) \in Nat \ {0}
  /\ t_user[FirstId(tel)].u_tel = tel
  /\ FirstId(tel) \in Accounts(tel)
  /\ \A j \in Accounts(tel) : FirstId(tel) <= j

LEMMA FirstIdIsFirst ==
  t_user \in Seq(Account) => \A tel : Registered(tel) => IsFirst(tel)
<1>. SUFFICES ASSUME t_user \in Seq(Account), NEW tel, Registered(tel)
              PROVE  IsFirst(tel)
  OBVIOUS
<1>1. Accounts(tel) \in SUBSET Nat /\ Accounts(tel) # {}
  BY DEF Accounts, Ids, Registered
<1>2. \E n \in Accounts(tel) : \A m \in Accounts(tel) : n <= m
  BY <1>1, Smallest
<1>3. FirstId(tel) \in Accounts(tel) /\ \A j \in Accounts(tel) : FirstId(tel) <= j
  BY <1>2 DEF FirstId
<1>4. FirstId(tel) \in Ids /\ t_user[FirstId(tel)].u_tel = tel
  BY <1>3 DEF Accounts
<1>. QED  BY <1>3, <1>4 DEF Ids, IsFirst

LEMMA FirstIdIsFirstNext ==
  (t_user \in Seq(Account) => \A tel : Registered(tel) => IsFirst(tel))'
BY FirstIdIsFirst, PTL

(* An account that is inserted comes last. *)
LEMMA InsertedIsLast ==
  ASSUME t_user \in Seq(Account), NEW a \in Account, t_user' = Append(t_user, a)
  PROVE  /\ t_user' \in Seq(Account)
         /\ Ids \subseteq Ids'
         /\ \A i \in Ids : t_user'[i] = t_user[i]
         /\ Registered(a.u_tel)'
         /\ \A tel : Registered(tel) => Registered(tel)' /\ FirstId(tel)' = FirstId(tel)
<1>1. /\ t_user' \in Seq(Account) /\ Len(t_user) \in Nat
      /\ Len(t_user') = Len(t_user) + 1 /\ t_user'[Len(t_user) + 1] = a
      /\ \A i \in Ids : t_user'[i] = t_user[i]
  BY DEF Ids
<1>2. Ids \subseteq Ids' /\ Len(t_user) + 1 \in Ids'
  BY <1>1 DEF Ids
<1>3. \A tel : Accounts(tel) \subseteq Accounts(tel)'
  BY <1>1, <1>2 DEF Accounts
<1>4. Registered(a.u_tel)'
  BY <1>1, <1>2 DEF Accounts, Registered
<1>5. ASSUME NEW tel, Registered(tel)
      PROVE  Registered(tel)' /\ FirstId(tel)' = FirstId(tel)
  <2>1. Registered(tel)'
    BY <1>3, <1>5 DEF Registered
  <2>2. FirstId(tel) \in Accounts(tel) /\ \A j \in Accounts(tel) : FirstId(tel) <= j
    BY <1>5, FirstIdIsFirst DEF IsFirst
  <2>3. /\ FirstId(tel)' \in Accounts(tel)'
        /\ \A j \in Accounts(tel)' : FirstId(tel)' <= j
        /\ FirstId(tel)' \in Nat
    BY <1>1, <2>1, FirstIdIsFirstNext DEF IsFirst
  <2>4. FirstId(tel)' \in Ids => FirstId(tel)' \in Accounts(tel)
    BY <1>1, <2>3 DEF Accounts
  <2>5. FirstId(tel)' <= FirstId(tel) /\ FirstId(tel) \in Ids
    BY <1>3, <2>2, <2>3 DEF Accounts
  <2>6. FirstId(tel)' \in Ids
    BY <1>1, <2>3, <2>5 DEF Ids, Accounts
  <2>. QED  BY <1>1, <2>1, <2>2, <2>3, <2>4, <2>5, <2>6 DEF Ids
<1>. QED  BY <1>1, <1>2, <1>4, <1>5

-----------------------------------------------------------------------------
LEMMA KernelInvInit == Init => KernelInv
<1>. SUFFICES ASSUME Init PROVE KernelInv
  OBVIOUS
<1>. USE DEF Init, KernelInit, AccountsInit, VideoInit
<1>1. StateOK
  <2>1. /\ main \in Mains /\ m_NetPackMap \in {Cleared, setNetPackMap}
        /\ run \in [Slots -> Running \cup {Idle}]
        /\ faults \in [left : Nat, seen : SUBSET Disturbances]
    BY KernelAssumption DEF Mains
  <2>2. reply \in [Requests -> Reply]
    BY DEF Kinds, Reply
  <2>3. /\ t_user \in Seq(Account) /\ homes \subseteq Ids /\ heap \in Seq(User)
        /\ \A i \in DOMAIN m_mapIdToUserinfo : m_mapIdToUserinfo[i] \in 1..Len(heap)
    BY AccountsAssumption DEF Account, Ids
  <2>4. hls \in [Directories -> {"none", "dir", "list"}] /\ hls[NoFile] # "list"
    BY DEF Directories
  <2>. QED  BY <2>1, <2>2, <2>3, <2>4 DEF StateOK
<1>2. HandlersOK /\ OneSlotEach
  BY DEF HandlersOK, OneSlotEach
<1>. QED  BY <1>1, <1>2 DEF KernelInv

(* What a step of the handler in s does to run and reply: it ends with an   *)
(* answer, or it goes on to another step.                                   *)
Ended(s, k) ==
  /\ run' \in [Slots -> Running \cup {Idle}] /\ run'[s] = Idle
  /\ \A t \in Slots \ {s} : run'[t] = run[t]
  /\ reply' \in [Requests -> Reply]
  /\ reply'[Rq(s)].kind = k /\ reply'[Rq(s)].sure = reply[Rq(s)].sure
  /\ \A q \in Requests \ {Rq(s)} : reply'[q] = reply[q]

WentOn(s, step) ==
  /\ run' \in [Slots -> Running \cup {Idle}] /\ run'[s] \in Running
  /\ run'[s].r = run[s].r /\ run'[s].fn = run[s].fn /\ run'[s].step = step
  /\ \A t \in Slots \ {s} : run'[t] = run[t]
  /\ reply' = reply

LEMMA SendDataEnds ==
  ASSUME StateOK, NEW s \in Slots, run[s] # Idle, NEW k \in Kinds, SendData(s, k)
  PROVE  Ended(s, k)
<1>1. run[s] \in Running /\ Rq(s) \in Requests
  BY DEF StateOK, Running, Rq
<1>2. /\ run' \in [Slots -> Running \cup {Idle}] /\ run'[s] = Idle
      /\ \A t \in Slots \ {s} : run'[t] = run[t]
  BY DEF StateOK, SendData
<1>3. \A q \in Requests : reply[q] \in Reply
  BY DEF StateOK
<1>4. \A x \in Reply : LET y == [x EXCEPT !.kind = k]
                       IN  y \in Reply /\ y.kind = k /\ y.sure = x.sure
  BY DEF Reply
<1>5. reply' = [reply EXCEPT ![Rq(s)] = [reply[Rq(s)] EXCEPT !.kind = k]]
  BY DEF SendData
<1>6. [reply[Rq(s)] EXCEPT !.kind = k] \in Reply
  BY <1>1, <1>3, <1>4
<1>. QED  BY <1>1, <1>2, <1>3, <1>4, <1>5, <1>6 DEF StateOK, Ended

(* A handler that goes on may note an id, an object or a content. *)
LEMMA GoesOn ==
  ASSUME StateOK, NEW s \in Slots, run[s] # Idle, reply' = reply, NEW h \in Running,
         run' = [run EXCEPT ![s] = h], h.r = run[s].r, h.fn = run[s].fn
  PROVE  WentOn(s, h.step) /\ run'[s] = h
BY DEF StateOK, WentOn

LEMMA GotoGoesOn ==
  ASSUME StateOK, NEW s \in Slots, run[s] # Idle, reply' = reply, NEW step \in Steps,
         Goto(s, step)
  PROVE  WentOn(s, step) /\ run'[s].id = run[s].id /\ run'[s].info = run[s].info /\ run'[s].md5 = run[s].md5
<1>. DEFINE h == [run[s] EXCEPT !.step = step]
<1>1. run[s] \in Running
  BY DEF StateOK
<1>2. /\ h \in Running /\ h.r = run[s].r /\ h.fn = run[s].fn /\ h.step = step
      /\ h.id = run[s].id /\ h.info = run[s].info /\ h.md5 = run[s].md5
  BY <1>1 DEF Running
<1>3. run' = [run EXCEPT ![s] = h]
  BY DEF StateOK, Goto
<1>. HIDE DEF h
<1>. QED  BY <1>2, <1>3, GoesOn

LEMMA NotesId ==
  ASSUME StateOK, NEW s \in Slots, run[s] # Idle, reply' = reply, NEW step \in Steps, NEW x \in Nat,
         run' = [run EXCEPT ![s].step = step, ![s].id = x]
  PROVE  WentOn(s, step) /\ run'[s].id = x /\ run'[s].info = run[s].info /\ run'[s].md5 = run[s].md5
<1>. DEFINE h == [run[s] EXCEPT !.step = step, !.id = x]
<1>1. run[s] \in Running
  BY DEF StateOK
<1>2. /\ h \in Running /\ h.r = run[s].r /\ h.fn = run[s].fn /\ h.step = step
      /\ h.info = run[s].info /\ h.md5 = run[s].md5 /\ h.id = x
  BY <1>1 DEF Running
<1>3. run' = [run EXCEPT ![s] = h]
  BY DEF StateOK
<1>. HIDE DEF h
<1>. QED  BY <1>2, <1>3, GoesOn

LEMMA NotesInfo ==
  ASSUME StateOK, NEW s \in Slots, run[s] # Idle, reply' = reply, NEW step \in Steps, NEW x \in Nat,
         run' = [run EXCEPT ![s].step = step, ![s].info = x]
  PROVE  WentOn(s, step) /\ run'[s].info = x /\ run'[s].id = run[s].id /\ run'[s].md5 = run[s].md5
<1>. DEFINE h == [run[s] EXCEPT !.step = step, !.info = x]
<1>1. run[s] \in Running
  BY DEF StateOK
<1>2. /\ h \in Running /\ h.r = run[s].r /\ h.fn = run[s].fn /\ h.step = step
      /\ h.id = run[s].id /\ h.md5 = run[s].md5 /\ h.info = x
  BY <1>1 DEF Running
<1>3. run' = [run EXCEPT ![s] = h]
  BY DEF StateOK
<1>. HIDE DEF h
<1>. QED  BY <1>2, <1>3, GoesOn

LEMMA NotesMd5 ==
  ASSUME StateOK, NEW s \in Slots, run[s] # Idle, reply' = reply, NEW step \in Steps, NEW x \in Directories,
         run' = [run EXCEPT ![s].step = step, ![s].md5 = x]
  PROVE  WentOn(s, step) /\ run'[s].md5 = x /\ run'[s].id = run[s].id /\ run'[s].info = run[s].info
<1>. DEFINE h == [run[s] EXCEPT !.step = step, !.md5 = x]
<1>1. run[s] \in Running
  BY DEF StateOK
<1>2. /\ h \in Running /\ h.r = run[s].r /\ h.fn = run[s].fn /\ h.step = step
      /\ h.id = run[s].id /\ h.info = run[s].info /\ h.md5 = x
  BY <1>1 DEF Running
<1>3. run' = [run EXCEPT ![s] = h]
  BY DEF StateOK
<1>. HIDE DEF h
<1>. QED  BY <1>2, <1>3, GoesOn

(* What no step of a handler takes away from the other ones. *)
RestKept ==
  /\ main' = main /\ m_NetPackMap' = m_NetPackMap
  /\ t_user' \in Seq(Account) /\ Ids \subseteq Ids'
  /\ \A i \in Ids : t_user'[i] = t_user[i]
  /\ \A tel : Registered(tel) => Registered(tel)' /\ FirstId(tel)' = FirstId(tel)
  /\ heap' \in Seq(User) /\ Len(heap) <= Len(heap')

LEMMA SameAccounts ==
  ASSUME StateOK, UNCHANGED t_user
  PROVE  /\ t_user' \in Seq(Account) /\ Ids' = Ids
         /\ \A tel : Registered(tel)' = Registered(tel) /\ FirstId(tel)' = FirstId(tel)
                     /\ Accounts(tel)' = Accounts(tel)
BY DEF StateOK, Ids, Registered, FirstId, Accounts

LEMMA SameHeap == ASSUME StateOK, UNCHANGED heap PROVE heap' \in Seq(User) /\ Len(heap) <= Len(heap')
BY DEF StateOK

LEMMA OnlyTheHandler ==
  ASSUME StateOK, UNCHANGED <<main, m_NetPackMap, t_user, homes, m_mapIdToUserinfo, heap, hls>>,
         run' \in [Slots -> Running \cup {Idle}], reply' \in [Requests -> Reply],
         faults' \in [left : Nat, seen : SUBSET Disturbances]
  PROVE  StateOK' /\ RestKept
<1>1. RestKept
  BY SameAccounts, SameHeap DEF RestKept
<1>2. Ids' = Ids
  BY SameAccounts
<1>3. StateOK'
  BY <1>1, <1>2 DEF StateOK, RestKept
<1>. QED  BY <1>1, <1>3

LEMMA OthersKept ==
  ASSUME KernelInv, NEW s \in Slots, run[s] # Idle, RestKept,
         \/ \E k \in Kinds : Ended(s, k)
         \/ \E step \in Steps : WentOn(s, step) /\ HandlerOK(s)'
  PROVE  HandlersOK' /\ OneSlotEach'
<1>1. /\ run' \in [Slots -> Running \cup {Idle}]
      /\ \A t \in Slots \ {s} : run'[t] = run[t]
      /\ \A q \in Requests \ {Rq(s)} : reply'[q] = reply[q]
      /\ run'[s] # Idle => run'[s].r = run[s].r /\ HandlerOK(s)'
  BY DEF Ended, WentOn
<1>2. OneSlotEach'
  BY <1>1 DEF KernelInv, OneSlotEach, Rq
<1>3. ASSUME NEW t \in Slots, run'[t] # Idle PROVE HandlerOK(t)'
  <2>1. CASE t = s
    BY <1>1, <1>3, <2>1
  <2>2. CASE t # s
    <3>1. run'[t] = run[t] /\ HandlerOK(t) /\ run[t] \in Running /\ Rq(t)' = Rq(t)
      BY <1>1, <1>3, <2>2 DEF KernelInv, HandlersOK, StateOK, Rq
    <3>2. Rq(t) # Rq(s) /\ Rq(t) \in Requests
      BY <1>3, <2>2, <3>1 DEF KernelInv, OneSlotEach, Running, Rq
    <3>3. reply'[Rq(t)] = reply[Rq(t)]
      BY <1>1, <3>2
    <3>4. run[t].info \in 0..Len(heap') /\ (run[t].info \in 1..Len(heap) => run[t].info \in 1..Len(heap'))
      BY <3>1 DEF RestKept, HandlerOK, KernelInv, StateOK
    <3>5. run[t].id \in Ids' \cup {0}
      BY <3>1 DEF RestKept, HandlerOK
    <3>. QED  BY <3>1, <3>3, <3>4, <3>5 DEF RestKept, HandlerOK
  <2>. QED  BY <2>1, <2>2
<1>. QED  BY <1>2, <1>3 DEF HandlersOK

LEMMA HandlerEnds ==
  ASSUME KernelInv, NEW s \in Slots, run[s] # Idle, NEW k \in Kinds, SendData(s, k), RestKept
  PROVE  Ended(s, k) /\ HandlersOK' /\ OneSlotEach'
BY SendDataEnds, OthersKept DEF KernelInv

(* The handler in s is where its name and its step say, on its own request. *)
LEMMA AtIsThere ==
  ASSUME KernelInv, NEW s \in Slots, NEW fn, NEW step, At(s, fn, step)
  PROVE  /\ run[s] # Idle /\ run[s] \in Running /\ Rq(s) \in Requests /\ HandlerOK(s)
         /\ run[s].fn = fn /\ run[s].step = step
         /\ fn = "RegisterRq" => Rq(s).type = "REGISTER_RQ"
         /\ fn = "LoginRq" => Rq(s).type = "LOGIN_RQ"
<1>1. run[s] # Idle /\ run[s] \in Running /\ run[s].fn = fn /\ run[s].step = step
  BY DEF At, KernelInv, StateOK
<1>2. Rq(s) \in Requests /\ HandlerOK(s)
  BY <1>1 DEF KernelInv, HandlersOK, Running, Rq
<1>3. \A t \in DOMAIN setNetPackMap :
        /\ setNetPackMap[t] = "RegisterRq" => t = "REGISTER_RQ"
        /\ setNetPackMap[t] = "LoginRq" => t = "LOGIN_RQ"
  BY DEF setNetPackMap
<1>. QED  BY <1>1, <1>2, <1>3 DEF HandlerOK

-----------------------------------------------------------------------------
(* The steps of the handlers, each by what it does. *)

(* The number is taken, or it is free. *)
LEMMA Register_exists ==
  ASSUME KernelInv, NEW s \in Slots, RegisterRq_exists(s), UNCHANGED videoVars
  PROVE  /\ KernelInv' /\ RestKept
         /\ UNCHANGED <<t_user, homes, m_mapIdToUserinfo, heap, hls, faults>>
         /\ \/ Ended(s, "user_is_exist")
            \/ WentOn(s, "insert") /\ ~Registered(Rq(s).tel)
<1>. USE DEF KernelInv
<1>1. run[s] # Idle /\ HandlerOK(s) /\ run[s] \in Running
  BY AtIsThere DEF RegisterRq_exists
<1>2. UNCHANGED <<main, m_NetPackMap, t_user, homes, m_mapIdToUserinfo, heap, hls>> /\ UNCHANGED faults
  BY DEF RegisterRq_exists, accountVars, videoVars
<1>3. RestKept
  BY <1>2, SameAccounts, SameHeap DEF RestKept
<1>4. CASE Registered(Rq(s).tel)
  <2>1. SendData(s, "user_is_exist") /\ "user_is_exist" \in Kinds
    BY <1>4 DEF RegisterRq_exists, Kinds, Answers, RegisterAnswers
  <2>2. Ended(s, "user_is_exist") /\ HandlersOK' /\ OneSlotEach'
    BY <1>1, <1>3, <2>1, HandlerEnds
  <2>3. StateOK'
    BY <1>2, <2>2, OnlyTheHandler DEF Ended, StateOK
  <2>. QED  BY <1>1, <1>2, <1>3, <1>4, <2>2, <2>3
<1>5. CASE ~Registered(Rq(s).tel)
  <2>1. Goto(s, "insert") /\ reply' = reply /\ "insert" \in Steps
    BY <1>1, <1>5 DEF RegisterRq_exists, Steps, Running
  <2>2. WentOn(s, "insert") /\ run'[s].id = run[s].id /\ run'[s].info = run[s].info /\ run'[s].md5 = run[s].md5
    BY <1>1, <2>1, GotoGoesOn
  <2>3. HandlerOK(s)'
    BY <1>1, <1>2, <1>3, <2>2 DEF HandlerOK, WentOn, RestKept, Rq, Ids
  <2>4. HandlersOK' /\ OneSlotEach'
    BY <1>1, <1>3, <2>1, <2>2, <2>3, OthersKept
  <2>5. StateOK'
    BY <1>2, <2>2, OnlyTheHandler DEF WentOn, StateOK
  <2>. QED  BY <1>2, <1>3, <1>5, <2>2, <2>4, <2>5
<1>. QED  BY <1>4, <1>5

(* An account is inserted, unless the schema refuses a second one. *)
LEMMA Register_insert ==
  ASSUME KernelInv, NEW s \in Slots, RegisterRq_insert(s), UNCHANGED videoVars
  PROVE  /\ KernelInv' /\ RestKept
         /\ UNCHANGED <<homes, m_mapIdToUserinfo, heap, hls, faults>>
         /\ \/ Ended(s, "register_error") /\ UNCHANGED t_user
            \/ /\ WentOn(s, "selectId") /\ (UniqueTel => ~Registered(Rq(s).tel))
               /\ t_user' = Append(t_user, [u_tel |-> Rq(s).tel, u_password |-> Rq(s).password])
<1>. USE DEF KernelInv
<1>1. run[s] # Idle /\ HandlerOK(s) /\ run[s] \in Running /\ Rq(s) \in Requests
      /\ Rq(s).type = "REGISTER_RQ"
  BY AtIsThere DEF RegisterRq_insert
<1>2. UNCHANGED <<main, m_NetPackMap, faults, homes, m_mapIdToUserinfo, heap, hls>>
  BY DEF RegisterRq_insert, videoVars
<1>3. CASE UniqueTel /\ Accounts(Rq(s).tel) # {}
  <2>1. SendData(s, "register_error") /\ UNCHANGED t_user /\ "register_error" \in Kinds
    BY <1>3 DEF RegisterRq_insert, Kinds, Answers, RegisterAnswers
  <2>2. RestKept
    BY <1>2, <2>1, SameAccounts, SameHeap DEF RestKept
  <2>3. Ended(s, "register_error") /\ HandlersOK' /\ OneSlotEach'
    BY <1>1, <2>1, <2>2, HandlerEnds
  <2>4. StateOK'
    BY <1>2, <2>1, <2>3, OnlyTheHandler DEF Ended, StateOK
  <2>. QED  BY <1>2, <2>1, <2>2, <2>3, <2>4
<1>4. CASE ~(UniqueTel /\ Accounts(Rq(s).tel) # {})
  <2>1. PICK a \in Account : a = [u_tel |-> Rq(s).tel, u_password |-> Rq(s).password]
    BY <1>1, AccountsAssumption DEF Account
  <2>2. /\ t_user' = Append(t_user, a) /\ a.u_tel = Rq(s).tel
        /\ Goto(s, "selectId") /\ reply' = reply /\ "selectId" \in Steps
    BY <1>4, <2>1 DEF RegisterRq_insert, Steps
  <2>3. /\ t_user' \in Seq(Account) /\ Ids \subseteq Ids' /\ Registered(a.u_tel)'
        /\ \A i \in Ids : t_user'[i] = t_user[i]
        /\ \A tel : Registered(tel) => Registered(tel)' /\ FirstId(tel)' = FirstId(tel)
    BY <2>2, InsertedIsLast DEF StateOK
  <2>4. RestKept
    BY <1>2, <2>3, SameHeap DEF RestKept
  <2>5. WentOn(s, "selectId") /\ run'[s].id = run[s].id /\ run'[s].info = run[s].info
    BY <1>1, <2>2, GotoGoesOn
  <2>6. HandlerOK(s)'
    BY <1>1, <1>2, <2>2, <2>3, <2>5 DEF HandlerOK, WentOn, Rq
  <2>7. HandlersOK' /\ OneSlotEach'
    BY <1>1, <2>2, <2>4, <2>5, <2>6, OthersKept
  <2>8. StateOK'
    BY <1>2, <2>3, <2>5 DEF WentOn, StateOK
  <2>. QED  BY <1>2, <1>4, <2>1, <2>2, <2>4, <2>5, <2>7, <2>8 DEF Registered
<1>. QED  BY <1>3, <1>4

(* The id of the first account with the number is noted. *)
LEMMA Register_selectId ==
  ASSUME KernelInv, NEW s \in Slots, RegisterRq_selectId(s), UNCHANGED videoVars
  PROVE  /\ KernelInv' /\ RestKept
         /\ UNCHANGED <<t_user, homes, m_mapIdToUserinfo, heap, hls, faults>>
         /\ WentOn(s, "mkdir") /\ Registered(Rq(s).tel)
         /\ run'[s].id = FirstId(Rq(s).tel)
<1>. USE DEF KernelInv
<1>1. /\ run[s] # Idle /\ HandlerOK(s) /\ run[s] \in Running
      /\ run[s].fn = "RegisterRq" /\ run[s].step = "selectId"
  BY AtIsThere DEF RegisterRq_selectId
<1>2. UNCHANGED <<main, m_NetPackMap, t_user, homes, m_mapIdToUserinfo, heap, hls>> /\ UNCHANGED faults
  BY DEF RegisterRq_selectId, accountVars, videoVars
<1>3. RestKept
  BY <1>2, SameAccounts, SameHeap DEF RestKept
<1>4. PICK tel : tel = Rq(s).tel
  OBVIOUS
<1>5. Registered(tel) /\ FirstId(tel) \in Ids /\ FirstId(tel) \in Nat
  BY <1>1, <1>4, FirstIdIsFirst DEF HandlerOK, StateOK, IsFirst
<1>6. run' = [run EXCEPT ![s].step = "mkdir", ![s].id = FirstId(tel)]
      /\ reply' = reply /\ "mkdir" \in Steps
  BY <1>4 DEF RegisterRq_selectId, NewId, Steps
<1>7. WentOn(s, "mkdir") /\ run'[s].id = FirstId(tel) /\ run'[s].info = run[s].info
  <2>. PICK x \in Nat : x = FirstId(tel)
    BY <1>5
  <2>1. /\ StateOK /\ run[s] # Idle /\ reply' = reply /\ "mkdir" \in Steps
        /\ run' = [run EXCEPT ![s].step = "mkdir", ![s].id = x]
    BY <1>1, <1>6
  <2>. QED  BY <2>1, NotesId
<1>8. Registered(tel)' /\ FirstId(tel)' = FirstId(tel) /\ Rq(s)'.tel = tel /\ Ids' = Ids
  BY <1>2, <1>4, <1>5, <1>7, SameAccounts DEF WentOn, Rq
<1>9. HandlerOK(s)'
  BY <1>1, <1>2, <1>5, <1>7, <1>8 DEF HandlerOK, WentOn, Rq
<1>10. HandlersOK' /\ OneSlotEach'
  BY <1>1, <1>3, <1>6, <1>7, <1>9, OthersKept
<1>11. StateOK'
  BY <1>2, <1>7, OnlyTheHandler DEF WentOn, StateOK
<1>. QED  BY <1>2, <1>3, <1>4, <1>5, <1>7, <1>10, <1>11

(* The directory is made, or exists. *)
LEMMA Register_mkdir ==
  ASSUME KernelInv, NEW s \in Slots, RegisterRq_mkdir(s), UNCHANGED videoVars
  PROVE  /\ KernelInv' /\ RestKept
         /\ UNCHANGED <<t_user, m_mapIdToUserinfo, heap, hls, faults>>
         /\ Registered(Rq(s).tel) /\ homes' = homes \cup {FirstId(Rq(s).tel)}
         /\ \/ WentOn(s, "reply") /\ FirstId(Rq(s).tel) \notin homes
            \/ Ended(s, "register_error")
<1>. USE DEF KernelInv
<1>1. /\ run[s] # Idle /\ HandlerOK(s) /\ run[s] \in Running
      /\ run[s].fn = "RegisterRq" /\ run[s].step = "mkdir"
  BY AtIsThere DEF RegisterRq_mkdir
<1>2. /\ UNCHANGED <<main, m_NetPackMap, t_user, m_mapIdToUserinfo, heap, hls, faults>>
      /\ homes' = homes \cup {run[s].id}
  BY DEF RegisterRq_mkdir, videoVars
<1>3. RestKept
  BY <1>2, SameAccounts, SameHeap DEF RestKept
<1>4. PICK tel : tel = Rq(s).tel
  OBVIOUS
<1>5. Registered(tel) /\ FirstId(tel) \in Ids /\ run[s].id = FirstId(tel) /\ Ids' = Ids
  BY <1>1, <1>2, <1>4, FirstIdIsFirst, SameAccounts DEF HandlerOK, StateOK, IsFirst
<1>6. ASSUME run' \in [Slots -> Running \cup {Idle}] /\ reply' \in [Requests -> Reply]
      PROVE  StateOK'
  BY <1>2, <1>3, <1>5, <1>6 DEF StateOK, RestKept
<1>7. CASE run[s].id \notin homes
  <2>1. Goto(s, "reply") /\ reply' = reply /\ "reply" \in Steps
    BY <1>7 DEF RegisterRq_mkdir, Mkdir, Steps
  <2>2. WentOn(s, "reply") /\ run'[s].id = run[s].id /\ run'[s].info = run[s].info
    BY <1>1, <2>1, GotoGoesOn
  <2>3. Registered(tel)' /\ FirstId(tel)' = FirstId(tel) /\ Rq(s)'.tel = tel
    BY <1>3, <1>4, <1>5, <2>2 DEF WentOn, Rq, RestKept
  <2>4. HandlerOK(s)'
    BY <1>1, <1>2, <1>5, <2>1, <2>2, <2>3 DEF HandlerOK, WentOn, Rq
  <2>5. HandlersOK' /\ OneSlotEach'
    BY <1>1, <1>3, <2>1, <2>2, <2>4, OthersKept
  <2>6. StateOK'
    BY <1>6, <2>1, <2>2 DEF WentOn, StateOK
  <2>. QED  BY <1>2, <1>3, <1>4, <1>5, <1>7, <2>2, <2>5, <2>6
<1>8. CASE run[s].id \in homes
  <2>1. SendData(s, "register_error") /\ "register_error" \in Kinds
    BY <1>8 DEF RegisterRq_mkdir, Mkdir, Kinds, Answers, RegisterAnswers
  <2>2. Ended(s, "register_error") /\ HandlersOK' /\ OneSlotEach'
    BY <1>1, <1>3, <2>1, HandlerEnds
  <2>3. StateOK'
    BY <1>6, <2>2 DEF Ended
  <2>. QED  BY <1>2, <1>3, <1>4, <1>5, <2>2, <2>3
<1>. QED  BY <1>7, <1>8

(* The client is told that the number is its own. *)
LEMMA Register_reply ==
  ASSUME KernelInv, NEW s \in Slots, RegisterRq_reply(s), UNCHANGED videoVars
  PROVE  /\ KernelInv' /\ RestKept
         /\ UNCHANGED <<t_user, homes, m_mapIdToUserinfo, heap, hls, faults>>
         /\ Ended(s, "register_success")
<1>. USE DEF KernelInv
<1>1. run[s] # Idle /\ HandlerOK(s) /\ run[s] \in Running
  BY AtIsThere DEF RegisterRq_reply
<1>2. UNCHANGED <<main, m_NetPackMap, t_user, homes, m_mapIdToUserinfo, heap, hls>> /\ UNCHANGED faults
  BY DEF RegisterRq_reply, accountVars, videoVars
<1>3. RestKept
  BY <1>2, SameAccounts, SameHeap DEF RestKept
<1>4. SendData(s, "register_success") /\ "register_success" \in Kinds
  BY DEF RegisterRq_reply, Kinds, Answers, RegisterAnswers
<1>5. Ended(s, "register_success") /\ HandlersOK' /\ OneSlotEach'
  BY <1>1, <1>3, <1>4, HandlerEnds
<1>6. StateOK'
  BY <1>2, <1>5, OnlyTheHandler DEF Ended, StateOK
<1>. QED  BY <1>2, <1>3, <1>5, <1>6

(* A call that fails is answered with an error. *)
LEMMA Register_fails ==
  ASSUME KernelInv, NEW s \in Slots, RegisterRq_fails(s), UNCHANGED videoVars
  PROVE  /\ KernelInv' /\ RestKept
         /\ UNCHANGED <<t_user, homes, m_mapIdToUserinfo, heap, hls>>
         /\ Ended(s, "register_error") /\ faults'.seen = faults.seen \cup {"register"}
<1>. USE DEF KernelInv
<1>1. run[s] # Idle /\ HandlerOK(s) /\ run[s] \in Running
  BY AtIsThere DEF RegisterRq_fails
<1>2. UNCHANGED <<main, m_NetPackMap, t_user, homes, m_mapIdToUserinfo, heap, hls>>
      /\ faults' \in [left : Nat, seen : SUBSET Disturbances]
      /\ faults'.seen = faults.seen \cup {"register"}
  BY DEF RegisterRq_fails, accountVars, videoVars, StateOK, Fault, Disturbances
<1>3. RestKept
  BY <1>2, SameAccounts, SameHeap DEF RestKept
<1>4. SendData(s, "register_error") /\ "register_error" \in Kinds
  BY DEF RegisterRq_fails, Kinds, Answers, RegisterAnswers, Return
<1>5. Ended(s, "register_error") /\ HandlersOK' /\ OneSlotEach'
  BY <1>1, <1>3, <1>4, HandlerEnds
<1>6. StateOK'
  BY <1>2, <1>5, OnlyTheHandler DEF Ended, StateOK
<1>. QED  BY <1>2, <1>3, <1>5, <1>6

(* A select that fails is answered as if there were no such user. *)
LEMMA Login_fails ==
  ASSUME KernelInv, NEW s \in Slots, LoginRq_fails(s), UNCHANGED videoVars
  PROVE  /\ KernelInv' /\ RestKept
         /\ UNCHANGED <<t_user, homes, m_mapIdToUserinfo, heap, hls>>
         /\ Ended(s, "user_not_exist") /\ faults'.seen = faults.seen \cup {"login"}
<1>. USE DEF KernelInv
<1>1. run[s] # Idle /\ HandlerOK(s) /\ run[s] \in Running
  BY AtIsThere DEF LoginRq_fails
<1>2. UNCHANGED <<main, m_NetPackMap, t_user, homes, m_mapIdToUserinfo, heap, hls>>
      /\ faults' \in [left : Nat, seen : SUBSET Disturbances]
      /\ faults'.seen = faults.seen \cup {"login"}
  BY DEF LoginRq_fails, accountVars, videoVars, StateOK, Fault, Disturbances
<1>3. RestKept
  BY <1>2, SameAccounts, SameHeap DEF RestKept
<1>4. SendData(s, "user_not_exist") /\ "user_not_exist" \in Kinds
  BY DEF LoginRq_fails, Kinds, Answers, LoginAnswers, Return
<1>5. Ended(s, "user_not_exist") /\ HandlersOK' /\ OneSlotEach'
  BY <1>1, <1>3, <1>4, HandlerEnds
<1>6. StateOK'
  BY <1>2, <1>5, OnlyTheHandler DEF Ended, StateOK
<1>. QED  BY <1>2, <1>3, <1>5, <1>6

(* Who logs in is refused, or its account is noted. *)
LEMMA Login_select ==
  ASSUME KernelInv, NEW s \in Slots, LoginRq_select(s), UNCHANGED videoVars
  PROVE  /\ KernelInv' /\ RestKept
         /\ UNCHANGED <<t_user, homes, m_mapIdToUserinfo, heap, hls, faults>>
         /\ \/ Ended(s, "user_not_exist") /\ ~Registered(Rq(s).tel)
            \/ /\ Registered(Rq(s).tel) /\ Ended(s, "password_error")
               /\ t_user[FirstId(Rq(s).tel)].u_password # Rq(s).password
            \/ /\ Registered(Rq(s).tel) /\ WentOn(s, "find") /\ run'[s].id = FirstId(Rq(s).tel)
               /\ t_user[FirstId(Rq(s).tel)].u_password = Rq(s).password
<1>. USE DEF KernelInv
<1>1. /\ run[s] # Idle /\ HandlerOK(s) /\ run[s] \in Running
      /\ run[s].fn = "LoginRq" /\ run[s].step = "select"
  BY AtIsThere DEF LoginRq_select
<1>2. UNCHANGED <<main, m_NetPackMap, t_user, homes, m_mapIdToUserinfo, heap, hls>> /\ UNCHANGED faults
  BY DEF LoginRq_select, accountVars, videoVars
<1>3. RestKept
  BY <1>2, SameAccounts, SameHeap DEF RestKept
<1>4. PICK tel : tel = Rq(s).tel
  OBVIOUS
<1>5. ASSUME NEW k \in {"user_not_exist", "password_error"}, SendData(s, k)
      PROVE  Ended(s, k) /\ KernelInv'
  <2>1. k \in Kinds
    BY DEF Kinds, Answers, LoginAnswers
  <2>2. Ended(s, k) /\ HandlersOK' /\ OneSlotEach'
    BY <1>1, <1>3, <1>5, <2>1, HandlerEnds
  <2>3. StateOK'
    BY <1>2, <2>2, OnlyTheHandler DEF Ended, StateOK
  <2>. QED  BY <2>2, <2>3
<1>6. CASE ~Registered(tel)
  <2>1. SendData(s, "user_not_exist")
    BY <1>4, <1>6 DEF LoginRq_select, Registered
  <2>. QED  BY <1>2, <1>3, <1>4, <1>5, <1>6, <2>1
<1>7. CASE Registered(tel) /\ t_user[FirstId(tel)].u_password # Rq(s).password
  <2>1. SendData(s, "password_error")
    BY <1>4, <1>7 DEF LoginRq_select, Registered
  <2>. QED  BY <1>2, <1>3, <1>4, <1>5, <1>7, <2>1
<1>8. CASE Registered(tel) /\ t_user[FirstId(tel)].u_password = Rq(s).password
  <2>1. FirstId(tel) \in Ids /\ FirstId(tel) \in Nat
    BY <1>8, FirstIdIsFirst DEF StateOK, IsFirst
  <2>2. run' = [run EXCEPT ![s].step = "find", ![s].id = FirstId(tel)]
        /\ reply' = reply /\ "find" \in Steps
    BY <1>4, <1>8 DEF LoginRq_select, Registered, Steps
  <2>3. WentOn(s, "find") /\ run'[s].id = FirstId(tel) /\ run'[s].info = run[s].info
    <3>. PICK x \in Nat : x = FirstId(tel)
      BY <2>1
    <3>1. /\ StateOK /\ run[s] # Idle /\ reply' = reply /\ "find" \in Steps
          /\ run' = [run EXCEPT ![s].step = "find", ![s].id = x]
      BY <1>1, <2>2
    <3>. QED  BY <3>1, NotesId
  <2>4. Registered(tel)' /\ FirstId(tel)' = FirstId(tel) /\ Rq(s)'.tel = tel /\ Ids' = Ids
    BY <1>2, <1>4, <1>8, <2>3, SameAccounts DEF WentOn, Rq
  <2>5. HandlerOK(s)'
    BY <1>1, <1>2, <2>1, <2>3, <2>4 DEF HandlerOK, WentOn, Rq
  <2>6. HandlersOK' /\ OneSlotEach'
    BY <1>1, <1>3, <2>2, <2>3, <2>5, OthersKept
  <2>7. StateOK'
    BY <1>2, <2>3, OnlyTheHandler DEF WentOn, StateOK
  <2>. QED  BY <1>2, <1>3, <1>4, <1>8, <2>3, <2>6, <2>7
<1>. QED  BY <1>6, <1>7, <1>8

(* The object of the account is found, or a new one is made. *)
LEMMA Login_find ==
  ASSUME KernelInv, NEW s \in Slots, LoginRq_find(s), UNCHANGED videoVars
  PROVE  /\ KernelInv' /\ RestKept
         /\ UNCHANGED <<t_user, homes, m_mapIdToUserinfo, hls, faults>>
         /\ WentOn(s, "write") /\ run'[s].id = run[s].id
         /\ \/ /\ run[s].id \in DOMAIN m_mapIdToUserinfo /\ heap' = heap
               /\ run'[s].info = m_mapIdToUserinfo[run[s].id]
            \/ /\ run[s].id \notin DOMAIN m_mapIdToUserinfo
               /\ heap' = Append(heap, [userid |-> 0, clientfd |-> "none"])
               /\ run'[s].info = Len(heap) + 1
<1>. USE DEF KernelInv
<1>1. /\ run[s] # Idle /\ HandlerOK(s) /\ run[s] \in Running
      /\ run[s].fn = "LoginRq" /\ run[s].step = "find"
  BY AtIsThere DEF LoginRq_find
<1>2. UNCHANGED <<main, m_NetPackMap, t_user, homes, m_mapIdToUserinfo, hls, faults>>
      /\ reply' = reply /\ "write" \in Steps
  BY DEF LoginRq_find, videoVars, Steps
<1>3. PICK tel : tel = Rq(s).tel
  OBVIOUS
<1>4. Registered(tel) /\ run[s].id = FirstId(tel)
  BY <1>1, <1>3 DEF HandlerOK
<1>5. ASSUME NEW info \in Nat, heap' \in Seq(User), Len(heap) <= Len(heap'),
             info \in 1..Len(heap'), run' = [run EXCEPT ![s].step = "write", ![s].info = info]
      PROVE  /\ KernelInv' /\ RestKept /\ WentOn(s, "write")
             /\ run'[s].id = run[s].id /\ run'[s].info = info
  <2>1. RestKept
    BY <1>2, <1>5, SameAccounts DEF RestKept
  <2>2. WentOn(s, "write") /\ run'[s].id = run[s].id /\ run'[s].info = info
    BY <1>1, <1>2, <1>5, NotesInfo
  <2>3. Registered(tel)' /\ FirstId(tel)' = FirstId(tel) /\ Rq(s)'.tel = tel /\ Ids' = Ids
    BY <1>2, <1>3, <1>4, <2>2, SameAccounts DEF WentOn, Rq
  <2>4. HandlerOK(s)'
    BY <1>1, <1>2, <1>4, <1>5, <2>2, <2>3 DEF HandlerOK, WentOn, Rq
  <2>5. HandlersOK' /\ OneSlotEach'
    BY <1>1, <1>2, <2>1, <2>2, <2>4, OthersKept
  <2>6. StateOK'
    BY <1>2, <1>5, <2>1, <2>2, <2>3 DEF WentOn, StateOK, RestKept
  <2>. QED  BY <2>1, <2>2, <2>5, <2>6
<1>6. CASE run[s].id \in DOMAIN m_mapIdToUserinfo
  <2>1. m_mapIdToUserinfo[run[s].id] \in 1..Len(heap) /\ heap \in Seq(User)
    BY <1>6 DEF StateOK
  <2>2. Found(run[s].id) = {run[s].id}
    BY <1>6 DEF Found
  <2>3. heap' = heap
        /\ run' = [run EXCEPT ![s].step = "write", ![s].info = m_mapIdToUserinfo[run[s].id]]
    BY <2>2 DEF LoginRq_find
  <2>4. PICK info \in Nat : info = m_mapIdToUserinfo[run[s].id]
    BY <2>1
  <2>5. /\ heap' \in Seq(User) /\ Len(heap) <= Len(heap') /\ info \in 1..Len(heap')
        /\ run' = [run EXCEPT ![s].step = "write", ![s].info = info]
    BY <2>1, <2>3, <2>4
  <2>6. KernelInv' /\ RestKept /\ WentOn(s, "write") /\ run'[s].id = run[s].id /\ run'[s].info = info
    BY <1>5, <2>5
  <2>. QED  BY <1>2, <1>6, <2>3, <2>4, <2>6
<1>7. CASE run[s].id \notin DOMAIN m_mapIdToUserinfo
  <2>1. Found(run[s].id) = {}
    BY <1>7 DEF Found
  <2>2. heap' = Append(heap, [userid |-> 0, clientfd |-> "none"])
        /\ run' = [run EXCEPT ![s].step = "write", ![s].info = Len(heap) + 1]
    BY <2>1 DEF LoginRq_find
  <2>3. heap \in Seq(User) /\ [userid |-> 0, clientfd |-> "none"] \in User
    BY DEF StateOK, User
  <2>4. heap' \in Seq(User) /\ Len(heap') = Len(heap) + 1 /\ Len(heap) \in Nat
    BY <2>2, <2>3
  <2>5. PICK info \in Nat : info = Len(heap) + 1
    BY <2>4
  <2>6. /\ Len(heap) <= Len(heap') /\ info \in 1..Len(heap')
        /\ run' = [run EXCEPT ![s].step = "write", ![s].info = info]
    BY <2>2, <2>4, <2>5
  <2>7. KernelInv' /\ RestKept /\ WentOn(s, "write") /\ run'[s].id = run[s].id /\ run'[s].info = info
    BY <1>5, <2>4, <2>6
  <2>. QED  BY <1>2, <1>7, <2>2, <2>5, <2>7
<1>. QED  BY <1>6, <1>7

(* The object is filled in. *)
LEMMA Login_write ==
  ASSUME KernelInv, NEW s \in Slots, LoginRq_write(s), UNCHANGED videoVars
  PROVE  /\ KernelInv' /\ RestKept
         /\ UNCHANGED <<t_user, homes, m_mapIdToUserinfo, hls, faults>>
         /\ WentOn(s, "publish") /\ run'[s].id = run[s].id /\ run'[s].info = run[s].info
         /\ Len(heap') = Len(heap)
         /\ heap'[run[s].info] = [userid |-> run[s].id, clientfd |-> Rq(s).client]
         /\ \A i \in 1..Len(heap) : i # run[s].info => heap'[i] = heap[i]
<1>. USE DEF KernelInv
<1>1. /\ run[s] # Idle /\ HandlerOK(s) /\ run[s] \in Running /\ Rq(s) \in Requests
      /\ run[s].fn = "LoginRq" /\ run[s].step = "write" /\ Rq(s).type = "LOGIN_RQ"
  BY AtIsThere DEF LoginRq_write
<1>2. /\ UNCHANGED <<main, m_NetPackMap, t_user, homes, m_mapIdToUserinfo, hls, faults>>
      /\ Goto(s, "publish") /\ reply' = reply /\ "publish" \in Steps
      /\ heap' = [heap EXCEPT ![run[s].info] = [userid |-> run[s].id, clientfd |-> Rq(s).client]]
  BY DEF LoginRq_write, videoVars, Steps
<1>3. PICK tel : tel = Rq(s).tel
  OBVIOUS
<1>4. Registered(tel) /\ run[s].id = FirstId(tel) /\ run[s].info \in 1..Len(heap)
  BY <1>1, <1>3 DEF HandlerOK
<1>5. [userid |-> run[s].id, clientfd |-> Rq(s).client] \in User
  BY <1>1 DEF User, Running
<1>6. /\ heap' \in Seq(User) /\ Len(heap') = Len(heap)
      /\ heap'[run[s].info] = [userid |-> run[s].id, clientfd |-> Rq(s).client]
      /\ \A i \in 1..Len(heap) : i # run[s].info => heap'[i] = heap[i]
  <2>1. heap \in Seq(User)
    BY DEF StateOK
  <2>. QED  BY <1>2, <1>4, <1>5, <2>1
<1>7. RestKept
  BY <1>2, <1>6, SameAccounts DEF RestKept, StateOK
<1>8. WentOn(s, "publish") /\ run'[s].id = run[s].id /\ run'[s].info = run[s].info
  BY <1>1, <1>2, GotoGoesOn
<1>9. Registered(tel)' /\ FirstId(tel)' = FirstId(tel) /\ Rq(s)'.tel = tel /\ Ids' = Ids
  BY <1>2, <1>3, <1>4, <1>8, SameAccounts DEF WentOn, Rq
<1>10. HandlerOK(s)'
  BY <1>1, <1>2, <1>4, <1>6, <1>8, <1>9 DEF HandlerOK, WentOn, Rq
<1>11. HandlersOK' /\ OneSlotEach'
  BY <1>1, <1>2, <1>7, <1>8, <1>10, OthersKept
<1>12. StateOK'
  BY <1>2, <1>6, <1>7, <1>8, <1>9 DEF WentOn, StateOK, RestKept
<1>. QED  BY <1>2, <1>6, <1>7, <1>8, <1>11, <1>12

(* The object is entered in the map. *)
LEMMA Login_insert ==
  ASSUME KernelInv, NEW s \in Slots, LoginRq_insert(s), UNCHANGED videoVars
  PROVE  /\ KernelInv' /\ RestKept
         /\ UNCHANGED <<t_user, homes, heap, hls, faults>> /\ Ended(s, "login_success")
         /\ DOMAIN m_mapIdToUserinfo' = DOMAIN m_mapIdToUserinfo \cup {run[s].id}
         /\ m_mapIdToUserinfo'[run[s].id] = run[s].info
         /\ \A i \in DOMAIN m_mapIdToUserinfo :
              i # run[s].id => m_mapIdToUserinfo'[i] = m_mapIdToUserinfo[i]
<1>. USE DEF KernelInv
<1>1. /\ run[s] # Idle /\ HandlerOK(s) /\ run[s] \in Running
      /\ run[s].fn = "LoginRq" /\ run[s].step = "publish"
  BY AtIsThere DEF LoginRq_insert
<1>2. /\ UNCHANGED <<main, m_NetPackMap, t_user, homes, heap, hls, faults>>
      /\ SendData(s, "login_success") /\ "login_success" \in Kinds
  BY DEF LoginRq_insert, videoVars, Kinds, Answers, LoginAnswers
<1>3. RestKept
  BY <1>2, SameAccounts, SameHeap DEF RestKept
<1>4. /\ DOMAIN m_mapIdToUserinfo' = DOMAIN m_mapIdToUserinfo \cup {run[s].id}
      /\ m_mapIdToUserinfo'[run[s].id] = run[s].info
      /\ \A i \in DOMAIN m_mapIdToUserinfo :
           i # run[s].id => m_mapIdToUserinfo'[i] = m_mapIdToUserinfo[i]
  BY DEF LoginRq_insert
<1>5. Ended(s, "login_success") /\ HandlersOK' /\ OneSlotEach'
  BY <1>1, <1>2, <1>3, HandlerEnds
<1>6. run[s].info \in 1..Len(heap)
  BY <1>1 DEF HandlerOK
<1>7. \A i \in DOMAIN m_mapIdToUserinfo' : m_mapIdToUserinfo'[i] \in 1..Len(heap')
  BY <1>2, <1>4, <1>6 DEF StateOK
<1>8. StateOK'
  BY <1>2, <1>3, <1>5, <1>7, SameAccounts DEF Ended, StateOK, RestKept
<1>. QED  BY <1>2, <1>3, <1>4, <1>5, <1>8

(* What a viewer asks for is a content, or the common directory. *)
LEMMA Md5IsDirectory == \A r : Md5(r) \in Directories
<1>. SUFFICES ASSUME NEW r PROVE Md5(r) \in Directories
  OBVIOUS
<1>1. CASE Rows(r) = {}
  BY <1>1 DEF Md5, Directories
<1>2. CASE Rows(r) # {}
  <2>1. (CHOOSE q \in Rows(r) : TRUE) \in Rows(r)
    BY <1>2
  <2>2. (CHOOSE q \in Rows(r) : TRUE).f_md5 \in Contents
    BY <2>1, VideoAssumption DEF Rows
  <2>. QED  BY <1>2, <2>2 DEF Md5, Directories
<1>. QED  BY <1>1, <1>2

(* A handler of a viewer keeps to the rules of the others. *)
LEMMA ViewerKept ==
  ASSUME KernelInv, NEW s \in Slots, run[s] # Idle, run[s].fn = "playVideo", RestKept,
         UNCHANGED <<t_user, heap>>, NEW step \in Steps, WentOn(s, step),
         run'[s].id = run[s].id, run'[s].info = run[s].info
  PROVE  HandlersOK' /\ OneSlotEach'
<1>1. HandlerOK(s)
  BY DEF KernelInv, HandlersOK
<1>2. Ids' = Ids /\ Rq(s)' = Rq(s) /\ run'[s].fn = "playVideo" /\ reply' = reply
  BY DEF Ids, Rq, WentOn
<1>3. HandlerOK(s)'
  BY <1>1, <1>2 DEF HandlerOK, RestKept
<1>. QED  BY <1>3, OthersKept

(* A file system call changes at most hls. *)
LEMMA HlsKept ==
  ASSUME StateOK, UNCHANGED <<main, m_NetPackMap, t_user, homes, m_mapIdToUserinfo, heap>>,
         hls' \in [Directories -> {"none", "dir", "list"}], hls'[NoFile] # "list",
         run' \in [Slots -> Running \cup {Idle}], reply' \in [Requests -> Reply],
         faults' \in [left : Nat, seen : SUBSET Disturbances]
  PROVE  StateOK'
<1>1. RestKept /\ Ids' = Ids
  BY SameAccounts, SameHeap DEF RestKept
<1>. QED  BY <1>1 DEF StateOK, RestKept

LEMMA Video_select ==
  ASSUME KernelInv, NEW s \in Slots, playVideo_select(s), UNCHANGED accountVars
  PROVE  /\ KernelInv' /\ RestKept
         /\ UNCHANGED <<t_user, homes, m_mapIdToUserinfo, heap, hls, faults>>
         /\ WentOn(s, "stat") /\ run'[s].md5 = Md5(Rq(s))
<1>. USE DEF KernelInv
<1>1. run[s] # Idle /\ run[s] \in Running /\ run[s].fn = "playVideo"
  BY AtIsThere DEF playVideo_select
<1>2. UNCHANGED <<main, m_NetPackMap, t_user, homes, m_mapIdToUserinfo, heap, hls>> /\ UNCHANGED faults
      /\ reply' = reply /\ "stat" \in Steps
  BY DEF playVideo_select, accountVars, videoVars, Steps
<1>3. RestKept
  BY <1>2, SameAccounts, SameHeap DEF RestKept
<1>4. PICK m \in Directories : m = Md5(Rq(s))
  BY Md5IsDirectory
<1>5. run' = [run EXCEPT ![s].step = "stat", ![s].md5 = m]
  BY <1>4 DEF playVideo_select
<1>6. /\ WentOn(s, "stat") /\ run'[s].md5 = m
      /\ run'[s].id = run[s].id /\ run'[s].info = run[s].info
  BY <1>1, <1>2, <1>5, NotesMd5
<1>7. HandlersOK' /\ OneSlotEach'
  BY <1>1, <1>2, <1>3, <1>6, ViewerKept
<1>8. StateOK'
  BY <1>2, <1>6, OnlyTheHandler DEF WentOn, StateOK
<1>. QED  BY <1>2, <1>3, <1>4, <1>6, <1>7, <1>8

(* The directory exists, or it has to be made. *)
LEMMA Video_stat ==
  ASSUME KernelInv, NEW s \in Slots, playVideo_stat(s), UNCHANGED accountVars
  PROVE  /\ KernelInv' /\ RestKept
         /\ UNCHANGED <<t_user, homes, m_mapIdToUserinfo, heap, hls, faults>>
         /\ run'[s].md5 = run[s].md5
         /\ \/ WentOn(s, "reply") /\ hls[run[s].md5] # "none"
            \/ WentOn(s, "mkdir")
<1>. USE DEF KernelInv
<1>1. run[s] # Idle /\ run[s] \in Running /\ run[s].fn = "playVideo"
  BY AtIsThere DEF playVideo_stat
<1>2. UNCHANGED <<main, m_NetPackMap, t_user, homes, m_mapIdToUserinfo, heap, hls>> /\ UNCHANGED faults /\ reply' = reply
  BY DEF playVideo_stat, accountVars, videoVars
<1>3. RestKept
  BY <1>2, SameAccounts, SameHeap DEF RestKept
<1>4. PICK step \in {"reply", "mkdir"} : Goto(s, step) /\ (step = "reply" => hls[run[s].md5] # "none")
  BY DEF playVideo_stat, Transcoded
<1>5. step \in Steps
  BY DEF Steps
<1>6. /\ WentOn(s, step) /\ run'[s].md5 = run[s].md5
      /\ run'[s].id = run[s].id /\ run'[s].info = run[s].info
  BY <1>1, <1>2, <1>4, <1>5, GotoGoesOn
<1>7. HandlersOK' /\ OneSlotEach'
  BY <1>1, <1>2, <1>3, <1>5, <1>6, ViewerKept
<1>8. StateOK'
  BY <1>2, <1>6, OnlyTheHandler DEF WentOn, StateOK
<1>. QED  BY <1>2, <1>3, <1>4, <1>6, <1>7, <1>8

(* The directory is made, if it can be. *)
LEMMA Video_mkdir ==
  ASSUME KernelInv, NEW s \in Slots, playVideo_mkdir(s), UNCHANGED accountVars
  PROVE  /\ KernelInv' /\ RestKept
         /\ UNCHANGED <<t_user, homes, m_mapIdToUserinfo, heap, faults>>
         /\ WentOn(s, "transcode") /\ run'[s].md5 = run[s].md5
         /\ (hls' = hls \/ (hls' = [hls EXCEPT ![run[s].md5] = "dir"] /\ hls[run[s].md5] = "none"))
<1>. USE DEF KernelInv
<1>1. run[s] # Idle /\ run[s] \in Running /\ run[s].fn = "playVideo" /\ run[s].md5 \in Directories
  BY AtIsThere DEF playVideo_mkdir, Running
<1>2. /\ UNCHANGED <<main, m_NetPackMap, t_user, homes, m_mapIdToUserinfo, heap, faults>>
      /\ Goto(s, "transcode") /\ reply' = reply /\ "transcode" \in Steps
  BY DEF playVideo_mkdir, accountVars, Steps
<1>3. RestKept
  BY <1>2, SameAccounts, SameHeap DEF RestKept
<1>. DEFINE m == run[s].md5
<1>10. hls' = hls \/ (hls' = [hls EXCEPT ![m] = "dir"] /\ hls[m] = "none")
  BY DEF playVideo_mkdir
<1>4. /\ WentOn(s, "transcode") /\ run'[s].md5 = run[s].md5
      /\ run'[s].id = run[s].id /\ run'[s].info = run[s].info
  BY <1>1, <1>2, GotoGoesOn
<1>5. HandlersOK' /\ OneSlotEach'
  BY <1>1, <1>2, <1>3, <1>4, ViewerKept
<1>6. hls' \in [Directories -> {"none", "dir", "list"}] /\ hls'[NoFile] # "list"
  <2>1. CASE hls' = hls
    BY <2>1 DEF StateOK
  <2>2. CASE hls' = [hls EXCEPT ![m] = "dir"]
    BY <1>1, <2>2 DEF StateOK
  <2>. QED  BY <1>10, <2>1, <2>2
<1>7. StateOK'
  BY <1>2, <1>4, <1>6, HlsKept DEF WentOn, StateOK
<1>. QED  BY <1>2, <1>3, <1>10, <1>4, <1>5, <1>7

(* The play list is complete, or ffmpeg has failed. *)
LEMMA Video_transcode ==
  ASSUME KernelInv, NEW s \in Slots, transcode(s), UNCHANGED accountVars
  PROVE  /\ KernelInv' /\ RestKept
         /\ UNCHANGED <<t_user, homes, m_mapIdToUserinfo, heap, faults>>
         /\ \/ /\ WentOn(s, "reply") /\ run'[s].md5 = run[s].md5
               /\ hls' = [hls EXCEPT ![run[s].md5] = "list"]
            \/ /\ Ended(s, "dropped") /\ hls' = hls
               /\ run[s].md5 = NoFile \/ hls[run[s].md5] = "none"
<1>. USE DEF KernelInv
<1>1. run[s] # Idle /\ run[s] \in Running /\ run[s].fn = "playVideo" /\ run[s].md5 \in Directories
  BY AtIsThere DEF transcode, Running
<1>2. UNCHANGED <<main, m_NetPackMap, t_user, homes, m_mapIdToUserinfo, heap, faults>>
  BY DEF transcode, accountVars
<1>3. RestKept
  BY <1>2, SameAccounts, SameHeap DEF RestKept
<1>4. CASE run[s].md5 # NoFile /\ hls[run[s].md5] # "none"
  <2>1. /\ Goto(s, "reply") /\ reply' = reply /\ "reply" \in Steps
        /\ hls' = [hls EXCEPT ![run[s].md5] = "list"]
    BY <1>4 DEF transcode, Failed, Steps
  <2>2. /\ WentOn(s, "reply") /\ run'[s].md5 = run[s].md5
        /\ run'[s].id = run[s].id /\ run'[s].info = run[s].info
    BY <1>1, <2>1, GotoGoesOn
  <2>3. HandlersOK' /\ OneSlotEach'
    BY <1>1, <1>2, <1>3, <2>1, <2>2, ViewerKept
  <2>4. hls' \in [Directories -> {"none", "dir", "list"}] /\ hls'[NoFile] # "list"
    BY <1>1, <1>4, <2>1 DEF StateOK
  <2>5. StateOK'
    BY <1>2, <2>2, <2>4, HlsKept DEF WentOn, StateOK
  <2>. QED  BY <1>2, <1>3, <2>1, <2>2, <2>3, <2>5
<1>5. CASE ~(run[s].md5 # NoFile /\ hls[run[s].md5] # "none")
  <2>1. SendData(s, "dropped") /\ hls' = hls /\ "dropped" \in Kinds
    BY <1>5 DEF transcode, Failed, Return, Kinds
  <2>2. Ended(s, "dropped") /\ HandlersOK' /\ OneSlotEach'
    BY <1>1, <1>3, <2>1, HandlerEnds
  <2>3. StateOK'
    BY <1>2, <2>1, <2>2, OnlyTheHandler DEF Ended, StateOK
  <2>. QED  BY <1>2, <1>3, <1>5, <2>1, <2>2, <2>3
<1>. QED  BY <1>4, <1>5

(* A query that fails leaves the viewer without an answer. *)
LEMMA Video_fails ==
  ASSUME KernelInv, NEW s \in Slots, playVideo_fails(s), UNCHANGED accountVars
  PROVE  /\ KernelInv' /\ RestKept
         /\ UNCHANGED <<t_user, homes, m_mapIdToUserinfo, heap, hls>>
         /\ Ended(s, "dropped") /\ faults'.seen = faults.seen \cup {"select"}
<1>. USE DEF KernelInv
<1>1. run[s] # Idle /\ HandlerOK(s) /\ run[s] \in Running
  BY AtIsThere DEF playVideo_fails
<1>2. UNCHANGED <<main, m_NetPackMap, t_user, homes, m_mapIdToUserinfo, heap, hls>>
      /\ faults' \in [left : Nat, seen : SUBSET Disturbances]
      /\ faults'.seen = faults.seen \cup {"select"}
  BY DEF playVideo_fails, accountVars, videoVars, StateOK, Fault, Disturbances
<1>3. RestKept
  BY <1>2, SameAccounts, SameHeap DEF RestKept
<1>4. SendData(s, "dropped") /\ "dropped" \in Kinds
  BY DEF playVideo_fails, Kinds, Return
<1>5. Ended(s, "dropped") /\ HandlersOK' /\ OneSlotEach'
  BY <1>1, <1>3, <1>4, HandlerEnds
<1>6. StateOK'
  BY <1>2, <1>5, OnlyTheHandler DEF Ended, StateOK
<1>. QED  BY <1>2, <1>3, <1>5, <1>6

(* So does a transcoding that is broken off. *)
LEMMA Video_transcode_fails ==
  ASSUME KernelInv, NEW s \in Slots, transcode_fails(s), UNCHANGED accountVars
  PROVE  /\ KernelInv' /\ RestKept
         /\ UNCHANGED <<t_user, homes, m_mapIdToUserinfo, heap, hls>>
         /\ Ended(s, "dropped") /\ faults'.seen = faults.seen \cup {"transcode"}
<1>. USE DEF KernelInv
<1>1. run[s] # Idle /\ HandlerOK(s) /\ run[s] \in Running
  BY AtIsThere DEF transcode_fails
<1>2. UNCHANGED <<main, m_NetPackMap, t_user, homes, m_mapIdToUserinfo, heap, hls>>
      /\ faults' \in [left : Nat, seen : SUBSET Disturbances]
      /\ faults'.seen = faults.seen \cup {"transcode"}
  BY DEF transcode_fails, accountVars, videoVars, StateOK, Fault, Disturbances
<1>3. RestKept
  BY <1>2, SameAccounts, SameHeap DEF RestKept
<1>4. SendData(s, "dropped") /\ "dropped" \in Kinds
  BY DEF transcode_fails, Kinds, Return
<1>5. Ended(s, "dropped") /\ HandlersOK' /\ OneSlotEach'
  BY <1>1, <1>3, <1>4, HandlerEnds
<1>6. StateOK'
  BY <1>2, <1>5, OnlyTheHandler DEF Ended, StateOK
<1>. QED  BY <1>2, <1>3, <1>5, <1>6

(* The viewer is sent to the play list. *)
LEMMA Video_reply ==
  ASSUME KernelInv, NEW s \in Slots, playVideo_reply(s), UNCHANGED accountVars
  PROVE  /\ KernelInv' /\ RestKept
         /\ UNCHANGED <<t_user, homes, m_mapIdToUserinfo, heap, hls, faults>>
         /\ Ended(s, "play")
<1>. USE DEF KernelInv
<1>1. run[s] # Idle /\ HandlerOK(s) /\ run[s] \in Running
  BY AtIsThere DEF playVideo_reply
<1>2. UNCHANGED <<main, m_NetPackMap, t_user, homes, m_mapIdToUserinfo, heap, hls>> /\ UNCHANGED faults
  BY DEF playVideo_reply, accountVars, videoVars
<1>3. RestKept
  BY <1>2, SameAccounts, SameHeap DEF RestKept
<1>4. SendData(s, "play") /\ "play" \in Kinds
  BY DEF playVideo_reply, Kinds, Answers
<1>5. Ended(s, "play") /\ HandlersOK' /\ OneSlotEach'
  BY <1>1, <1>3, <1>4, HandlerEnds
<1>6. StateOK'
  BY <1>2, <1>5, OnlyTheHandler DEF Ended, StateOK
<1>. QED  BY <1>2, <1>3, <1>5, <1>6

(* The steps of one kind of handler, by what they leave alone. *)
LEMMA RegisterSteps ==
  ASSUME KernelInv, NEW s \in Slots, RegisterRq(s) \/ RegisterRq_fails(s), UNCHANGED videoVars
  PROVE  /\ RestKept /\ UNCHANGED <<m_mapIdToUserinfo, heap, hls>>
         /\ run[s] # Idle /\ run[s].fn = "RegisterRq" /\ faults.seen \subseteq faults'.seen
         /\ \/ \E k \in RegisterAnswers : Ended(s, k)
            \/ \E step \in Steps : WentOn(s, step)
<1>1. CASE RegisterRq_exists(s)
  BY <1>1, Register_exists, AtIsThere DEF RegisterRq_exists, RegisterAnswers, Steps
<1>2. CASE RegisterRq_insert(s)
  BY <1>2, Register_insert, AtIsThere DEF RegisterRq_insert, RegisterAnswers, Steps
<1>3. CASE RegisterRq_selectId(s)
  BY <1>3, Register_selectId, AtIsThere DEF RegisterRq_selectId, RegisterAnswers, Steps
<1>4. CASE RegisterRq_mkdir(s)
  BY <1>4, Register_mkdir, AtIsThere DEF RegisterRq_mkdir, RegisterAnswers, Steps
<1>5. CASE RegisterRq_reply(s)
  BY <1>5, Register_reply, AtIsThere DEF RegisterRq_reply, RegisterAnswers, Steps
<1>6. CASE RegisterRq_fails(s)
  BY <1>6, Register_fails, AtIsThere DEF RegisterRq_fails, RegisterAnswers, Steps
<1>. QED  BY <1>1, <1>2, <1>3, <1>4, <1>5, <1>6 DEF RegisterRq

LEMMA LoginSteps ==
  ASSUME KernelInv, NEW s \in Slots, LoginRq(s) \/ LoginRq_fails(s), UNCHANGED videoVars
  PROVE  /\ RestKept /\ UNCHANGED <<t_user, homes, hls>>
         /\ run[s] # Idle /\ run[s].fn = "LoginRq" /\ faults.seen \subseteq faults'.seen
         /\ \/ \E k \in LoginAnswers : Ended(s, k)
            \/ \E step \in Steps : WentOn(s, step)
<1>1. CASE LoginRq_select(s)
  BY <1>1, Login_select, AtIsThere DEF LoginRq_select, LoginAnswers, Steps
<1>2. CASE LoginRq_find(s)
  BY <1>2, Login_find, AtIsThere DEF LoginRq_find, LoginAnswers, Steps
<1>3. CASE LoginRq_write(s)
  BY <1>3, Login_write, AtIsThere DEF LoginRq_write, LoginAnswers, Steps
<1>4. CASE LoginRq_insert(s)
  BY <1>4, Login_insert, AtIsThere DEF LoginRq_insert, LoginAnswers, Steps
<1>5. CASE LoginRq_fails(s)
  BY <1>5, Login_fails, AtIsThere DEF LoginRq_fails, LoginAnswers, Steps
<1>. QED  BY <1>1, <1>2, <1>3, <1>4, <1>5 DEF LoginRq

LEMMA ViewerSteps ==
  ASSUME KernelInv, NEW s \in Slots, playVideo(s) \/ playVideo_fails(s) \/ transcode_fails(s),
         UNCHANGED accountVars
  PROVE  /\ RestKept /\ UNCHANGED <<t_user, homes, m_mapIdToUserinfo, heap>>
         /\ run[s] # Idle /\ run[s].fn = "playVideo" /\ faults.seen \subseteq faults'.seen
         /\ \/ \E k \in {"play", "dropped"} : Ended(s, k)
            \/ \E step \in Steps : WentOn(s, step)
<1>1. CASE playVideo_select(s)
  BY <1>1, Video_select, AtIsThere DEF playVideo_select, Steps
<1>2. CASE playVideo_stat(s)
  BY <1>2, Video_stat, AtIsThere DEF playVideo_stat, Steps
<1>3. CASE playVideo_mkdir(s)
  BY <1>3, Video_mkdir, AtIsThere DEF playVideo_mkdir, Steps
<1>4. CASE transcode(s)
  BY <1>4, Video_transcode, AtIsThere DEF transcode, Steps
<1>5. CASE playVideo_reply(s)
  BY <1>5, Video_reply, AtIsThere DEF playVideo_reply, Steps
<1>6. CASE playVideo_fails(s)
  BY <1>6, Video_fails, AtIsThere DEF playVideo_fails, Steps
<1>7. CASE transcode_fails(s)
  BY <1>7, Video_transcode_fails, AtIsThere DEF transcode_fails, Steps
<1>. QED  BY <1>1, <1>2, <1>3, <1>4, <1>5, <1>6, <1>7 DEF playVideo

-----------------------------------------------------------------------------
(* The steps of the main thread, of the clients and of the queue. *)

LEMMA OpenDoes ==
  ASSUME KernelInv, Open, UNCHANGED <<accountVars, videoVars>>
  PROVE  /\ KernelInv'
         /\ UNCHANGED <<t_user, homes, m_mapIdToUserinfo, heap, hls, run, reply, faults>>
<1>1. /\ UNCHANGED <<t_user, homes, m_mapIdToUserinfo, heap, hls, run, reply, faults>>
      /\ main # "EventLoop" /\ main' \in Mains /\ m_NetPackMap' \in {m_NetPackMap, setNetPackMap}
  BY DEF Open, Open_ConnectMysql, Open_InitNet, Open_setNetPackMap, Filled, Mains,
         accountVars, videoVars
<1>2. \A s \in Slots : run[s] = Idle
  BY <1>1 DEF KernelInv, HandlersOK, HandlerOK
<1>3. HandlersOK' /\ OneSlotEach'
  BY <1>1, <1>2 DEF HandlersOK, OneSlotEach
<1>4. StateOK'
  BY <1>1, SameAccounts DEF KernelInv, StateOK
<1>. QED  BY <1>1, <1>3, <1>4 DEF KernelInv

LEMMA RestartDoes ==
  ASSUME KernelInv, Restart
  PROVE  /\ KernelInv' /\ UNCHANGED <<t_user, homes, hls>>
         /\ \A s \in Slots : run'[s] = Idle
         /\ DOMAIN m_mapIdToUserinfo' = {}
         /\ \A q \in Requests :
              /\ reply'[q].sure = reply[q].sure
              /\ reply'[q].kind = IF reply[q].kind = "asked" THEN "dropped" ELSE reply[q].kind
         /\ \/ faults'.seen = faults.seen \cup {"crash"}
            \/ faults'.seen = faults.seen \cup {"open"} /\ \A s \in Slots : run[s] = Idle
<1>1. /\ main' = "start" /\ m_NetPackMap' = Cleared /\ run' = [s \in Slots |-> Idle]
      /\ reply' = [r \in Requests |-> IF reply[r].kind = "asked"
                                      THEN [reply[r] EXCEPT !.kind = "dropped"] ELSE reply[r]]
      /\ m_mapIdToUserinfo' = [i \in {} |-> 0] /\ heap' = <<>>
      /\ UNCHANGED <<t_user, homes, hls>>
  BY DEF Restart, Open_fails, crash, KernelRestarts, NobodyOnline, videoVars
<1>2. \/ main # "EventLoop" /\ Fault("open")
      \/ Fault("crash")
  BY DEF Restart, Open_fails, crash
<1>3. main # "EventLoop" => \A s \in Slots : run[s] = Idle
  BY DEF KernelInv, HandlersOK, HandlerOK
<1>4. ASSUME NEW kind \in Disturbances, Fault(kind)
      PROVE  /\ faults' \in [left : Nat, seen : SUBSET Disturbances]
             /\ faults'.seen = faults.seen \cup {kind}
  BY <1>4 DEF Fault, KernelInv, StateOK
<1>5. /\ faults' \in [left : Nat, seen : SUBSET Disturbances]
      /\ \/ faults'.seen = faults.seen \cup {"crash"}
         \/ faults'.seen = faults.seen \cup {"open"} /\ \A s \in Slots : run[s] = Idle
  BY <1>2, <1>3, <1>4 DEF Disturbances
<1>6. \A q \in Requests :
        /\ reply'[q] \in Reply /\ reply'[q].sure = reply[q].sure
        /\ reply'[q].kind = IF reply[q].kind = "asked" THEN "dropped" ELSE reply[q].kind
  <2>1. SUFFICES ASSUME NEW q \in Requests
                 PROVE  /\ reply'[q] \in Reply /\ reply'[q].sure = reply[q].sure
                        /\ reply'[q].kind = IF reply[q].kind = "asked" THEN "dropped"
                                            ELSE reply[q].kind
    OBVIOUS
  <2>2. reply[q] \in Reply
    BY DEF KernelInv, StateOK
  <2>3. reply'[q] = IF reply[q].kind = "asked"
                    THEN [reply[q] EXCEPT !.kind = "dropped"] ELSE reply[q]
    BY <1>1
  <2>4. \A x \in Reply : LET y == [x EXCEPT !.kind = "dropped"]
                         IN  y \in Reply /\ y.kind = "dropped" /\ y.sure = x.sure
    BY DEF Reply, Kinds
  <2>. QED  BY <2>2, <2>3, <2>4
<1>7. reply' \in [Requests -> Reply]
  BY <1>1, <1>6
<1>8. HandlersOK' /\ OneSlotEach'
  BY <1>1 DEF HandlersOK, OneSlotEach
<1>9. StateOK'
  BY <1>1, <1>5, <1>7, SameAccounts DEF KernelInv, StateOK, Mains
<1>. QED  BY <1>1, <1>5, <1>6, <1>8, <1>9 DEF KernelInv

LEMMA SendDoes ==
  ASSUME KernelInv, NEW r \in Requests, Send(r)
  PROVE  /\ KernelInv'
         /\ UNCHANGED <<t_user, homes, m_mapIdToUserinfo, heap, hls, run, faults>>
         /\ reply[r].kind = "none"
         /\ reply'[r].kind = "asked" /\ reply'[r].sure = Sure(r)
         /\ \A q \in Requests \ {r} : reply'[q] = reply[q]
<1>1. /\ UNCHANGED <<main, m_NetPackMap, t_user, homes, m_mapIdToUserinfo, heap, hls, run, faults>>
      /\ reply[r].kind = "none"
      /\ reply' = [reply EXCEPT ![r] = [kind |-> "asked", sure |-> Sure(r)]]
  BY DEF Send, accountVars, videoVars
<1>2. [kind |-> "asked", sure |-> Sure(r)] \in Reply
  BY DEF Reply, Kinds, Sure
<1>3. /\ reply' \in [Requests -> Reply]
      /\ reply'[r].kind = "asked" /\ reply'[r].sure = Sure(r)
      /\ \A q \in Requests \ {r} : reply'[q] = reply[q]
  BY <1>1, <1>2 DEF KernelInv, StateOK
<1>4. StateOK' /\ RestKept
  BY <1>1, <1>3, OnlyTheHandler DEF KernelInv, StateOK
<1>5. ASSUME NEW s \in Slots, run'[s] # Idle PROVE HandlerOK(s)'
  <2>1. HandlerOK(s) /\ Rq(s)' = Rq(s) /\ Rq(s) \in Requests
    BY <1>1, <1>5 DEF KernelInv, StateOK, HandlersOK, Rq, Running
  <2>2. reply'[Rq(s)] = reply[Rq(s)]
    BY <1>1, <1>3, <2>1 DEF HandlerOK
  <2>. QED  BY <1>1, <2>1, <2>2, SameAccounts DEF HandlerOK, KernelInv
<1>6. OneSlotEach'
  BY <1>1 DEF KernelInv, OneSlotEach, Rq
<1>. QED  BY <1>1, <1>3, <1>4, <1>5, <1>6 DEF KernelInv, HandlersOK

(* A packet is given to an idle worker, or there is no handler for it. *)
Started(s, r) ==
  /\ run[s] = Idle /\ ~InProgress(r) /\ reply[r].kind = "asked"
  /\ run' \in [Slots -> Running \cup {Idle}] /\ run'[s] \in Running
  /\ run'[s].r = r /\ run'[s].fn = setNetPackMap[r.type] /\ run'[s].step = First[run'[s].fn]
  /\ \A t \in Slots \ {s} : run'[t] = run[t]
  /\ reply' = reply /\ faults'.seen = faults.seen \cup Twice(r)

LEMMA DealDoes ==
  ASSUME KernelInv, NEW r \in Requests, Deal(r)
  PROVE  /\ KernelInv'
         /\ UNCHANGED <<t_user, homes, m_mapIdToUserinfo, heap, hls>>
         /\ \/ \E s \in Slots : Started(s, r)
            \/ /\ UNCHANGED <<run, faults>> /\ reply'[r].kind = "ignored"
               /\ reply'[r].sure = reply[r].sure
               /\ \A q \in Requests \ {r} : reply'[q] = reply[q]
<1>. USE DEF KernelInv
<1>1. UNCHANGED <<main, m_NetPackMap, t_user, homes, m_mapIdToUserinfo, heap, hls>>
      /\ main = "EventLoop" /\ reply[r].kind = "asked" /\ ~InProgress(r)
  BY DEF Deal, DealData, accountVars, videoVars
<1>2. PICK s \in Slots : /\ run[s] = Idle
                         /\ IF HasHandler(r.type)
                            THEN /\ run' = [run EXCEPT ![s] = Begin(r)]
                                 /\ Disturb(Twice(r)) /\ reply' = reply
                            ELSE /\ reply' = [reply EXCEPT ![r].kind = "ignored"]
                                 /\ UNCHANGED <<run, faults>>
  BY DEF Deal, DealData
<1>3. \A t \in Slots : run[t] # Idle => HandlerOK(t) /\ Rq(t) \in Requests /\ Rq(t) # r
  BY <1>1 DEF HandlersOK, InProgress, StateOK, Running, Rq
<1>4. CASE HasHandler(r.type)
  <2>1. m_NetPackMap = setNetPackMap /\ r.type \in DOMAIN setNetPackMap
    BY <1>4 DEF HasHandler, StateOK, Cleared
  <2>2. setNetPackMap[r.type] \in HandlerNames
    BY <2>1, ServiceAssumption DEF HandlerNames, First
  <2>3. Begin(r) \in Running /\ Begin(r).r = r /\ Begin(r).fn = setNetPackMap[r.type]
        /\ Begin(r).step = First[setNetPackMap[r.type]] /\ Begin(r).id = 0 /\ Begin(r).info = 0
        /\ Begin(r).step \in {"exists", "select"}
    <3>1. First[setNetPackMap[r.type]] \in {"exists", "select"}
      BY <2>2 DEF HandlerNames, First
    <3>. QED  BY <2>2, <3>1 DEF Begin, Running, Steps, Directories
  <2>4. PICK h \in Running : h = Begin(r)
    BY <2>3
  <2>5. /\ run' \in [Slots -> Running \cup {Idle}] /\ run'[s] = h
        /\ \A t \in Slots \ {s} : run'[t] = run[t]
        /\ reply' = reply
    BY <1>2, <1>4, <2>4 DEF StateOK
  <2>6. /\ faults' \in [left : Nat, seen : SUBSET Disturbances]
        /\ faults'.seen = faults.seen \cup Twice(r)
    <3>1. faults' = [faults EXCEPT !.seen = faults.seen \cup Twice(r)]
      BY <1>2, <1>4 DEF Disturb
    <3>2. Twice(r) \subseteq Disturbances
      BY DEF Twice, Disturbances
    <3>. QED  BY <3>1, <3>2 DEF StateOK
  <2>7. StateOK' /\ RestKept
    BY <1>1, <2>5, <2>6, OnlyTheHandler DEF StateOK
  <2>8. HandlerOK(s)'
    BY <1>1, <2>1, <2>3, <2>4, <2>5, <2>7 DEF HandlerOK, Rq, RestKept
  <2>9. ASSUME NEW t \in Slots, t # s, run'[t] # Idle PROVE HandlerOK(t)' /\ Rq(t)' = Rq(t) /\ Rq(t) # r
    BY <1>1, <1>3, <2>5, <2>9, SameAccounts DEF HandlerOK, Rq
  <2>10. HandlersOK'
    BY <2>8, <2>9 DEF HandlersOK
  <2>11. OneSlotEach'
    <3>1. \A t \in Slots : t # s /\ run'[t] # Idle => run'[t] = run[t] /\ run[t].r # r
      BY <2>5, <2>9 DEF Rq
    <3>2. run'[s].r = r
      BY <2>3, <2>4, <2>5
    <3>. QED  BY <2>5, <3>1, <3>2 DEF OneSlotEach, Rq
  <2>12. Started(s, r)
    BY <1>1, <1>2, <2>3, <2>4, <2>5, <2>6 DEF Started
  <2>. QED  BY <1>1, <2>7, <2>10, <2>11, <2>12
<1>5. CASE ~HasHandler(r.type)
  <2>1. UNCHANGED <<run, faults>> /\ reply' = [reply EXCEPT ![r] = [reply[r] EXCEPT !.kind = "ignored"]]
    BY <1>2, <1>5
  <2>2. /\ reply' \in [Requests -> Reply] /\ reply'[r].kind = "ignored"
        /\ reply'[r].sure = reply[r].sure
        /\ \A q \in Requests \ {r} : reply'[q] = reply[q]
    <3>1. \A x \in Reply : LET y == [x EXCEPT !.kind = "ignored"]
                           IN  y \in Reply /\ y.kind = "ignored" /\ y.sure = x.sure
      BY DEF Reply, Kinds
    <3>2. reply[r] \in Reply
      BY DEF StateOK
    <3>. QED  BY <2>1, <3>1, <3>2 DEF StateOK
  <2>3. StateOK' /\ RestKept
    BY <1>1, <2>1, <2>2, OnlyTheHandler DEF StateOK
  <2>4. HandlersOK' /\ OneSlotEach'
    <3>1. OneSlotEach'
      BY <2>1 DEF OneSlotEach, Rq
    <3>2. ASSUME NEW t \in Slots, run'[t] # Idle PROVE HandlerOK(t)'
      <4>1. HandlerOK(t) /\ Rq(t)' = Rq(t) /\ run'[t] = run[t] /\ reply'[Rq(t)] = reply[Rq(t)]
        BY <1>3, <2>1, <2>2, <3>2 DEF Rq
      <4>. QED  BY <1>1, <4>1, SameAccounts DEF HandlerOK
    <3>. QED  BY <3>1, <3>2 DEF HandlersOK
  <2>. QED  BY <1>1, <2>1, <2>2, <2>3, <2>4
<1>. QED  BY <1>4, <1>5

-----------------------------------------------------------------------------
(* Every step is one of these. *)
LEMMA KernelInvStep == KernelInv /\ [Next]_vars => KernelInv'
<1>. SUFFICES ASSUME KernelInv, [Next]_vars PROVE KernelInv'
  OBVIOUS
<1>1. CASE Open /\ UNCHANGED <<accountVars, videoVars>>
  BY <1>1, OpenDoes
<1>2. CASE Restart
  BY <1>2, RestartDoes
<1>3. ASSUME NEW r \in Requests, Send(r) PROVE KernelInv'
  BY <1>3, SendDoes
<1>4. ASSUME NEW r \in Requests, Deal(r) PROVE KernelInv'
  BY <1>4, DealDoes
<1>5. ASSUME NEW s \in Slots, RegisterRq_exists(s), UNCHANGED videoVars PROVE KernelInv'
  BY <1>5, Register_exists
<1>6. ASSUME NEW s \in Slots, RegisterRq_insert(s), UNCHANGED videoVars PROVE KernelInv'
  BY <1>6, Register_insert
<1>7. ASSUME NEW s \in Slots, RegisterRq_selectId(s), UNCHANGED videoVars PROVE KernelInv'
  BY <1>7, Register_selectId
<1>8. ASSUME NEW s \in Slots, RegisterRq_mkdir(s), UNCHANGED videoVars PROVE KernelInv'
  BY <1>8, Register_mkdir
<1>9. ASSUME NEW s \in Slots, RegisterRq_reply(s), UNCHANGED videoVars PROVE KernelInv'
  BY <1>9, Register_reply
<1>10. ASSUME NEW s \in Slots, RegisterRq_fails(s), UNCHANGED videoVars PROVE KernelInv'
  BY <1>10, Register_fails
<1>11. ASSUME NEW s \in Slots, LoginRq_select(s), UNCHANGED videoVars PROVE KernelInv'
  BY <1>11, Login_select
<1>12. ASSUME NEW s \in Slots, LoginRq_find(s), UNCHANGED videoVars PROVE KernelInv'
  BY <1>12, Login_find
<1>13. ASSUME NEW s \in Slots, LoginRq_write(s), UNCHANGED videoVars PROVE KernelInv'
  BY <1>13, Login_write
<1>14. ASSUME NEW s \in Slots, LoginRq_insert(s), UNCHANGED videoVars PROVE KernelInv'
  BY <1>14, Login_insert
<1>15. ASSUME NEW s \in Slots, LoginRq_fails(s), UNCHANGED videoVars PROVE KernelInv'
  BY <1>15, Login_fails
<1>16. ASSUME NEW s \in Slots, playVideo_select(s), UNCHANGED accountVars PROVE KernelInv'
  BY <1>16, Video_select
<1>17. ASSUME NEW s \in Slots, playVideo_stat(s), UNCHANGED accountVars PROVE KernelInv'
  BY <1>17, Video_stat
<1>18. ASSUME NEW s \in Slots, playVideo_mkdir(s), UNCHANGED accountVars PROVE KernelInv'
  BY <1>18, Video_mkdir
<1>19. ASSUME NEW s \in Slots, transcode(s), UNCHANGED accountVars PROVE KernelInv'
  BY <1>19, Video_transcode
<1>20. ASSUME NEW s \in Slots, playVideo_reply(s), UNCHANGED accountVars PROVE KernelInv'
  BY <1>20, Video_reply
<1>21. ASSUME NEW s \in Slots, playVideo_fails(s), UNCHANGED accountVars PROVE KernelInv'
  BY <1>21, Video_fails
<1>22. ASSUME NEW s \in Slots, transcode_fails(s), UNCHANGED accountVars PROVE KernelInv'
  BY <1>22, Video_transcode_fails
<1>23. CASE UNCHANGED vars
  <2>1. UNCHANGED <<main, m_NetPackMap, run, reply, faults, t_user, homes, m_mapIdToUserinfo, heap, hls>>
    BY <1>23 DEF vars, kernelVars, accountVars, videoVars
  <2>2. StateOK' /\ RestKept
    BY <2>1, OnlyTheHandler DEF KernelInv, StateOK
  <2>3. \A s \in Slots : run[s] # Idle => HandlerOK(s)'
    BY <2>1, SameAccounts DEF KernelInv, HandlersOK, HandlerOK, Rq
  <2>4. HandlersOK' /\ OneSlotEach'
    BY <2>1, <2>3 DEF KernelInv, HandlersOK, OneSlotEach, Rq
  <2>. QED  BY <2>2, <2>4 DEF KernelInv
<1>. QED  BY <1>1, <1>2, <1>3, <1>4, <1>5, <1>6, <1>7, <1>8, <1>9, <1>10, <1>11, <1>12, <1>13,
             <1>14, <1>15, <1>16, <1>17, <1>18, <1>19, <1>20, <1>21, <1>22, <1>23
          DEF Next, Handler, HandlerFails, RegisterRq, LoginRq, playVideo

(* What every variable holds, and what a handler remembers, in every state. *)
LEMMA KernelInvariant == FairSpec => []KernelInv
BY KernelInvInit, KernelInvStep, PTL DEF FairSpec

(* A packet is handled only when the table is full, by the handler of its   *)
(* type; the ids and the objects that a handler remembers exist.            *)
THEOREM TypeCorrect == FairSpec => []TypeOK
<1>1. KernelInv => TypeOK
  BY DEF KernelInv, StateOK, HandlersOK, HandlerOK, TypeOK, Mains, Kinds, Reply, Running
<1>. QED  BY <1>1, KernelInvariant, PTL
=============================================================================
