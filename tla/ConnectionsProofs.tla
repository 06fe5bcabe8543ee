-------------------------- MODULE ConnectionsProofs --------------------------
(***************************************************************************)
(* Theorems about Connections, for every number of clients, socket         *)
(* numbers, workers and packets that the assumptions allow.                *)
(*                                                                         *)
(* EPOLLONESHOT makes the right to read a connection a token: its event    *)
(* is on its way into epoll's list, armed in it, in the batch of the loop, *)
(* in the queue or in a worker's hands, and in one of these places only.   *)
(* An event is deleted by who holds the token, so nobody else can lead to  *)
(* it, and its socket number is the connection's until then.               *)
(***************************************************************************)
EXTENDS Connections, FiniteSetTheorems, SequenceTheorems, TLAPS

WorkerSteps == {"idle", "header", "body", "submit", "rearm", "eventdel",
                "close", "erase", "delete", "deal"}

(* A worker is where the task in its hands says. *)
AtOK(w) ==
  /\ at[w] = "idle" <=> held[w] = NoTask
  /\ at[w] = "deal" <=> held[w] # NoTask /\ held[w].fn = "Buffer_Deal"

Waiting(c) == {i \in 1..Len(queue) : Receives(queue[i], c)}
Serving(c) == {w \in Workers : held[w] # NoTask /\ Receives(held[w], c)}
Receiving(c) == Waiting(c) # {} \/ Serving(c) # {}
Adding(c) == loop.at = "add" /\ loop.ev = c
Armed(c) == \E f \in armed : ptr[f] = c
InList(c) == \E f \in Fds : ptr[f] = c

(* The token is in one place. *)
OneToken(c) ==
  /\ \A i, j \in Waiting(c) : i = j
  /\ \A v, w \in Serving(c) : v = w
  /\ Waiting(c) = {} \/ Serving(c) = {}
  /\ c \in batch => ~Receiving(c)
  /\ Armed(c) => ~Receiving(c) /\ c \notin batch
  /\ Adding(c) => ~Receiving(c) /\ c \notin batch /\ ~InList(c)

(* Closed, and about to be deleted. *)
Closed(c) == \E w \in Serving(c) : at[w] \in {"erase", "delete"}

EventOK(c) ==
  /\ c \in batch \/ Receiving(c) \/ InList(c) \/ Adding(c) => event[c].state = "live"
  /\ event[c].state = "live" => fdt[event[c].fd] = c \/ Closed(c)
FdOK(f) ==
  /\ fdt[f] # NoConn => event[fdt[f]].state = "live" /\ event[fdt[f]].fd = f /\ ~Closed(fdt[f])
  /\ ptr[f] # NoConn => fdt[f] = ptr[f]
LoopOK == loop.at \in {"add", "insert"} => event[loop.ev].state # "none"

ConnInv ==
  /\ TypeOK /\ \A w \in Workers : AtOK(w)
  /\ \A c \in Clients : OneToken(c) /\ EventOK(c)
  /\ \A f \in Fds : FdOK(f)
  /\ LoopOK

-----------------------------------------------------------------------------
LEMMA Units == PacketUnits \in Nat /\ PacketUnits > 1 /\ Packets * PacketUnits \in Nat
BY ConnectionsAssumption DEF PacketUnits

LEMMA ConnInvInit == Init => ConnInv
<1>. SUFFICES ASSUME Init PROVE ConnInv
  OBVIOUS
<1>. USE DEF Init, Pool!Init
<1>1. TypeOK
  BY Units, ConnectionsAssumption DEF TypeOK, NoBuf
<1>2. \A w \in Workers : AtOK(w)
  BY DEF AtOK
<1>3. \A c \in Clients : Waiting(c) = {} /\ Serving(c) = {} /\ ~InList(c) /\ ~Armed(c) /\ ~Adding(c)
  BY ConnectionsAssumption DEF Waiting, Serving, InList, Armed, Adding
<1>4. \A c \in Clients : OneToken(c) /\ EventOK(c)
  BY <1>3 DEF OneToken, EventOK, Receiving, NoEvent
<1>5. \A f \in Fds : FdOK(f)
  BY DEF FdOK
<1>. QED  BY <1>1, <1>2, <1>4, <1>5 DEF ConnInv, LoopOK

(* A packet has a number. *)
LEMMA PacketNumber == \A units : PacketIn(units) \in 0..Packets
<1>. SUFFICES ASSUME NEW units PROVE PacketIn(units) \in 0..Packets
  OBVIOUS
<1>. DEFINE whole(k) == units = [i \in 1..PacketUnits |-> (k - 1) * PacketUnits + i]
            number(k) == units[PacketUnits] = k * PacketUnits
<1>1. PacketIn(units) = IF \E k \in 1..Packets : whole(k) THEN CHOOSE k \in 1..Packets : number(k) ELSE 0
  BY DEF PacketIn
<1>2. ASSUME NEW k \in 1..Packets, whole(k) PROVE number(k)
  <2>1. units[PacketUnits] = (k - 1) * PacketUnits + PacketUnits
    BY <1>2, Units
  <2>2. (k - 1) * PacketUnits + PacketUnits = k * PacketUnits
    BY Units
  <2>. QED  BY <2>1, <2>2
<1>3. 0 \in 0..Packets /\ 1..Packets \subseteq 0..Packets
  BY ConnectionsAssumption
<1>. HIDE DEF whole, number
<1>4. (\E k \in 1..Packets : number(k)) => (CHOOSE k \in 1..Packets : number(k)) \in 1..Packets
  OBVIOUS
<1>. QED  BY <1>1, <1>2, <1>3, <1>4

(* Who serves a connection holds a task for it, and its event is live. *)
LEMMA ServesLive ==
  ASSUME ConnInv, NEW w \in Workers, at[w] \notin {"idle", "deal"}
  PROVE  /\ held[w] \in [fn : {"recv_task"}, ev : Clients] /\ held[w] # NoTask
         /\ Ev(w) \in Clients /\ w \in Serving(Ev(w))
         /\ event[Ev(w)].state = "live" /\ Sock(w) \in Fds
         /\ event[Ev(w)] \in [state : {"live", "freed"}, fd : Fds, status : {0, 1}]
         /\ fdt[Sock(w)] = Ev(w) \/ at[w] \in {"erase", "delete"}
<1>1. held[w] # NoTask /\ held[w] \in Task /\ held[w].fn # "Buffer_Deal"
  BY DEF ConnInv, TypeOK, AtOK
<1>2. held[w] \in [fn : {"recv_task"}, ev : Clients]
  BY <1>1 DEF Task, DataBuffer
<1>3. Ev(w) \in Clients /\ w \in Serving(Ev(w))
  BY <1>1, <1>2 DEF Ev, Serving, Receives
<1>4. event[Ev(w)].state = "live"
  BY <1>3 DEF ConnInv, EventOK, Receiving
<1>5. event[Ev(w)] \in [state : {"live", "freed"}, fd : Fds, status : {0, 1}]
  BY <1>3, <1>4 DEF ConnInv, TypeOK, NoEvent
<1>6. fdt[Sock(w)] = Ev(w) \/ Closed(Ev(w))
  BY <1>3, <1>4 DEF ConnInv, EventOK, Sock
<1>7. Closed(Ev(w)) => at[w] \in {"erase", "delete"}
  BY <1>3 DEF ConnInv, OneToken, Closed
<1>. QED  BY <1>1, <1>2, <1>3, <1>4, <1>5, <1>6, <1>7 DEF Sock

-----------------------------------------------------------------------------
(* What the steps of the pool do to who receives. *)
LEMMA SameTasks ==
  UNCHANGED pool => \A c : Waiting(c)' = Waiting(c) /\ Serving(c)' = Serving(c) /\ (Receiving(c)' <=> Receiving(c))
BY DEF pool, Waiting, Serving, Receiving

LEMMA SubmitDoes ==
  ASSUME queue \in Seq(Task), NEW t \in Task, Pool!Submit(t)
  PROVE  /\ queue' \in Seq(Task) /\ Len(queue') <= QueueMax /\ held' = held
         /\ Len(queue') = Len(queue) + 1 /\ queue'[Len(queue) + 1] = t
         /\ \A i \in 1..Len(queue) : queue'[i] = queue[i]
         /\ \A c : /\ Serving(c)' = Serving(c)
                   /\ Receives(t, c) => Waiting(c)' = Waiting(c) \cup {Len(queue) + 1}
                   /\ ~Receives(t, c) => Waiting(c)' = Waiting(c)
<1>. USE DEF Pool!Submit
<1>1. /\ queue' \in Seq(Task) /\ Len(queue') <= QueueMax /\ held' = held
      /\ Len(queue') = Len(queue) + 1 /\ queue'[Len(queue) + 1] = t
      /\ \A i \in 1..Len(queue) : queue'[i] = queue[i]
  BY ConnectionsAssumption
<1>2. Len(queue) \in Nat
  OBVIOUS
<1>3. 1..Len(queue') = (1..Len(queue)) \cup {Len(queue) + 1} /\ Len(queue) + 1 \notin 1..Len(queue)
  BY <1>1, <1>2
<1>4. \A c : Serving(c)' = Serving(c)
  BY <1>1 DEF Serving
<1>5. \A c : Waiting(c)' = IF Receives(t, c) THEN Waiting(c) \cup {Len(queue) + 1} ELSE Waiting(c)
  BY <1>1, <1>3 DEF Waiting
<1>. QED  BY <1>1, <1>4, <1>5

LEMMA FinishDoes ==
  ASSUME held \in [Workers -> Task \cup {NoTask}], NEW w \in Workers, Pool!Finish(w)
  PROVE  /\ held' \in [Workers -> Task \cup {NoTask}] /\ queue' = queue /\ held'[w] = NoTask
         /\ \A v \in Workers \ {w} : held'[v] = held[v]
         /\ \A c : Serving(c)' = Serving(c) \ {w} /\ Waiting(c)' = Waiting(c)
BY DEF Pool!Finish, Serving, Waiting

(* A task is taken off the queue; its place was the first one. *)
LEMMA TakeDoes ==
  ASSUME queue \in Seq(Task), held \in [Workers -> Task \cup {NoTask}], NEW w \in Workers, Pool!Take(w)
  PROVE  /\ queue' \in Seq(Task) /\ Len(queue') <= Len(queue)
         /\ held' \in [Workers -> Task \cup {NoTask}]
         /\ held[w] = NoTask /\ held'[w] = Head(queue) /\ Head(queue) \in Task /\ Head(queue) = queue[1]
         /\ \A v \in Workers \ {w} : held'[v] = held[v]
         /\ Len(queue) \in Nat \ {0} /\ Len(queue') = Len(queue) - 1
         /\ \A i \in 1..Len(queue') : queue'[i] = queue[i + 1]
         /\ \A c : /\ Serving(c)' = IF Receives(Head(queue), c) THEN Serving(c) \cup {w} ELSE Serving(c)
                   /\ 1 \in Waiting(c) <=> Receives(Head(queue), c)
                   /\ \A i : i \in Waiting(c)' <=> i \in Nat \ {0} /\ i + 1 \in Waiting(c)
<1>. USE DEF Pool!Take
<1>1. /\ queue' \in Seq(Task) /\ Len(queue') <= Len(queue)
      /\ held[w] = NoTask /\ held'[w] = Head(queue) /\ Head(queue) \in Task /\ Head(queue) = queue[1]
      /\ Len(queue) \in Nat \ {0} /\ Len(queue') = Len(queue) - 1
      /\ \A i \in 1..Len(queue') : queue'[i] = queue[i + 1]
  OBVIOUS
<1>2. held' \in [Workers -> Task \cup {NoTask}] /\ \A v \in Workers \ {w} : held'[v] = held[v]
  BY <1>1
<1>3. ASSUME NEW c
      PROVE  Serving(c)' = IF Receives(Head(queue), c) THEN Serving(c) \cup {w} ELSE Serving(c)
  BY <1>1, <1>2, TaskAssumption DEF Serving
<1>4. ASSUME NEW c PROVE 1 \in Waiting(c) <=> Receives(Head(queue), c)
  BY <1>1 DEF Waiting
<1>5. ASSUME NEW c PROVE \A i : i \in Waiting(c)' <=> i \in Nat \ {0} /\ i + 1 \in Waiting(c)
  <2>1. ASSUME NEW i \in Waiting(c)' PROVE i \in Nat \ {0} /\ i + 1 \in Waiting(c)
    <3>1. i \in 1..Len(queue') /\ Receives(queue'[i], c)
      BY <2>1 DEF Waiting
    <3>. QED  BY <1>1, <3>1 DEF Waiting
  <2>2. ASSUME NEW i \in Nat \ {0}, i + 1 \in Waiting(c) PROVE i \in Waiting(c)'
    <3>1. i + 1 \in 1..Len(queue) /\ Receives(queue[i + 1], c)
      BY <2>2 DEF Waiting
    <3>2. i \in 1..Len(queue')
      BY <1>1, <3>1
    <3>. QED  BY <1>1, <3>1, <3>2 DEF Waiting
  <2>. QED  BY <2>1, <2>2
<1>. QED  BY <1>1, <1>2, <1>3, <1>4, <1>5

-----------------------------------------------------------------------------
(* What read takes from a connection. *)
LEMMA TakenIs ==
  ASSUME TypeOK, NEW c \in Clients, NEW wanted \in Nat, NEW n, n = Taken(Available(c), wanted), n > 0
  PROVE  /\ n \in Nat \ {0} /\ n <= wanted /\ rcvd[c] + n <= sent[c] /\ rcvd[c] \in Nat /\ sent[c] \in Nat
         /\ peer[c] # "reset"
<1>1. rcvd[c] \in Nat /\ sent[c] \in Nat /\ rcvd[c] <= sent[c]
  BY DEF TypeOK, WorkerSteps
<1>2. Available(c) \in Nat /\ (peer[c] = "reset" => Available(c) = 0)
  BY <1>1 DEF Available
<1>3. peer[c] # "reset"
  BY <1>2 DEF Taken
<1>4. Available(c) = sent[c] - rcvd[c]
  BY <1>3 DEF Available
<1>. QED  BY <1>1, <1>2, <1>3, <1>4 DEF Taken

(* A sequence followed by another one. *)
LEMMA Joined ==
  ASSUME NEW s \in Seq(Nat), NEW t \in Seq(Nat)
  PROVE  /\ s \o t \in Seq(Nat) /\ Len(s \o t) = Len(s) + Len(t) /\ Len(s) \in Nat
         /\ \A i \in 1..Len(s) : (s \o t)[i] = s[i]
         /\ \A i \in 1..Len(t) : (s \o t)[Len(s) + i] = t[i]
<1>1. /\ s \o t \in Seq(Nat) /\ Len(s \o t) = Len(s) + Len(t)
      /\ \A i \in 1..(Len(s) + Len(t)) : (s \o t)[i] = IF i <= Len(s) THEN s[i] ELSE t[i - Len(s)]
  BY ConcatProperties, Zenon
<1>2. Len(s) \in Nat /\ Len(t) \in Nat
  OBVIOUS
<1>3. ASSUME NEW i \in 1..Len(t) PROVE (s \o t)[Len(s) + i] = t[i]
  <2>1. Len(s) + i \in 1..(Len(s) + Len(t)) /\ ~(Len(s) + i <= Len(s)) /\ Len(s) + i - Len(s) = i
    BY <1>2
  <2>. QED  BY <1>1, <2>1
<1>. QED  BY <1>1, <1>2, <1>3

LEMMA GotIs ==
  ASSUME TypeOK, NEW w \in Workers, NEW c \in Clients, NEW n \in Nat
  PROVE  /\ Got(w, c, n) \in Seq(Nat) /\ Len(Got(w, c, n)) = Len(buf[w].units) + n
         /\ Len(buf[w].units) \in Nat
         /\ \A i \in 1..Len(buf[w].units) : Got(w, c, n)[i] = buf[w].units[i]
         /\ \A i \in 1..n : Got(w, c, n)[Len(buf[w].units) + i] = rcvd[c] + i
<1>1. rcvd[c] \in Nat /\ buf[w].units \in Seq(Nat)
  BY DEF TypeOK
<1>2. PICK new : new = [i \in 1..n |-> rcvd[c] + i]
  OBVIOUS
<1>3. new \in Seq(Nat) /\ Len(new) = n /\ \A i \in 1..n : new[i] = rcvd[c] + i
  BY <1>1, <1>2
<1>4. Got(w, c, n) = buf[w].units \o new
  BY <1>2 DEF Got
<1>5. /\ buf[w].units \o new \in Seq(Nat) /\ Len(buf[w].units \o new) = Len(buf[w].units) + n
      /\ Len(buf[w].units) \in Nat
      /\ \A i \in 1..Len(buf[w].units) : (buf[w].units \o new)[i] = buf[w].units[i]
      /\ \A i \in 1..n : (buf[w].units \o new)[Len(buf[w].units) + i] = new[i]
  BY <1>1, <1>3, Joined
<1>. QED  BY <1>3, <1>4, <1>5

(* Each variable keeps to its type. *)
LEMMA TypeStep == ConnInv /\ [Next]_vars => TypeOK'
<1>. SUFFICES ASSUME ConnInv, [Next]_vars PROVE TypeOK'
  OBVIOUS
<1>. USE DEF vars, stream, epoll, worker, pool
<1>0. TypeOK
  BY DEF ConnInv
<1>1. ASSUME NEW c \in Clients, Connect(c) \/ Leave(c) PROVE TypeOK'
  BY <1>0, <1>1 DEF TypeOK, Connect, Leave
<1>2. ASSUME NEW c \in Clients, Send(c) PROVE TypeOK'
  <2>1. /\ sent' \in [Clients -> 0..(Packets * PacketUnits)]
        /\ \A d \in Clients : rcvd[d] <= sent'[d]
    BY <1>0, <1>2, Units DEF TypeOK, Send
  <2>. QED  BY <1>0, <1>2, <2>1 DEF TypeOK, Send
<1>3. CASE epoll_wait
  <2>1. Ready \subseteq Clients \cup {Listen}
    BY <1>0 DEF Ready, TypeOK
  <2>. QED  BY <1>0, <1>3, <2>1 DEF TypeOK, epoll_wait
<1>4. ASSUME NEW c \in Clients, accept_event(c) PROVE TypeOK'
  BY <1>0, <1>4 DEF TypeOK, accept_event, eventset
<1>5. ASSUME NEW c \in Clients, event[c].state # "none", eventadd(c)
      PROVE  /\ event' \in [Clients -> {NoEvent} \cup [state : {"live", "freed"}, fd : Fds, status : {0, 1}]]
             /\ ptr' \in [Fds -> Clients \cup {NoConn}]
             /\ armed' \subseteq {f \in Fds : ptr'[f] # NoConn}
  <2>1. event[c] \in [state : {"live", "freed"}, fd : Fds, status : {0, 1}]
    BY <1>0, <1>5 DEF TypeOK, NoEvent
  <2>2. [event[c] EXCEPT !.status = 1] \in [state : {"live", "freed"}, fd : Fds, status : {0, 1}]
    BY <2>1
  <2>3. event' = [event EXCEPT ![c] = [event[c] EXCEPT !.status = 1]]
    BY <1>5 DEF eventadd
  <2>. QED  BY <1>0, <1>5, <2>1, <2>2, <2>3, ConnectionsAssumption DEF TypeOK, eventadd
<1>6. CASE accept_event_add
  <2>1. loop.ev \in Clients /\ event[loop.ev].state # "none"
    BY <1>0, <1>6 DEF TypeOK, accept_event_add, ConnInv, LoopOK
  <2>2. loop' \in [at : {"add", "insert"}, ev : Clients]
    BY <1>0, <1>6, <2>1 DEF TypeOK, accept_event_add
  <2>. QED  BY <1>0, <1>5, <1>6, <2>1, <2>2 DEF TypeOK, accept_event_add
<1>7. CASE accept_event_insert
  <2>1. loop.ev \in Clients /\ event[loop.ev].state # "none"
    BY <1>0, <1>7 DEF TypeOK, accept_event_insert, ConnInv, LoopOK
  <2>2. event[loop.ev].fd \in Fds
    BY <1>0, <2>1 DEF TypeOK, NoEvent
  <2>. QED  BY <1>0, <1>7, <2>1, <2>2 DEF TypeOK, accept_event_insert
<1>8. ASSUME NEW c \in Clients, recv_event(c) PROVE TypeOK'
  <2>1. [fn |-> "recv_task", ev |-> c] \in Task
    BY DEF Task
  <2>2. queue' \in Seq(Task) /\ Len(queue') <= QueueMax /\ held' = held
    BY <1>0, <1>8, <2>1, SubmitDoes DEF TypeOK, recv_event
  <2>. QED  BY <1>0, <1>8, <2>2 DEF TypeOK, recv_event
<1>9. ASSUME NEW w \in Workers, Take(w) PROVE TypeOK'
  <2>1. /\ queue' \in Seq(Task) /\ Len(queue') <= Len(queue) /\ Len(queue') \in Nat /\ Len(queue) \in Nat
        /\ held' \in [Workers -> Task \cup {NoTask}]
    BY <1>0, <1>9, TakeDoes DEF TypeOK, Take
  <2>2. Len(queue') <= QueueMax
    BY <1>0, <2>1, ConnectionsAssumption DEF TypeOK, WorkerSteps
  <2>. QED  BY <1>0, <1>9, <2>1, <2>2 DEF TypeOK, Take
<1>10. ASSUME NEW w \in Workers, NEW c \in Clients, NEW wanted \in Nat, NEW n, n = Taken(Available(c), wanted),
              n > 0, Consume(c, n), NEW need \in 0..BodyUnits,
              buf' = [buf EXCEPT ![w] = [units |-> Got(w, c, n), need |-> need]],
              at' \in [Workers -> WorkerSteps],
              UNCHANGED <<sent, peer, fdt, event, epoll, m_mapSockfdToEvent, batch, loop, pool, dealt, up>>
       PROVE  TypeOK'
  <2>1. n \in Nat /\ rcvd[c] + n <= sent[c] /\ rcvd[c] \in Nat
    BY <1>0, <1>10, TakenIs
  <2>2. rcvd' \in [Clients -> Nat] /\ \A d \in Clients : rcvd'[d] <= sent[d]
    BY <1>0, <1>10, <2>1 DEF TypeOK, Consume
  <2>3. Got(w, c, n) \in Seq(Nat)
    BY <1>0, <2>1, GotIs
  <2>4. buf' \in [Workers -> [units : Seq(Nat), need : 0..BodyUnits]]
    BY <1>0, <1>10, <2>3 DEF TypeOK, WorkerSteps
  <2>. QED  BY <1>0, <1>10, <2>2, <2>4 DEF TypeOK, WorkerSteps
<1>11. ASSUME NEW w \in Workers, recv_task_header(w) PROVE TypeOK'
  <2>1. fdt[Sock(w)] \in Clients
    BY <1>0, <1>11, ServesLive DEF recv_task_header, Readable, TypeOK
  <2>2. PICK size \in PackSizes(fdt[Sock(w)], Taken(Available(fdt[Sock(w)]), HeaderUnits)) :
          /\ buf' = [buf EXCEPT ![w] = [units |-> Got(w, fdt[Sock(w)], Taken(Available(fdt[Sock(w)]), HeaderUnits)),
                                        need |-> size]]
          /\ at' = [at EXCEPT ![w] = IF size = 0 THEN "submit" ELSE "body"]
    BY <1>11 DEF recv_task_header
  <2>3. size \in 0..BodyUnits
    BY ConnectionsAssumption DEF PackSizes
  <2>4. at' \in [Workers -> WorkerSteps]
    BY <1>0, <2>2 DEF TypeOK, WorkerSteps
  <2>. QED  BY <1>10, <1>11, <2>1, <2>2, <2>3, <2>4, ConnectionsAssumption DEF recv_task_header
<1>12. ASSUME NEW w \in Workers, recv_task_body(w) PROVE TypeOK'
  <2>1. PICK c \in Clients : c = fdt[Sock(w)]
    BY <1>0, <1>12, ServesLive DEF recv_task_body, Readable, TypeOK
  <2>2. PICK n : n = Taken(Available(c), buf[w].need)
    OBVIOUS
  <2>3. /\ n > 0 /\ Consume(c, n)
        /\ buf' = [buf EXCEPT ![w] = [units |-> Got(w, c, n), need |-> @.need - n]]
        /\ at' = [at EXCEPT ![w] = IF BodyDone(w, n) THEN "submit" ELSE "body"]
        /\ UNCHANGED <<sent, peer, fdt, event, epoll, m_mapSockfdToEvent, batch, loop, pool, dealt, up>>
    BY <1>12, <2>1, <2>2 DEF recv_task_body
  <2>4. buf[w].need \in 0..BodyUnits /\ buf[w].need \in Nat
    BY <1>0, ConnectionsAssumption DEF TypeOK, WorkerSteps
  <2>5. n \in Nat /\ n <= buf[w].need
    BY <1>0, <2>2, <2>3, <2>4, TakenIs
  <2>6. PICK need \in 0..BodyUnits : need = buf[w].need - n
    BY <2>4, <2>5, ConnectionsAssumption
  <2>7. at' \in [Workers -> WorkerSteps]
    BY <1>0, <2>3 DEF TypeOK, WorkerSteps
  <2>8. buf' = [buf EXCEPT ![w] = [units |-> Got(w, c, n), need |-> need]]
    BY <1>0, <2>3, <2>6 DEF TypeOK, WorkerSteps
  <2>9. PICK wanted \in Nat : wanted = buf[w].need
    BY <2>4
  <2>10. n = Taken(Available(c), wanted)
    BY <2>2, <2>9
  <2>11. UNCHANGED <<sent, peer, fdt, event, epoll, m_mapSockfdToEvent, batch, loop, pool, dealt, up>>
    BY <2>3
  <2>12. n > 0 /\ Consume(c, n)
    BY <2>3
  <2>. QED  BY <1>10, <2>7, <2>8, <2>10, <2>11, <2>12
<1>13. ASSUME NEW w \in Workers, recv_task_fails(w) PROVE TypeOK'
  BY <1>0, <1>13 DEF TypeOK, recv_task_fails, AfterFailure
<1>14. ASSUME NEW w \in Workers, recv_task_submit(w) PROVE TypeOK'
  <2>1. ReadBuffer(w) \in Task
    BY <1>0, <1>14, ServesLive, PacketNumber DEF recv_task_submit, ReadBuffer, Task, DataBuffer
  <2>2. queue' \in Seq(Task) /\ Len(queue') <= QueueMax /\ held' = held
    BY <1>0, <1>14, <2>1, SubmitDoes DEF TypeOK, recv_task_submit
  <2>. QED  BY <1>0, <1>14, <2>2 DEF TypeOK, recv_task_submit
<1>15. ASSUME NEW w \in Workers, Return(w)
       PROVE  /\ queue' = queue /\ held' \in [Workers -> Task \cup {NoTask}]
              /\ at' \in [Workers -> WorkerSteps]
              /\ buf' \in [Workers -> [units : Seq(Nat), need : 0..BodyUnits]]
  BY <1>0, <1>15, FinishDoes, ConnectionsAssumption DEF TypeOK, Return, NoBuf, WorkerSteps
<1>16. ASSUME NEW w \in Workers, recv_task_rearm(w) PROVE TypeOK'
  <2>1. Ev(w) \in Clients /\ event[Ev(w)].state # "none"
    BY <1>16, ServesLive DEF recv_task_rearm
  <2>. QED  BY <1>0, <1>5, <1>15, <1>16, <2>1 DEF TypeOK, recv_task_rearm, WorkerSteps
<1>17. ASSUME NEW f \in Fds, Unregister(f)
       PROVE  ptr' \in [Fds -> Clients \cup {NoConn}] /\ armed' \subseteq {g \in Fds : ptr'[g] # NoConn}
  BY <1>0, <1>17 DEF TypeOK, Unregister
<1>18. ASSUME NEW w \in Workers, recv_task_eventdel(w) PROVE TypeOK'
  <2>1. Sock(w) \in Fds /\ event[Ev(w)] \in [state : {"live", "freed"}, fd : Fds, status : {0, 1}]
        /\ Ev(w) \in Clients
    BY <1>18, ServesLive DEF recv_task_eventdel
  <2>2. ptr' \in [Fds -> Clients \cup {NoConn}] /\ armed' \subseteq {g \in Fds : ptr'[g] # NoConn}
    BY <1>0, <1>17, <1>18, <2>1 DEF TypeOK, recv_task_eventdel, WorkerSteps
  <2>3. event' \in [Clients -> {NoEvent} \cup [state : {"live", "freed"}, fd : Fds, status : {0, 1}]]
    BY <1>0, <1>18, <2>1 DEF TypeOK, recv_task_eventdel, WorkerSteps
  <2>4. at' \in [Workers -> WorkerSteps]
    BY <1>0, <1>18 DEF TypeOK, recv_task_eventdel, WorkerSteps
  <2>. QED  BY <1>0, <1>18, <2>2, <2>3, <2>4 DEF TypeOK, recv_task_eventdel, WorkerSteps
<1>19. ASSUME NEW w \in Workers, recv_task_close(w) PROVE TypeOK'
  <2>1. Sock(w) \in Fds
    BY <1>19, ServesLive DEF recv_task_close
  <2>. QED  BY <1>0, <1>17, <1>19, <2>1 DEF TypeOK, recv_task_close
<1>20. ASSUME NEW w \in Workers, recv_task_erase(w) PROVE TypeOK'
  <2>1. Sock(w) \in Fds
    BY <1>20, ServesLive DEF recv_task_erase
  <2>. QED  BY <1>0, <1>20, <2>1 DEF TypeOK, recv_task_erase
<1>21. ASSUME NEW w \in Workers, recv_task_delete(w) PROVE TypeOK'
  <2>1. Ev(w) \in Clients /\ event[Ev(w)] \in [state : {"live", "freed"}, fd : Fds, status : {0, 1}]
    BY <1>21, ServesLive DEF recv_task_delete
  <2>2. event' \in [Clients -> {NoEvent} \cup [state : {"live", "freed"}, fd : Fds, status : {0, 1}]]
    BY <1>0, <1>21, <2>1 DEF TypeOK, recv_task_delete, WorkerSteps
  <2>. QED  BY <1>0, <1>15, <1>21, <2>2 DEF TypeOK, recv_task_delete, WorkerSteps
<1>22. ASSUME NEW w \in Workers, Buffer_Deal(w) PROVE TypeOK'
  <2>1. held[w] \in DataBuffer
    BY <1>0, <1>22 DEF Buffer_Deal, ConnInv, AtOK, TypeOK, Task
  <2>2. dealt' \in [Clients -> SUBSET (1..Packets)]
    BY <1>0, <1>22, <2>1, ConnectionsAssumption DEF Buffer_Deal, TypeOK, DataBuffer
  <2>3. peer' \in [Clients -> {"away", "open", "closed", "reset"}] /\ up' \in BOOLEAN
    <3>1. Answer(held[w].sockfd)
      BY <1>22 DEF Buffer_Deal
    <3>2. peer' = peer \/ \E c : peer' = [peer EXCEPT ![c] = "reset"]
      BY <3>1 DEF Answer
    <3>3. up' = up \/ up' = FALSE
      BY <3>1 DEF Answer
    <3>. QED  BY <1>0, <3>2, <3>3 DEF TypeOK, WorkerSteps
  <2>. QED  BY <1>0, <1>15, <1>22, <2>2, <2>3 DEF TypeOK, Buffer_Deal, WorkerSteps
<1>23. CASE UNCHANGED vars
  BY <1>0, <1>23 DEF TypeOK, WorkerSteps
<1>. QED  BY <1>1, <1>2, <1>3, <1>4, <1>6, <1>7, <1>8, <1>9, <1>11, <1>12, <1>13, <1>14, <1>16,
             <1>18, <1>19, <1>20, <1>21, <1>22, <1>23
          DEF Next, EventLoop, recv_task

-----------------------------------------------------------------------------
(* What Return does to the tasks in hand. *)
LEMMA ReturnDoes ==
  ASSUME ConnInv, NEW w \in Workers, Return(w)
  PROVE  /\ queue' = queue /\ held' \in [Workers -> Task \cup {NoTask}]
         /\ \A v \in Workers : AtOK(v)'
         /\ \A c : Serving(c)' = Serving(c) \ {w} /\ Waiting(c)' = Waiting(c)
         /\ \A v \in Workers \ {w} : at'[v] = at[v]
<1>1. TypeOK /\ Pool!Finish(w) /\ at' = [at EXCEPT ![w] = "idle"]
  BY DEF Return, ConnInv
<1>2. /\ held' \in [Workers -> Task \cup {NoTask}] /\ queue' = queue /\ held'[w] = NoTask
      /\ \A v \in Workers \ {w} : held'[v] = held[v]
      /\ \A c : Serving(c)' = Serving(c) \ {w} /\ Waiting(c)' = Waiting(c)
  BY <1>1, FinishDoes DEF TypeOK
<1>3. at'[w] = "idle" /\ \A v \in Workers \ {w} : at'[v] = at[v]
  BY <1>1 DEF TypeOK
<1>4. ASSUME NEW v \in Workers PROVE AtOK(v)'
  BY <1>2, <1>3 DEF AtOK, ConnInv
<1>. QED  BY <1>2, <1>3, <1>4

(* A worker that stays in its receive does not move the token. *)
LEMMA StaysInReceive ==
  ASSUME ConnInv, NEW w \in Workers, NEW s \in WorkerSteps,
         at[w] \notin {"idle", "deal", "erase", "delete"}, s \notin {"idle", "deal", "erase", "delete"},
         at' = [at EXCEPT ![w] = s], UNCHANGED pool
  PROVE  /\ \A v \in Workers : AtOK(v)'
         /\ \A c : /\ Waiting(c)' = Waiting(c) /\ Serving(c)' = Serving(c)
                   /\ Receiving(c)' <=> Receiving(c)
                   /\ Closed(c)' <=> Closed(c)
<1>1. TypeOK
  BY DEF ConnInv
<1>2. at'[w] = s /\ \A v \in Workers \ {w} : at'[v] = at[v]
  BY <1>1 DEF TypeOK
<1>3. ASSUME NEW v \in Workers PROVE AtOK(v)'
  BY <1>2 DEF AtOK, ConnInv, pool
<1>4. \A c : Waiting(c)' = Waiting(c) /\ Serving(c)' = Serving(c) /\ (Receiving(c)' <=> Receiving(c))
  BY SameTasks
<1>5. \A c : Serving(c) \subseteq Workers
  BY DEF Serving
<1>6. \A c : Closed(c)' <=> Closed(c)
  BY <1>2, <1>4, <1>5 DEF Closed
<1>. QED  BY <1>3, <1>4, <1>6

(* A connection that is served by w has no other place for its token. *)
LEMMA OnlyServer ==
  ASSUME ConnInv, NEW w \in Workers, NEW c \in Clients, w \in Serving(c)
  PROVE  /\ Serving(c) = {w} /\ Waiting(c) = {} /\ c \notin batch /\ ~Armed(c) /\ ~Adding(c)
         /\ Closed(c) <=> at[w] \in {"erase", "delete"}
         /\ \A d \in Clients \ {c} : w \notin Serving(d)
<1>1. Receiving(c) /\ OneToken(c)
  BY DEF Receiving, ConnInv
<1>2. Serving(c) = {w}
  BY <1>1 DEF OneToken
<1>. QED  BY <1>1, <1>2 DEF OneToken, Closed, Serving, Receives

(* Whoever is in the list has its socket. *)
LEMMA ListedIsOpen ==
  ASSUME ConnInv, NEW c \in Clients, InList(c)
  PROVE  ~Closed(c)
BY ConnectionsAssumption DEF ConnInv, FdOK, InList

TokenInv ==
  /\ \A w \in Workers : AtOK(w)
  /\ \A c \in Clients : OneToken(c) /\ EventOK(c)
  /\ \A f \in Fds : FdOK(f)
  /\ LoopOK

(* Nothing the token depends on changes. *)
LEMMA TokenStays ==
  ASSUME ConnInv, UNCHANGED <<fdt, event, epoll, batch, loop>>,
         \A v \in Workers : AtOK(v)',
         \A c : /\ Waiting(c)' = Waiting(c) /\ Serving(c)' = Serving(c)
                /\ Receiving(c)' <=> Receiving(c)
                /\ Closed(c)' <=> Closed(c)
  PROVE  TokenInv'
<1>1. \A c : (Armed(c)' <=> Armed(c)) /\ (InList(c)' <=> InList(c)) /\ (Adding(c)' <=> Adding(c))
  BY DEF Armed, InList, Adding, epoll
<1>2. ASSUME NEW c \in Clients PROVE OneToken(c)'
  BY <1>1 DEF OneToken, ConnInv
<1>3. ASSUME NEW c \in Clients PROVE EventOK(c)'
  BY <1>1 DEF EventOK, ConnInv
<1>4. ASSUME NEW f \in Fds PROVE FdOK(f)'
  BY DEF FdOK, ConnInv, epoll
<1>. QED  BY <1>2, <1>3, <1>4 DEF TokenInv, ConnInv, LoopOK

LEMMA TokenStaysPut ==
  ConnInv /\ UNCHANGED <<fdt, event, epoll, batch, loop, pool, at>> => TokenInv'
<1>. SUFFICES ASSUME ConnInv, UNCHANGED <<fdt, event, epoll, batch, loop, pool, at>> PROVE TokenInv'
  OBVIOUS
<1>1. \A c : Waiting(c)' = Waiting(c) /\ Serving(c)' = Serving(c) /\ (Receiving(c)' <=> Receiving(c))
  BY SameTasks
<1>2. \A c : Closed(c)' <=> Closed(c)
  BY <1>1 DEF Closed
<1>3. ASSUME NEW w \in Workers PROVE AtOK(w)'
  BY DEF AtOK, ConnInv, pool
<1>. QED  BY <1>1, <1>2, <1>3, TokenStays

-----------------------------------------------------------------------------
(* The event loop and the token. *)
LEMMA EpollWaitToken == ConnInv /\ epoll_wait => TokenInv'
<1>. SUFFICES ASSUME ConnInv, epoll_wait PROVE TokenInv'
  OBVIOUS
<1>. USE DEF stream, epoll, pool, worker
<1>1. /\ UNCHANGED <<fdt, event, ptr, loop, pool, at>>
      /\ loop.at = "wait" /\ batch = {} /\ batch' = Ready /\ armed' \subseteq armed
      /\ \A f \in armed' : ptr[f] \notin Ready
  BY DEF epoll_wait, ClientEvents
<1>2. /\ \A c : Waiting(c)' = Waiting(c) /\ Serving(c)' = Serving(c) /\ (Receiving(c)' <=> Receiving(c))
      /\ \A c : (InList(c)' <=> InList(c)) /\ (Closed(c)' <=> Closed(c)) /\ ~Adding(c)'
  BY <1>1, SameTasks DEF InList, Closed, Adding
<1>3. \A c \in Clients : c \in batch' => Armed(c)
  BY <1>1, ConnectionsAssumption DEF Ready, Armed
<1>4. \A c : Armed(c)' => Armed(c) /\ c \notin batch'
  BY <1>1 DEF Armed
<1>5. \A c : Armed(c) => InList(c)
  BY DEF Armed, InList, ConnInv, TypeOK
<1>6. ASSUME NEW c \in Clients PROVE OneToken(c)'
  BY <1>2, <1>3, <1>4 DEF OneToken, ConnInv
<1>7. ASSUME NEW c \in Clients PROVE EventOK(c)'
  BY <1>1, <1>2, <1>3, <1>5 DEF EventOK, ConnInv
<1>8. ASSUME NEW f \in Fds PROVE FdOK(f)'
  BY <1>1, <1>2 DEF FdOK, ConnInv
<1>9. ASSUME NEW w \in Workers PROVE AtOK(w)'
  BY <1>1 DEF AtOK, ConnInv
<1>. QED  BY <1>1, <1>6, <1>7, <1>8, <1>9 DEF TokenInv, ConnInv, LoopOK

LEMMA AcceptToken == \A c \in Clients : ConnInv /\ accept_event(c) => TokenInv'
<1>. SUFFICES ASSUME NEW c \in Clients, ConnInv, accept_event(c) PROVE TokenInv'
  OBVIOUS
<1>. USE DEF stream, epoll, pool, worker
<1>1. /\ UNCHANGED <<epoll, pool, at>> /\ loop.at = "wait" /\ batch' \subseteq batch
      /\ event[c].state = "none"
  BY DEF accept_event, Backlog
<1>2. /\ \A d : Waiting(d)' = Waiting(d) /\ Serving(d)' = Serving(d) /\ (Receiving(d)' <=> Receiving(d))
      /\ \A d : /\ InList(d)' <=> InList(d)
                /\ Closed(d)' <=> Closed(d)
                /\ Armed(d)' <=> Armed(d)
                /\ ~Adding(d)
  BY <1>1, SameTasks DEF InList, Closed, Adding, Armed
<1>3. ASSUME NEW w \in Workers PROVE AtOK(w)'
  BY <1>1 DEF AtOK, ConnInv
<1>4. c \notin batch /\ ~Receiving(c) /\ ~InList(c) /\ ~Closed(c)
  BY <1>1 DEF ConnInv, EventOK, Closed, Receiving
<1>5. CASE UNCHANGED <<fdt, event, loop>>
  <2>1. ASSUME NEW d \in Clients PROVE OneToken(d)' /\ EventOK(d)'
    BY <1>1, <1>2, <1>5 DEF OneToken, EventOK, ConnInv, Adding
  <2>2. ASSUME NEW f \in Fds PROVE FdOK(f)'
    BY <1>1, <1>2, <1>5 DEF FdOK, ConnInv
  <2>. QED  BY <1>3, <1>5, <2>1, <2>2 DEF TokenInv, LoopOK, ConnInv
<1>6. ASSUME NEW f \in Fds, fdt[f] = NoConn, fdt' = [fdt EXCEPT ![f] = c],
             event' = [event EXCEPT ![c] = eventset(f)], loop' = [at |-> "add", ev |-> c]
      PROVE  TokenInv'
  <2>1. /\ fdt'[f] = c /\ \A g \in Fds \ {f} : fdt'[g] = fdt[g]
        /\ event'[c].state = "live" /\ event'[c].fd = f
        /\ \A d \in Clients \ {c} : event'[d] = event[d]
    BY <1>6 DEF ConnInv, TypeOK, eventset
  <2>2. ptr[f] = NoConn
    BY <1>6 DEF ConnInv, FdOK
  <2>3. \A d : Adding(d)' <=> d = c
    BY <1>6 DEF Adding
  <2>4. ASSUME NEW d \in Clients PROVE OneToken(d)'
    <3>1. Armed(c) => InList(c)
      BY DEF Armed, InList, ConnInv, TypeOK
    <3>2. CASE d = c
      BY <1>1, <1>2, <1>4, <3>1, <3>2 DEF OneToken, ConnInv
    <3>3. CASE d # c
      BY <1>1, <1>2, <2>3, <3>3 DEF OneToken, ConnInv
    <3>. QED  BY <3>2, <3>3
  <2>5. ASSUME NEW d \in Clients PROVE EventOK(d)'
    <3>1. CASE d = c
      BY <2>1, <3>1 DEF EventOK
    <3>2. CASE d # c
      <4>1. event[d].state = "live" => event[d].fd \in Fds
        BY DEF ConnInv, TypeOK, NoEvent
      <4>2. event[d].state = "live" /\ event[d].fd = f => Closed(d)
        BY <1>6, ConnectionsAssumption DEF ConnInv, EventOK
      <4>. QED  BY <1>1, <1>2, <2>1, <2>3, <3>2, <4>1, <4>2 DEF EventOK, ConnInv
    <3>. QED  BY <3>1, <3>2
  <2>6. ASSUME NEW g \in Fds PROVE FdOK(g)'
    <3>1. CASE g = f
      BY <1>1, <1>2, <1>4, <2>1, <2>2, <3>1 DEF FdOK
    <3>2. CASE g # f
      <4>1. fdt[g] # NoConn => fdt[g] \in Clients \ {c}
        BY <1>1 DEF ConnInv, TypeOK, FdOK
      <4>. QED  BY <1>1, <1>2, <2>1, <3>2, <4>1 DEF FdOK, ConnInv
    <3>. QED  BY <3>1, <3>2
  <2>. QED  BY <1>3, <1>6, <2>1, <2>4, <2>5, <2>6 DEF TokenInv, LoopOK
<1>. QED  BY <1>5, <1>6 DEF accept_event

(* What eventadd does, for an event that holds the token. *)
LEMMA EventAddDoes ==
  ASSUME ConnInv, NEW c \in Clients, event[c].state = "live", fdt[event[c].fd] = c, eventadd(c)
  PROVE  /\ \A d : event'[d].state = event[d].state /\ event'[d].fd = event[d].fd
         /\ \A d \in Clients \ {c} : (Armed(d)' => Armed(d)) /\ (InList(d)' => InList(d))
         /\ \A f \in Fds : ptr'[f] # NoConn => fdt[f] = ptr'[f]
<1>1. TypeOK /\ \A f \in Fds : FdOK(f)
  BY DEF ConnInv
<1>2. event[c] \in [state : {"live", "freed"}, fd : Fds, status : {0, 1}]
  BY <1>1 DEF TypeOK, NoEvent
<1>3. event' = [event EXCEPT ![c] = [event[c] EXCEPT !.status = 1]]
  BY DEF eventadd
<1>4. \A d : event'[d].state = event[d].state /\ event'[d].fd = event[d].fd
  BY <1>1, <1>2, <1>3 DEF TypeOK
<1>5. \/ ptr' = ptr /\ armed' = armed
      \/ ptr' = [ptr EXCEPT ![event[c].fd] = c] /\ armed' = armed \cup {event[c].fd}
  BY DEF eventadd
<1>6. \A d \in Clients \ {c} : (Armed(d)' => Armed(d)) /\ (InList(d)' => InList(d))
  <2>1. ptr \in [Fds -> Clients \cup {NoConn}] /\ armed \subseteq Fds
    BY <1>1 DEF TypeOK
  <2>2. ASSUME NEW g \in Fds, ptr'[g] # ptr[g] PROVE ptr'[g] = c
    BY <1>5, <2>1, <2>2
  <2>3. ASSUME NEW g \in armed', g \notin armed PROVE g \in Fds /\ ptr'[g] = c
    BY <1>2, <1>5, <2>1, <2>3
  <2>4. ASSUME NEW d \in Clients \ {c}, Armed(d)' PROVE Armed(d)
    <3>1. PICK g \in armed' : ptr'[g] = d
      BY <2>4 DEF Armed
    <3>. QED  BY <2>1, <2>2, <2>3, <3>1 DEF Armed
  <2>. QED  BY <2>2, <2>4 DEF InList
<1>7. \A f \in Fds : ptr'[f] # NoConn => fdt[f] = ptr'[f]
  BY <1>1, <1>5 DEF FdOK, TypeOK
<1>. QED  BY <1>4, <1>6, <1>7

LEMMA AcceptAddToken == ConnInv /\ accept_event_add => TokenInv'
<1>. SUFFICES ASSUME ConnInv, accept_event_add PROVE TokenInv'
  OBVIOUS
<1>. USE DEF stream, epoll, pool, worker
<1>1. /\ UNCHANGED <<fdt, batch, pool, at>> /\ loop.at = "add" /\ loop' = [loop EXCEPT !.at = "insert"]
      /\ eventadd(loop.ev)
  BY DEF accept_event_add
<1>2. PICK c \in Clients : c = loop.ev
  BY <1>1 DEF ConnInv, TypeOK
<1>3. Adding(c) /\ loop'.ev = c /\ loop'.at = "insert"
  BY <1>1, <1>2 DEF Adding, ConnInv, TypeOK
<1>4. /\ \A d : Waiting(d)' = Waiting(d) /\ Serving(d)' = Serving(d) /\ (Receiving(d)' <=> Receiving(d))
      /\ \A d : (Closed(d)' <=> Closed(d)) /\ ~Adding(d)'
  BY <1>1, <1>3, SameTasks DEF Closed, Adding
<1>5. ~Receiving(c) /\ c \notin batch /\ event[c].state = "live" /\ fdt[event[c].fd] = c
  BY <1>3 DEF ConnInv, OneToken, EventOK, Closed, Receiving
<1>6. /\ \A d : event'[d].state = event[d].state /\ event'[d].fd = event[d].fd
      /\ \A d \in Clients \ {c} : (Armed(d)' => Armed(d)) /\ (InList(d)' => InList(d))
      /\ \A f \in Fds : ptr'[f] # NoConn => fdt[f] = ptr'[f]
  BY <1>1, <1>2, <1>5, EventAddDoes
<1>7. ASSUME NEW w \in Workers PROVE AtOK(w)'
  BY <1>1 DEF AtOK, ConnInv
<1>8. ASSUME NEW d \in Clients PROVE OneToken(d)'
  <2>1. CASE d = c
    BY <1>1, <1>4, <1>5, <2>1 DEF OneToken, ConnInv
  <2>2. CASE d # c
    BY <1>1, <1>4, <1>6, <2>2 DEF OneToken, ConnInv
  <2>. QED  BY <2>1, <2>2
<1>9. ASSUME NEW d \in Clients PROVE EventOK(d)'
  <2>1. CASE d = c
    BY <1>1, <1>4, <1>5, <1>6, <2>1 DEF EventOK, ConnInv
  <2>2. CASE d # c
    BY <1>1, <1>4, <1>6, <2>2 DEF EventOK, ConnInv
  <2>. QED  BY <2>1, <2>2
<1>10. ASSUME NEW f \in Fds PROVE FdOK(f)'
  BY <1>1, <1>4, <1>6 DEF FdOK, ConnInv
<1>. QED  BY <1>3, <1>5, <1>6, <1>7, <1>8, <1>9, <1>10 DEF TokenInv, LoopOK

LEMMA AcceptInsertToken == ConnInv /\ accept_event_insert => TokenInv'
<1>. SUFFICES ASSUME ConnInv, accept_event_insert PROVE TokenInv'
  OBVIOUS
<1>. USE DEF stream, epoll, pool, worker
<1>1. UNCHANGED <<fdt, event, epoll, batch, pool, at>> /\ loop' = [at |-> "wait", ev |-> NoConn]
  BY DEF accept_event_insert
<1>2. /\ \A d : Waiting(d)' = Waiting(d) /\ Serving(d)' = Serving(d) /\ (Receiving(d)' <=> Receiving(d))
      /\ \A d : /\ InList(d)' <=> InList(d)
                /\ Closed(d)' <=> Closed(d)
                /\ Armed(d)' <=> Armed(d)
                /\ ~Adding(d)'
  BY <1>1, SameTasks DEF InList, Closed, Adding, Armed
<1>3. ASSUME NEW w \in Workers PROVE AtOK(w)'
  BY <1>1 DEF AtOK, ConnInv
<1>4. ASSUME NEW d \in Clients PROVE OneToken(d)' /\ EventOK(d)'
  BY <1>1, <1>2 DEF OneToken, EventOK, ConnInv
<1>5. ASSUME NEW f \in Fds PROVE FdOK(f)'
  BY <1>1, <1>2 DEF FdOK, ConnInv
<1>. QED  BY <1>1, <1>3, <1>4, <1>5 DEF TokenInv, LoopOK

LEMMA RecvEventToken == \A c \in Clients : ConnInv /\ recv_event(c) => TokenInv'
<1>. SUFFICES ASSUME NEW c \in Clients, ConnInv, recv_event(c) PROVE TokenInv'
  OBVIOUS
<1>. USE DEF stream, epoll, pool, worker
<1>1. /\ UNCHANGED <<fdt, event, epoll, loop, at>> /\ loop.at = "wait"
      /\ c \in batch /\ batch' = batch \ {c} /\ Pool!Submit([fn |-> "recv_task", ev |-> c])
  BY DEF recv_event
<1>2. \A d : Receives([fn |-> "recv_task", ev |-> c], d) <=> d = c
  BY DEF Receives
<1>3. /\ held' = held /\ \A d : Serving(d)' = Serving(d)
      /\ Waiting(c)' = Waiting(c) \cup {Len(queue) + 1}
      /\ \A d : d # c => Waiting(d)' = Waiting(d)
  <2>1. [fn |-> "recv_task", ev |-> c] \in Task /\ queue \in Seq(Task)
    BY DEF Task, ConnInv, TypeOK
  <2>. QED  BY <1>1, <1>2, <2>1, SubmitDoes
<1>4. ~Receiving(c) /\ ~Armed(c) /\ \A d : ~Adding(d)
  BY <1>1 DEF ConnInv, OneToken, Adding
<1>5. \A d : /\ InList(d)' <=> InList(d)
             /\ Closed(d)' <=> Closed(d)
             /\ Armed(d)' <=> Armed(d)
             /\ ~Adding(d)'
  BY <1>1, <1>3, <1>4 DEF InList, Closed, Adding, Armed
<1>6. Waiting(c) = {} /\ Serving(c) = {}
  BY <1>4 DEF Receiving
<1>7. \A d : d # c => (Receiving(d)' <=> Receiving(d))
  BY <1>3 DEF Receiving
<1>8. ASSUME NEW w \in Workers PROVE AtOK(w)'
  BY <1>1, <1>3 DEF AtOK, ConnInv
<1>9. ASSUME NEW d \in Clients PROVE OneToken(d)'
  <2>1. CASE d = c
    BY <1>1, <1>3, <1>4, <1>5, <1>6, <2>1 DEF OneToken
  <2>2. CASE d # c
    BY <1>1, <1>3, <1>5, <1>7, <2>2 DEF OneToken, ConnInv
  <2>. QED  BY <2>1, <2>2
<1>10. ASSUME NEW d \in Clients PROVE EventOK(d)'
  <2>1. CASE d = c
    BY <1>1, <1>5, <2>1 DEF EventOK, ConnInv
  <2>2. CASE d # c
    BY <1>1, <1>5, <1>7, <2>2 DEF EventOK, ConnInv
  <2>. QED  BY <2>1, <2>2
<1>11. ASSUME NEW f \in Fds PROVE FdOK(f)'
  BY <1>1, <1>5 DEF FdOK, ConnInv
<1>. QED  BY <1>1, <1>8, <1>9, <1>10, <1>11 DEF TokenInv, LoopOK, ConnInv

-----------------------------------------------------------------------------
(* The workers and the token. *)
LEMMA TakeToken == \A w \in Workers : ConnInv /\ Take(w) => TokenInv'
<1>. SUFFICES ASSUME NEW w \in Workers, ConnInv, Take(w) PROVE TokenInv'
  OBVIOUS
<1>. USE DEF stream, epoll, worker
<1>1. /\ UNCHANGED <<fdt, event, epoll, loop, batch>> /\ Pool!Take(w)
      /\ at' = [at EXCEPT ![w] = IF Head(queue).fn = "recv_task" THEN "header" ELSE "deal"]
  BY DEF Take
<1>2. TypeOK
  BY DEF ConnInv
<1>3. /\ held[w] = NoTask /\ held'[w] = Head(queue) /\ Head(queue) \in Task
      /\ \A v \in Workers \ {w} : held'[v] = held[v]
      /\ \A c : /\ Serving(c)' = IF Receives(Head(queue), c) THEN Serving(c) \cup {w} ELSE Serving(c)
                /\ 1 \in Waiting(c) <=> Receives(Head(queue), c)
                /\ \A i : i \in Waiting(c)' <=> i \in Nat \ {0} /\ i + 1 \in Waiting(c)
  BY <1>1, <1>2, TakeDoes DEF TypeOK
<1>4. at'[w] \in {"header", "deal"} /\ \A v \in Workers \ {w} : at'[v] = at[v]
  BY <1>1, <1>2 DEF TypeOK
<1>5. ASSUME NEW v \in Workers PROVE AtOK(v)'
  <2>1. at'[w] = "deal" <=> Head(queue).fn = "Buffer_Deal"
    BY <1>1, <1>2, <1>3 DEF TypeOK, Task, DataBuffer
  <2>. QED  BY <1>3, <1>4, <2>1, TaskAssumption DEF AtOK, ConnInv
<1>6. \A c : Waiting(c) \subseteq Nat \ {0}
  BY <1>2 DEF Waiting, TypeOK
<1>7. ASSUME NEW c \in Clients
      PROVE  /\ Receiving(c)' <=> Receiving(c)
             /\ \A i, j \in Waiting(c)' : i = j
             /\ \A u, v \in Serving(c)' : u = v
             /\ Waiting(c)' = {} \/ Serving(c)' = {}
  <2>1. OneToken(c)
    BY DEF ConnInv
  <2>2. CASE Receives(Head(queue), c)
    <3>1. Waiting(c) = {1}
      BY <1>3, <2>1, <2>2 DEF OneToken
    <3>2. Serving(c)' = {w}
      BY <1>3, <2>1, <2>2, <3>1 DEF OneToken
    <3>3. Waiting(c)' = {}
      BY <1>3, <3>1
    <3>. QED  BY <3>1, <3>2, <3>3 DEF Receiving
  <2>3. CASE ~Receives(Head(queue), c)
    <3>1. Serving(c)' = Serving(c) /\ 1 \notin Waiting(c)
      BY <1>3, <2>3
    <3>2. \A i \in Waiting(c)' : i \in Nat \ {0} /\ i + 1 \in Waiting(c)
      BY <1>3
    <3>3. \A i, j \in Waiting(c)' : i = j
      <4>1. ASSUME NEW i \in Waiting(c)', NEW j \in Waiting(c)' PROVE i = j
        <5>1. i \in Nat /\ j \in Nat /\ i + 1 \in Waiting(c) /\ j + 1 \in Waiting(c)
          BY <3>2
        <5>2. i + 1 = j + 1
          BY <2>1, <5>1 DEF OneToken
        <5>. QED  BY <5>1, <5>2
      <4>. QED  BY <4>1
    <3>4. Waiting(c)' = {} <=> Waiting(c) = {}
      <4>1. ASSUME NEW i \in Waiting(c) PROVE i - 1 \in Waiting(c)'
        <5>1. i \in Nat /\ i # 0 /\ i # 1
          BY <1>6, <3>1
        <5>2. i - 1 \in Nat \ {0} /\ (i - 1) + 1 = i
          BY <5>1
        <5>. QED  BY <1>3, <5>2
      <4>. QED  BY <3>2, <4>1
    <3>. QED  BY <2>1, <3>1, <3>3, <3>4 DEF OneToken, Receiving
  <2>. QED  BY <2>2, <2>3
<1>8. /\ \A c : /\ InList(c)' <=> InList(c)
                /\ Armed(c)' <=> Armed(c)
                /\ Adding(c)' <=> Adding(c)
      /\ \A c \in Clients : Closed(c)' <=> Closed(c)
  <2>1. \A c : w \notin Serving(c) /\ Serving(c) \subseteq Workers
    BY <1>3 DEF Serving
  <2>. QED  BY <1>1, <1>3, <1>4, <2>1 DEF InList, Armed, Adding, Closed
<1>9. ASSUME NEW c \in Clients PROVE OneToken(c)'
  BY <1>1, <1>7, <1>8 DEF OneToken, ConnInv
<1>10. ASSUME NEW c \in Clients PROVE EventOK(c)'
  BY <1>1, <1>7, <1>8 DEF EventOK, ConnInv
<1>11. ASSUME NEW f \in Fds PROVE FdOK(f)'
  BY <1>1, <1>2, <1>8 DEF FdOK, ConnInv, TypeOK
<1>. QED  BY <1>1, <1>5, <1>9, <1>10, <1>11 DEF TokenInv, LoopOK, ConnInv

LEMMA ReadToken ==
  \A w \in Workers : ConnInv /\ (recv_task_header(w) \/ recv_task_body(w) \/ recv_task_fails(w)) => TokenInv'
<1>. SUFFICES ASSUME NEW w \in Workers, ConnInv,
                     recv_task_header(w) \/ recv_task_body(w) \/ recv_task_fails(w)
              PROVE  TokenInv'
  OBVIOUS
<1>1. /\ UNCHANGED <<fdt, event, epoll, batch, loop, pool>> /\ at[w] \in {"header", "body"}
      /\ \E s \in {"submit", "body", "eventdel"} : at' = [at EXCEPT ![w] = s]
  <2>1. CASE recv_task_header(w)
    BY <2>1 DEF recv_task_header
  <2>2. CASE recv_task_body(w)
    BY <2>2 DEF recv_task_body
  <2>3. CASE recv_task_fails(w)
    <3>1. at' = [at EXCEPT ![w] = AfterFailure(at[w])]
      BY <2>3 DEF recv_task_fails
    <3>. QED  BY <2>3, <3>1 DEF recv_task_fails, AfterFailure
  <2>. QED  BY <2>1, <2>2, <2>3
<1>2. PICK s \in WorkerSteps : s \notin {"idle", "deal", "erase", "delete"} /\ at' = [at EXCEPT ![w] = s]
  BY <1>1 DEF WorkerSteps
<1>. QED  BY <1>1, <1>2, StaysInReceive, TokenStays

LEMMA SubmitToken == \A w \in Workers : ConnInv /\ recv_task_submit(w) => TokenInv'
<1>. SUFFICES ASSUME NEW w \in Workers, ConnInv, recv_task_submit(w) PROVE TokenInv'
  OBVIOUS
<1>1. /\ UNCHANGED <<fdt, event, epoll, batch, loop>> /\ at[w] = "submit"
      /\ at' = [at EXCEPT ![w] = "rearm"] /\ Pool!Submit(ReadBuffer(w))
  BY DEF recv_task_submit
<1>2. ReadBuffer(w) \in Task /\ \A c : ~Receives(ReadBuffer(w), c)
  BY <1>1, ServesLive, PacketNumber DEF ReadBuffer, Task, DataBuffer, Receives
<1>3. held' = held /\ \A c : Serving(c)' = Serving(c) /\ Waiting(c)' = Waiting(c)
  BY <1>1, <1>2, SubmitDoes DEF ConnInv, TypeOK
<1>4. at'[w] = "rearm" /\ \A v \in Workers \ {w} : at'[v] = at[v]
  BY <1>1 DEF ConnInv, TypeOK
<1>5. \A c : (Receiving(c)' <=> Receiving(c)) /\ Serving(c) \subseteq Workers
  BY <1>3 DEF Receiving, Serving
<1>6. \A c : Closed(c)' <=> Closed(c)
  BY <1>1, <1>3, <1>4, <1>5 DEF Closed
<1>7. ASSUME NEW v \in Workers PROVE AtOK(v)'
  BY <1>1, <1>3, <1>4 DEF AtOK, ConnInv
<1>. QED  BY <1>1, <1>3, <1>5, <1>6, <1>7, TokenStays

LEMMA RearmToken == \A w \in Workers : ConnInv /\ recv_task_rearm(w) => TokenInv'
<1>. SUFFICES ASSUME NEW w \in Workers, ConnInv, recv_task_rearm(w) PROVE TokenInv'
  OBVIOUS
<1>1. /\ UNCHANGED <<fdt, batch, loop>> /\ at[w] = "rearm" /\ eventadd(Ev(w)) /\ Return(w)
  BY DEF recv_task_rearm
<1>2. PICK c \in Clients : c = Ev(w)
  BY <1>1, ServesLive
<1>3. w \in Serving(c) /\ event[c].state = "live" /\ fdt[event[c].fd] = c
  BY <1>1, <1>2, ServesLive DEF Sock
<1>4. /\ Serving(c) = {w} /\ Waiting(c) = {} /\ c \notin batch /\ ~Adding(c) /\ ~Closed(c)
      /\ \A d \in Clients \ {c} : w \notin Serving(d)
  BY <1>1, <1>3, OnlyServer
<1>5. /\ \A d : Serving(d)' = Serving(d) \ {w} /\ Waiting(d)' = Waiting(d)
      /\ \A v \in Workers : AtOK(v)'
      /\ \A v \in Workers \ {w} : at'[v] = at[v]
  BY <1>1, ReturnDoes
<1>6. /\ \A d : event'[d].state = event[d].state /\ event'[d].fd = event[d].fd
      /\ \A d \in Clients \ {c} : (Armed(d)' => Armed(d)) /\ (InList(d)' => InList(d))
      /\ \A f \in Fds : ptr'[f] # NoConn => fdt[f] = ptr'[f]
  BY <1>1, <1>2, <1>3, EventAddDoes
<1>7. ~Receiving(c)' /\ \A d \in Clients \ {c} : Receiving(d)' <=> Receiving(d)
  BY <1>4, <1>5 DEF Receiving
<1>8. \A d \in Clients : (Closed(d)' <=> Closed(d)) /\ (Adding(d)' <=> Adding(d))
  <2>1. \A d : Serving(d) \subseteq Workers
    BY DEF Serving
  <2>. QED  BY <1>1, <1>4, <1>5, <2>1 DEF Closed, Adding
<1>9. ASSUME NEW d \in Clients PROVE OneToken(d)'
  <2>1. CASE d = c
    BY <1>1, <1>4, <1>5, <1>7, <1>8, <2>1 DEF OneToken
  <2>2. CASE d # c
    BY <1>1, <1>4, <1>5, <1>6, <1>7, <1>8, <2>2 DEF OneToken, ConnInv
  <2>. QED  BY <2>1, <2>2
<1>10. ASSUME NEW d \in Clients PROVE EventOK(d)'
  <2>1. CASE d = c
    BY <1>1, <1>3, <1>6, <2>1 DEF EventOK
  <2>2. CASE d # c
    BY <1>1, <1>6, <1>7, <1>8, <2>2 DEF EventOK, ConnInv
  <2>. QED  BY <2>1, <2>2
<1>11. ASSUME NEW f \in Fds PROVE FdOK(f)'
  <2>1. fdt[f] # NoConn => fdt[f] \in Clients
    BY DEF ConnInv, TypeOK
  <2>. QED  BY <1>1, <1>6, <1>8, <2>1 DEF FdOK, ConnInv
<1>. QED  BY <1>1, <1>5, <1>6, <1>9, <1>10, <1>11 DEF TokenInv, LoopOK, ConnInv

(* Entries taken out of epoll's list. *)
LEMMA UnregisterDoes ==
  ASSUME TypeOK, NEW f \in Fds, Unregister(f) \/ UNCHANGED epoll
  PROVE  /\ \A d \in Clients : (Armed(d)' => Armed(d)) /\ (InList(d)' => InList(d))
         /\ \A g \in Fds : ptr'[g] # NoConn => ptr'[g] = ptr[g]
         /\ Unregister(f) => ptr'[f] = NoConn
<1>1. ptr \in [Fds -> Clients \cup {NoConn}] /\ armed \subseteq Fds
  BY DEF TypeOK
<1>2. \A g \in Fds : ptr'[g] # NoConn => ptr'[g] = ptr[g]
  BY <1>1 DEF Unregister, epoll
<1>3. armed' \subseteq armed
  BY DEF Unregister, epoll
<1>4. \A d \in Clients : (Armed(d)' => Armed(d)) /\ (InList(d)' => InList(d))
  BY <1>1, <1>2, <1>3, ConnectionsAssumption DEF Armed, InList
<1>. QED  BY <1>1, <1>2, <1>4 DEF Unregister

LEMMA EventDelToken == \A w \in Workers : ConnInv /\ recv_task_eventdel(w) => TokenInv'
<1>. SUFFICES ASSUME NEW w \in Workers, ConnInv, recv_task_eventdel(w) PROVE TokenInv'
  OBVIOUS
<1>1. /\ UNCHANGED <<fdt, batch, loop, pool>> /\ at[w] = "eventdel"
      /\ Unregister(Sock(w)) \/ UNCHANGED epoll
      /\ event' = [event EXCEPT ![Ev(w)].status = 0] /\ at' = [at EXCEPT ![w] = "close"]
  BY DEF recv_task_eventdel
<1>2. /\ \A v \in Workers : AtOK(v)'
      /\ \A c : /\ Waiting(c)' = Waiting(c) /\ Serving(c)' = Serving(c)
                /\ Receiving(c)' <=> Receiving(c)
                /\ Closed(c)' <=> Closed(c)
  BY <1>1, StaysInReceive DEF WorkerSteps
<1>3. /\ \A d \in Clients : (Armed(d)' => Armed(d)) /\ (InList(d)' => InList(d)) /\ (Adding(d)' <=> Adding(d))
      /\ \A g \in Fds : ptr'[g] # NoConn => ptr'[g] = ptr[g]
  <2>1. Sock(w) \in Fds /\ TypeOK
    BY <1>1, ServesLive DEF ConnInv
  <2>. QED  BY <1>1, <2>1, UnregisterDoes DEF Adding
<1>4. \A d \in Clients : event'[d].state = event[d].state /\ event'[d].fd = event[d].fd
  <2>1. Ev(w) \in Clients /\ event[Ev(w)] \in [state : {"live", "freed"}, fd : Fds, status : {0, 1}]
    BY <1>1, ServesLive
  <2>. QED  BY <1>1, <2>1 DEF ConnInv, TypeOK
<1>5. ASSUME NEW d \in Clients PROVE OneToken(d)'
  BY <1>1, <1>2, <1>3 DEF OneToken, ConnInv
<1>6. ASSUME NEW d \in Clients PROVE EventOK(d)'
  BY <1>1, <1>2, <1>3, <1>4 DEF EventOK, ConnInv
<1>7. ASSUME NEW f \in Fds PROVE FdOK(f)'
  <2>1. fdt[f] # NoConn => fdt[f] \in Clients
    BY DEF ConnInv, TypeOK
  <2>. QED  BY <1>1, <1>2, <1>3, <1>4, <2>1 DEF FdOK, ConnInv
<1>8. LoopOK'
  BY <1>1, <1>4 DEF LoopOK, ConnInv, TypeOK
<1>. QED  BY <1>2, <1>5, <1>6, <1>7, <1>8 DEF TokenInv

LEMMA CloseToken == \A w \in Workers : ConnInv /\ recv_task_close(w) => TokenInv'
<1>. SUFFICES ASSUME NEW w \in Workers, ConnInv, recv_task_close(w) PROVE TokenInv'
  OBVIOUS
<1>1. /\ UNCHANGED <<event, batch, loop, pool>> /\ at[w] = "close"
      /\ Unregister(Sock(w)) /\ fdt' = [fdt EXCEPT ![Sock(w)] = NoConn] /\ at' = [at EXCEPT ![w] = "erase"]
  BY DEF recv_task_close
<1>2. PICK c \in Clients : c = Ev(w)
  BY <1>1, ServesLive
<1>3. PICK s \in Fds : s = Sock(w)
  BY <1>1, ServesLive
<1>4. w \in Serving(c) /\ fdt[s] = c /\ event[c].fd = s /\ TypeOK
  BY <1>1, <1>2, <1>3, ServesLive DEF Sock, ConnInv
<1>5. /\ Serving(c) = {w} /\ ~Closed(c)
      /\ \A d \in Clients \ {c} : w \notin Serving(d)
  BY <1>1, <1>4, OnlyServer
<1>6. at'[w] = "erase" /\ \A v \in Workers \ {w} : at'[v] = at[v]
  BY <1>1 DEF ConnInv, TypeOK
<1>7. \A d : Waiting(d)' = Waiting(d) /\ Serving(d)' = Serving(d) /\ (Receiving(d)' <=> Receiving(d))
  BY <1>1, SameTasks
<1>8. Closed(c)' /\ \A d \in Clients \ {c} : Closed(d)' <=> Closed(d)
  <2>1. \A d : Serving(d) \subseteq Workers
    BY DEF Serving
  <2>. QED  BY <1>5, <1>6, <1>7, <2>1 DEF Closed
<1>9. /\ \A d \in Clients : (Armed(d)' => Armed(d)) /\ (InList(d)' => InList(d)) /\ (Adding(d)' <=> Adding(d))
      /\ \A g \in Fds : ptr'[g] # NoConn => ptr'[g] = ptr[g]
      /\ ptr'[s] = NoConn
  BY <1>1, <1>3, <1>4, UnregisterDoes DEF Adding
<1>10. fdt'[s] = NoConn /\ \A g \in Fds \ {s} : fdt'[g] = fdt[g]
  BY <1>1, <1>3, <1>4 DEF TypeOK
<1>11. ASSUME NEW v \in Workers PROVE AtOK(v)'
  BY <1>1, <1>6 DEF AtOK, ConnInv, pool
<1>12. ASSUME NEW d \in Clients PROVE OneToken(d)'
  BY <1>1, <1>7, <1>9 DEF OneToken, ConnInv
<1>13. ASSUME NEW d \in Clients PROVE EventOK(d)'
  <2>1. CASE d = c
    BY <1>1, <1>7, <1>8, <1>9, <2>1 DEF EventOK, ConnInv
  <2>2. CASE d # c
    <3>1. event[d].state = "live" => event[d].fd \in Fds
      BY <1>4 DEF TypeOK, NoEvent
    <3>. QED  BY <1>1, <1>4, <1>7, <1>8, <1>9, <1>10, <2>2, <3>1 DEF EventOK, ConnInv
  <2>. QED  BY <2>1, <2>2
<1>14. ASSUME NEW f \in Fds PROVE FdOK(f)'
  <2>1. CASE f = s
    BY <1>9, <1>10, <2>1 DEF FdOK
  <2>2. CASE f # s
    <3>1. fdt[f] # NoConn => fdt[f] \in Clients \ {c}
      BY <1>4, <2>2 DEF TypeOK, FdOK, ConnInv
    <3>. QED  BY <1>1, <1>8, <1>9, <1>10, <2>2, <3>1 DEF FdOK, ConnInv
  <2>. QED  BY <2>1, <2>2
<1>. QED  BY <1>1, <1>11, <1>12, <1>13, <1>14 DEF TokenInv, LoopOK, ConnInv

LEMMA EraseToken == \A w \in Workers : ConnInv /\ recv_task_erase(w) => TokenInv'
<1>. SUFFICES ASSUME NEW w \in Workers, ConnInv, recv_task_erase(w) PROVE TokenInv'
  OBVIOUS
<1>1. /\ UNCHANGED <<fdt, event, epoll, batch, loop, pool>> /\ at[w] = "erase" /\ at' = [at EXCEPT ![w] = "delete"]
  BY DEF recv_task_erase
<1>2. at'[w] = "delete" /\ \A v \in Workers \ {w} : at'[v] = at[v]
  BY <1>1 DEF ConnInv, TypeOK
<1>3. \A d : Waiting(d)' = Waiting(d) /\ Serving(d)' = Serving(d) /\ (Receiving(d)' <=> Receiving(d))
  BY <1>1, SameTasks
<1>4. \A d : Closed(d)' <=> Closed(d)
  <2>1. \A d : Serving(d) \subseteq Workers
    BY DEF Serving
  <2>. QED  BY <1>1, <1>2, <1>3, <2>1 DEF Closed
<1>5. ASSUME NEW v \in Workers PROVE AtOK(v)'
  BY <1>1, <1>2 DEF AtOK, ConnInv, pool
<1>. QED  BY <1>1, <1>3, <1>4, <1>5, TokenStays

LEMMA DeleteToken == \A w \in Workers : ConnInv /\ recv_task_delete(w) => TokenInv'
<1>. SUFFICES ASSUME NEW w \in Workers, ConnInv, recv_task_delete(w) PROVE TokenInv'
  OBVIOUS
<1>1. /\ UNCHANGED <<fdt, epoll, batch, loop>> /\ at[w] = "delete"
      /\ event' = [event EXCEPT ![Ev(w)].state = "freed"] /\ Return(w)
  BY DEF recv_task_delete
<1>2. PICK c \in Clients : c = Ev(w)
  BY <1>1, ServesLive
<1>3. w \in Serving(c) /\ TypeOK /\ event[c] \in [state : {"live", "freed"}, fd : Fds, status : {0, 1}]
  BY <1>1, <1>2, ServesLive DEF ConnInv
<1>4. /\ Serving(c) = {w} /\ Waiting(c) = {} /\ c \notin batch /\ ~Adding(c) /\ ~Armed(c) /\ Closed(c)
      /\ \A d \in Clients \ {c} : w \notin Serving(d)
  BY <1>1, <1>3, OnlyServer
<1>5. /\ \A d : Serving(d)' = Serving(d) \ {w} /\ Waiting(d)' = Waiting(d)
      /\ \A v \in Workers : AtOK(v)'
      /\ \A v \in Workers \ {w} : at'[v] = at[v]
  BY <1>1, ReturnDoes
<1>6. ~Receiving(c)' /\ \A d \in Clients \ {c} : Receiving(d)' <=> Receiving(d)
  BY <1>4, <1>5 DEF Receiving
<1>7. \A d \in Clients \ {c} : Closed(d)' <=> Closed(d)
  <2>1. \A d : Serving(d) \subseteq Workers
    BY DEF Serving
  <2>. QED  BY <1>4, <1>5, <2>1 DEF Closed
<1>8. \A d : (Armed(d)' <=> Armed(d)) /\ (InList(d)' <=> InList(d)) /\ (Adding(d)' <=> Adding(d))
  BY <1>1 DEF Armed, InList, Adding, epoll
<1>9. ~InList(c)
  BY <1>4, ListedIsOpen
<1>10. event'[c].state = "freed" /\ \A d \in Clients \ {c} : event'[d] = event[d]
  BY <1>1, <1>2, <1>3 DEF TypeOK
<1>11. ASSUME NEW d \in Clients PROVE OneToken(d)'
  <2>1. CASE d = c
    BY <1>1, <1>4, <1>5, <1>6, <1>8, <2>1 DEF OneToken
  <2>2. CASE d # c
    BY <1>1, <1>4, <1>5, <1>6, <1>8, <2>2 DEF OneToken, ConnInv
  <2>. QED  BY <2>1, <2>2
<1>12. ASSUME NEW d \in Clients PROVE EventOK(d)'
  <2>1. CASE d = c
    BY <1>1, <1>4, <1>6, <1>8, <1>9, <1>10, <2>1 DEF EventOK
  <2>2. CASE d # c
    BY <1>1, <1>6, <1>7, <1>8, <1>10, <2>2 DEF EventOK, ConnInv
  <2>. QED  BY <2>1, <2>2
<1>13. ASSUME NEW f \in Fds PROVE FdOK(f)'
  <2>1. fdt[f] # NoConn => fdt[f] \in Clients \ {c}
    BY <1>3, <1>4 DEF TypeOK, FdOK, ConnInv
  <2>2. UNCHANGED <<fdt, ptr>>
    BY <1>1 DEF epoll
  <2>3. CASE fdt[f] = NoConn
    BY <2>2, <2>3 DEF FdOK, ConnInv
  <2>4. ASSUME NEW d \in Clients \ {c}, fdt[f] = d PROVE FdOK(f)'
    <3>1. event'[d] = event[d] /\ (Closed(d)' <=> Closed(d)) /\ FdOK(f)
      BY <1>7, <1>10 DEF ConnInv
    <3>. QED  BY <2>2, <2>4, <3>1 DEF FdOK
  <2>. QED  BY <2>1, <2>3, <2>4
<1>14. LoopOK'
  <2>1. loop.at \in {"add", "insert"} => loop.ev \in Clients
    BY <1>3 DEF TypeOK
  <2>. QED  BY <1>1, <1>10, <2>1 DEF LoopOK, ConnInv
<1>. QED  BY <1>5, <1>11, <1>12, <1>13, <1>14 DEF TokenInv

LEMMA DealToken == \A w \in Workers : ConnInv /\ Buffer_Deal(w) => TokenInv'
<1>. SUFFICES ASSUME NEW w \in Workers, ConnInv, Buffer_Deal(w) PROVE TokenInv'
  OBVIOUS
<1>1. /\ UNCHANGED <<fdt, event, epoll, batch, loop>> /\ at[w] = "deal" /\ Return(w)
  BY DEF Buffer_Deal
<1>2. \A d : w \notin Serving(d) /\ Serving(d) \subseteq Workers
  BY <1>1 DEF ConnInv, AtOK, Serving, Receives
<1>3. /\ \A d : Serving(d)' = Serving(d) \ {w} /\ Waiting(d)' = Waiting(d)
      /\ \A v \in Workers : AtOK(v)'
      /\ \A v \in Workers \ {w} : at'[v] = at[v]
  BY <1>1, ReturnDoes
<1>4. \A d : Serving(d)' = Serving(d)
  BY <1>2, <1>3
<1>5. \A d : (Receiving(d)' <=> Receiving(d)) /\ (Closed(d)' <=> Closed(d))
  BY <1>2, <1>3, <1>4 DEF Receiving, Closed
<1>. QED  BY <1>1, <1>3, <1>4, <1>5, TokenStays

-----------------------------------------------------------------------------
(* The inductive invariant. *)
LEMMA ConnInvStep == ConnInv /\ [Next]_vars => ConnInv'
<1>. SUFFICES ASSUME ConnInv, [Next]_vars PROVE TokenInv'
  BY TypeStep DEF ConnInv, TokenInv
<1>1. ASSUME NEW c \in Clients, Connect(c) \/ Send(c) \/ Leave(c) PROVE TokenInv'
  BY <1>1, TokenStaysPut DEF Connect, Send, Leave, worker
<1>2. CASE UNCHANGED vars
  BY <1>2, TokenStaysPut DEF vars, worker
<1>. QED  BY <1>1, <1>2, EpollWaitToken, AcceptToken, AcceptAddToken, AcceptInsertToken, RecvEventToken,
             TakeToken, ReadToken, SubmitToken, RearmToken, EventDelToken, CloseToken, EraseToken,
             DeleteToken, DealToken
          DEF Next, EventLoop, recv_task

LEMMA ConnInvariant == Spec => []ConnInv
BY ConnInvInit, ConnInvStep, PTL DEF Spec

-----------------------------------------------------------------------------
(* EPOLLONESHOT: at most one receive of a connection at any time.           *)
THEOREM OneReceiverHolds == Spec => []OneReceiver
<1>1. ConnInv => OneReceiver
  <2>. SUFFICES ASSUME ConnInv, NEW c \in Clients
                PROVE  ReceiversOf(c) + (IF c \in batch THEN 1 ELSE 0) <= 1
    BY DEF OneReceiver
  <2>1. OneToken(c)
    BY DEF ConnInv
  <2>2. ReceiversOf(c) = Cardinality(Waiting(c)) + Cardinality(Serving(c))
    BY DEF ReceiversOf, Waiting, Serving
  <2>3. Waiting(c) = {} \/ \E i : Waiting(c) = {i}
    BY <2>1 DEF OneToken
  <2>4. Serving(c) = {} \/ \E w : Serving(c) = {w}
    BY <2>1 DEF OneToken
  <2>5. Cardinality(Waiting(c)) = (IF Waiting(c) = {} THEN 0 ELSE 1)
    BY <2>3, FS_EmptySet, FS_Singleton
  <2>6. Cardinality(Serving(c)) = (IF Serving(c) = {} THEN 0 ELSE 1)
    BY <2>4, FS_EmptySet, FS_Singleton
  <2>. QED  BY <2>1, <2>2, <2>5, <2>6 DEF OneToken, Receiving
<1>. QED  BY <1>1, ConnInvariant, PTL

(* Every value the layer stores is of its kind, and nothing leads to an     *)
(* event after delete: it is out of epoll's list, of the batch, of the      *)
(* queue and of the workers' hands before its memory is given back.         *)
THEOREM EventsIntactHolds == Spec => []EventsIntact
<1>1. ConnInv => EventsIntact
  <2>. SUFFICES ASSUME ConnInv, NEW c \in Clients, event[c].state = "freed"
                PROVE  /\ \A f \in Fds : ptr[f] # c
                       /\ c \notin batch
                       /\ ReceiversOf(c) = 0
                       /\ loop.at = "add" => loop.ev # c
    BY DEF EventsIntact, NoDanglingEvent, ConnInv
  <2>1. c \notin batch /\ ~Receiving(c) /\ ~InList(c) /\ ~Adding(c)
    BY DEF ConnInv, EventOK
  <2>2. Cardinality(Waiting(c)) = 0 /\ Cardinality(Serving(c)) = 0
    BY <2>1, FS_EmptySet DEF Receiving
  <2>3. ReceiversOf(c) = 0
    BY <2>2 DEF ReceiversOf, Waiting, Serving
  <2>. QED  BY <2>1, <2>3 DEF InList, Adding
<1>. QED  BY <1>1, ConnInvariant, PTL

-----------------------------------------------------------------------------
(* The buffers, as the pool's steps leave them. *)
LEMMA BuffersStay == UNCHANGED pool => Buffers' = Buffers
BY DEF pool, Buffers, Queued, InHand

LEMMA BuffersSubmit ==
  ASSUME queue \in Seq(Task), NEW t \in Task, Pool!Submit(t)
  PROVE  Buffers' = Buffers \cup {u \in {t} : u.fn = "Buffer_Deal"}
<1>1. /\ held' = held /\ Len(queue') = Len(queue) + 1 /\ queue'[Len(queue) + 1] = t
      /\ \A i \in 1..Len(queue) : queue'[i] = queue[i]
  BY SubmitDoes
<1>2. 1..Len(queue') = (1..Len(queue)) \cup {Len(queue) + 1}
  BY <1>1
<1>3. Queued' = Queued \cup {t}
  BY <1>1, <1>2 DEF Queued
<1>4. InHand' = InHand
  BY <1>1 DEF InHand
<1>. QED  BY <1>3, <1>4 DEF Buffers

LEMMA BuffersTake ==
  ASSUME queue \in Seq(Task), held \in [Workers -> Task \cup {NoTask}], NEW w \in Workers, Pool!Take(w)
  PROVE  Buffers' = Buffers
<1>1. /\ held[w] = NoTask /\ held'[w] = Head(queue) /\ Head(queue) \in Task /\ Head(queue) = queue[1]
      /\ \A v \in Workers \ {w} : held'[v] = held[v]
      /\ Len(queue) \in Nat \ {0} /\ Len(queue') = Len(queue) - 1
      /\ \A i \in 1..Len(queue') : queue'[i] = queue[i + 1]
  BY TakeDoes
<1>2. InHand' = InHand \cup {Head(queue)}
  BY <1>1, TaskAssumption DEF InHand
<1>3. Queued = Queued' \cup {Head(queue)}
  <2>1. ASSUME NEW i \in 1..Len(queue'), NEW t, t = queue'[i] PROVE t \in Queued
    BY <1>1, <2>1 DEF Queued
  <2>2. ASSUME NEW i \in 1..Len(queue), NEW t, t = queue[i], i # 1 PROVE t \in Queued'
    <3>1. i - 1 \in 1..Len(queue') /\ (i - 1) + 1 = i
      BY <1>1, <2>2
    <3>2. queue'[i - 1] = t
      BY <1>1, <2>2, <3>1
    <3>. QED  BY <3>1, <3>2 DEF Queued
  <2>3. Head(queue) \in Queued
    BY <1>1 DEF Queued
  <2>4. Queued' \subseteq Queued
    BY <2>1 DEF Queued
  <2>5. Queued \subseteq Queued' \cup {Head(queue)}
    <3>1. ASSUME NEW t \in Queued PROVE t \in Queued' \cup {Head(queue)}
      <4>1. PICK i \in 1..Len(queue) : t = queue[i]
        BY DEF Queued
      <4>. QED  BY <1>1, <2>2, <4>1
    <3>. QED  BY <3>1
  <2>. QED  BY <2>3, <2>4, <2>5
<1>. QED  BY <1>2, <1>3 DEF Buffers

LEMMA BuffersFinish ==
  ASSUME held \in [Workers -> Task \cup {NoTask}], NEW w \in Workers, Pool!Finish(w)
  PROVE  Buffers' \subseteq Buffers /\ Buffers \ {held[w]} \subseteq Buffers'
<1>1. /\ queue' = queue /\ held'[w] = NoTask
      /\ \A v \in Workers \ {w} : held'[v] = held[v]
  BY FinishDoes
<1>2. InHand' \subseteq InHand /\ InHand \ {held[w]} \subseteq InHand'
  BY <1>1 DEF InHand
<1>3. Queued' = Queued
  BY <1>1 DEF Queued
<1>. QED  BY <1>2, <1>3 DEF Buffers

(* A buffer comes from the end of a receive, and goes when it is dealt with. *)
BuffersMove ==
  /\ \A b \in Buffers' : b \in Buffers \/ \E w \in Workers : recv_task_submit(w) /\ b = ReadBuffer(w)
  /\ \A b \in Buffers : b \in Buffers' \/ \E w \in Workers : Buffer_Deal(w) /\ held[w] = b

LEMMA BuffersStep == ConnInv /\ [Next]_vars => BuffersMove
<1>. SUFFICES ASSUME ConnInv, [Next]_vars PROVE BuffersMove
  OBVIOUS
<1>0. queue \in Seq(Task) /\ held \in [Workers -> Task \cup {NoTask}]
  BY DEF ConnInv, TypeOK
<1>1. ASSUME UNCHANGED pool PROVE BuffersMove
  BY <1>1, BuffersStay DEF BuffersMove
<1>2. ASSUME NEW c \in Clients, Connect(c) \/ Send(c) \/ Leave(c) \/ accept_event(c) PROVE BuffersMove
  <2>. QED  BY <1>1, <1>2 DEF Connect, Send, Leave, accept_event
<1>3. ASSUME epoll_wait \/ accept_event_add \/ accept_event_insert PROVE BuffersMove
  <2>. QED  BY <1>1, <1>3 DEF epoll_wait, accept_event_add, accept_event_insert
<1>4. ASSUME NEW c \in Clients, recv_event(c) PROVE BuffersMove
  <2>1. PICK t \in Task : t = [fn |-> "recv_task", ev |-> c]
    BY DEF Task
  <2>2. Pool!Submit(t) /\ t.fn # "Buffer_Deal"
    BY <1>4, <2>1 DEF recv_event
  <2>3. Buffers' = Buffers
    BY <1>0, <2>2, BuffersSubmit
  <2>. QED  BY <2>3 DEF BuffersMove
<1>5. ASSUME NEW w \in Workers, Take(w) PROVE BuffersMove
  BY <1>0, <1>5, BuffersTake DEF Take, BuffersMove
<1>6. ASSUME NEW w \in Workers,
             \/ recv_task_header(w) \/ recv_task_body(w) \/ recv_task_fails(w)
             \/ recv_task_eventdel(w) \/ recv_task_close(w) \/ recv_task_erase(w)
      PROVE  BuffersMove
  <2>. QED  BY <1>1, <1>6 DEF recv_task_header, recv_task_body, recv_task_fails, recv_task_eventdel,
                              recv_task_close, recv_task_erase
<1>7. ASSUME NEW w \in Workers, recv_task_submit(w) PROVE BuffersMove
  <2>1. ReadBuffer(w) \in Task
    BY <1>7, ServesLive, PacketNumber DEF recv_task_submit, ReadBuffer, Task, DataBuffer
  <2>2. Buffers \subseteq Buffers' /\ Buffers' \subseteq Buffers \cup {ReadBuffer(w)}
    BY <1>0, <1>7, <2>1, BuffersSubmit DEF recv_task_submit
  <2>. QED  BY <1>7, <2>2 DEF BuffersMove
<1>8. ASSUME NEW w \in Workers, recv_task_rearm(w) \/ recv_task_delete(w) PROVE BuffersMove
  <2>1. held[w].fn # "Buffer_Deal" /\ Pool!Finish(w)
    BY <1>8, ServesLive DEF recv_task_rearm, recv_task_delete, Return
  <2>2. held[w] \notin Buffers
    BY <2>1 DEF Buffers
  <2>. QED  BY <1>0, <2>1, <2>2, BuffersFinish DEF BuffersMove
<1>9. ASSUME NEW w \in Workers, Buffer_Deal(w) PROVE BuffersMove
  BY <1>0, <1>9, BuffersFinish DEF Buffer_Deal, Return, BuffersMove
<1>10. CASE UNCHANGED vars
  BY <1>1, <1>10 DEF vars
<1>. QED  BY <1>2, <1>3, <1>4, <1>5, <1>6, <1>7, <1>8, <1>9, <1>10 DEF Next, EventLoop, recv_task

-----------------------------------------------------------------------------
(* Where an answer goes.  An error path runs for a connection whose client  *)
(* has gone, so the number of a connection that is still open stays its.    *)
Gone(c) == peer[c] \in {"closed", "reset"}
Leaving == {"eventdel", "close", "erase", "delete"}

AnswerInv ==
  /\ \A c \in Clients : event[c].state # "none" => peer[c] # "away" /\ (fdt[event[c].fd] = c \/ Gone(c))
  /\ \A w \in Workers : at[w] \in Leaving => Gone(Ev(w))
  /\ \A b \in Buffers : b.from \in Clients /\ event[b.from].state # "none" /\ event[b.from].fd = b.sockfd

(* A client does not come back. *)
PeerMove == \A c \in Clients : /\ Gone(c) => Gone(c)'
                               /\ peer[c] # "away" => peer'[c] # "away"

LEMMA PeerStep == ConnInv /\ [Next]_vars => PeerMove
<1>. SUFFICES ASSUME ConnInv, [Next]_vars PROVE PeerMove
  OBVIOUS
<1>. USE DEF vars, stream
<1>0. peer \in [Clients -> {"away", "open", "closed", "reset"}]
  BY DEF ConnInv, TypeOK
<1>1. ASSUME UNCHANGED peer PROVE PeerMove
  BY <1>1 DEF PeerMove, Gone
<1>2. ASSUME NEW c \in Clients, Connect(c) \/ Leave(c) PROVE PeerMove
  BY <1>0, <1>2 DEF PeerMove, Gone, Connect, Leave
<1>3. ASSUME NEW c \in Clients, Send(c) \/ accept_event(c) \/ recv_event(c) PROVE PeerMove
  BY <1>1, <1>3 DEF Send, accept_event, recv_event
<1>4. ASSUME epoll_wait \/ accept_event_add \/ accept_event_insert PROVE PeerMove
  BY <1>1, <1>4 DEF epoll_wait, accept_event_add, accept_event_insert
<1>5. ASSUME NEW w \in Workers, Take(w) \/ recv_task(w) PROVE PeerMove
  <2>1. UNCHANGED peer
    BY <1>5 DEF Take, recv_task, recv_task_header, recv_task_body, recv_task_fails, recv_task_submit,
                recv_task_rearm, recv_task_eventdel, recv_task_close, recv_task_erase, recv_task_delete
  <2>. QED  BY <1>1, <2>1
<1>6. ASSUME NEW w \in Workers, Buffer_Deal(w) PROVE PeerMove
  <2>1. Answer(held[w].sockfd)
    BY <1>6 DEF Buffer_Deal
  <2>2. peer' = peer \/ \E c : peer' = [peer EXCEPT ![c] = "reset"] /\ peer[c] = "closed"
    BY <2>1 DEF Answer
  <2>. QED  BY <1>0, <2>2 DEF PeerMove, Gone
<1>7. CASE UNCHANGED vars
  BY <1>1, <1>7
<1>. QED  BY <1>2, <1>3, <1>4, <1>5, <1>6, <1>7 DEF Next, EventLoop

(* An event keeps its socket number; it gets it from accept, and only the   *)
(* close of its own receive takes the number away from the connection.      *)
EventMove ==
  /\ \A c \in Clients : event[c].state # "none" => event'[c].state # "none" /\ event'[c].fd = event[c].fd
  /\ \A c \in Clients : event[c].state = "none" /\ event'[c].state # "none"
                          => peer[c] # "away" /\ fdt'[event'[c].fd] = c
  /\ \A f \in Fds : fdt[f] # NoConn => fdt'[f] = fdt[f] \/ \E w \in Workers : at[w] = "close" /\ fdt[f] = Ev(w)

LEMMA EventStep == ConnInv /\ [Next]_vars => EventMove
<1>. SUFFICES ASSUME ConnInv, [Next]_vars PROVE EventMove
  OBVIOUS
<1>. USE DEF vars, stream
<1>0. TypeOK
  BY DEF ConnInv
<1>1. ASSUME UNCHANGED <<event, fdt>> PROVE EventMove
  BY <1>1 DEF EventMove
<1>2. ASSUME NEW c \in Clients, Connect(c) \/ Send(c) \/ Leave(c) \/ recv_event(c) PROVE EventMove
  BY <1>1, <1>2 DEF Connect, Send, Leave, recv_event
<1>3. ASSUME epoll_wait \/ accept_event_insert PROVE EventMove
  BY <1>1, <1>3 DEF epoll_wait, accept_event_insert
<1>4. ASSUME NEW w \in Workers, Take(w) \/ Buffer_Deal(w) \/ recv_task_header(w) \/ recv_task_body(w)
             \/ recv_task_fails(w) \/ recv_task_submit(w) \/ recv_task_erase(w)
      PROVE  EventMove
  <2>1. UNCHANGED <<event, fdt>>
    BY <1>4 DEF Take, Buffer_Deal, recv_task_header, recv_task_body, recv_task_fails, recv_task_submit,
                recv_task_erase
  <2>. QED  BY <1>1, <2>1
<1>5. ASSUME NEW c \in Clients, accept_event(c) PROVE EventMove
  <2>1. CASE UNCHANGED <<fdt, event, loop>>
    BY <1>1, <2>1
  <2>2. ASSUME NEW f \in Fds, fdt[f] = NoConn, fdt' = [fdt EXCEPT ![f] = c],
               event' = [event EXCEPT ![c] = eventset(f)]
        PROVE  EventMove
    <3>1. event[c].state = "none" /\ peer[c] # "away"
      BY <1>5 DEF accept_event, Backlog
    <3>2. /\ fdt'[f] = c /\ \A g \in Fds \ {f} : fdt'[g] = fdt[g]
          /\ event'[c].fd = f /\ \A d \in Clients \ {c} : event'[d] = event[d]
      BY <1>0, <2>2 DEF TypeOK, eventset
    <3>. QED  BY <2>2, <3>1, <3>2 DEF EventMove
  <2>. QED  BY <1>5, <2>1, <2>2 DEF accept_event
<1>6. ASSUME NEW c \in Clients, event[c].state # "none", UNCHANGED fdt,
             \/ eventadd(c)
             \/ event' = [event EXCEPT ![c].status = 0]
             \/ event' = [event EXCEPT ![c].state = "freed"]
      PROVE  EventMove
  <2>1. event[c] \in [state : {"live", "freed"}, fd : Fds, status : {0, 1}]
    BY <1>0, <1>6 DEF TypeOK, NoEvent
  <2>2. event'[c].state # "none" /\ event'[c].fd = event[c].fd /\ \A d \in Clients \ {c} : event'[d] = event[d]
    BY <1>0, <1>6, <2>1 DEF TypeOK, eventadd
  <2>. QED  BY <1>6, <2>2 DEF EventMove
<1>7. CASE accept_event_add
  <2>1. PICK c \in Clients : c = loop.ev
    BY <1>0, <1>7 DEF accept_event_add, TypeOK
  <2>2. event[c].state # "none" /\ eventadd(c) /\ UNCHANGED fdt
    BY <1>7, <2>1 DEF accept_event_add, ConnInv, LoopOK
  <2>. QED  BY <1>6, <2>2
<1>8. ASSUME NEW w \in Workers, recv_task_rearm(w) \/ recv_task_eventdel(w) \/ recv_task_delete(w) PROVE EventMove
  <2>1. PICK c \in Clients : c = Ev(w)
    BY <1>8, ServesLive DEF recv_task_rearm, recv_task_eventdel, recv_task_delete
  <2>2. event[c].state # "none"
    BY <1>8, <2>1, ServesLive DEF recv_task_rearm, recv_task_eventdel, recv_task_delete
  <2>3. /\ UNCHANGED fdt
        /\ \/ eventadd(c)
           \/ event' = [event EXCEPT ![c].status = 0]
           \/ event' = [event EXCEPT ![c].state = "freed"]
    BY <1>8, <2>1 DEF recv_task_rearm, recv_task_eventdel, recv_task_delete
  <2>. QED  BY <1>6, <2>2, <2>3
<1>9. ASSUME NEW w \in Workers, recv_task_close(w) PROVE EventMove
  <2>1. UNCHANGED event /\ at[w] = "close" /\ fdt' = [fdt EXCEPT ![Sock(w)] = NoConn]
    BY <1>9 DEF recv_task_close
  <2>2. Sock(w) \in Fds /\ fdt[Sock(w)] = Ev(w)
    BY <2>1, ServesLive
  <2>. QED  BY <1>0, <2>1, <2>2 DEF EventMove, TypeOK
<1>10. CASE UNCHANGED vars
  BY <1>1, <1>10
<1>. QED  BY <1>2, <1>3, <1>4, <1>5, <1>7, <1>8, <1>9, <1>10 DEF Next, EventLoop, recv_task

(* The error path begins in the worker that reads, when the header fails.   *)
LeavingMove == \A w \in Workers : at'[w] \in Leaving =>
                 /\ held'[w] = held[w]
                 /\ at[w] \in Leaving \/ (at[w] = "header" /\ ReadFails(w) /\ UNCHANGED peer)

LEMMA LeavingStep == ConnInv /\ [Next]_vars => LeavingMove
<1>. SUFFICES ASSUME ConnInv, [Next]_vars PROVE LeavingMove
  OBVIOUS
<1>. USE DEF vars, stream, pool, worker
<1>0. at \in [Workers -> WorkerSteps] /\ held \in [Workers -> Task \cup {NoTask}] /\ queue \in Seq(Task)
  BY DEF ConnInv, TypeOK, WorkerSteps
<1>1. ASSUME UNCHANGED <<at, held>> PROVE LeavingMove
  BY <1>1 DEF LeavingMove
<1>2. ASSUME NEW c \in Clients, Connect(c) \/ Send(c) \/ Leave(c) \/ accept_event(c) PROVE LeavingMove
  BY <1>1, <1>2 DEF Connect, Send, Leave, accept_event
<1>3. ASSUME epoll_wait \/ accept_event_add \/ accept_event_insert PROVE LeavingMove
  BY <1>1, <1>3 DEF epoll_wait, accept_event_add, accept_event_insert
<1>4. ASSUME NEW c \in Clients, recv_event(c) PROVE LeavingMove
  BY <1>1, <1>4 DEF recv_event, Pool!Submit
<1>5. ASSUME NEW w \in Workers, Take(w) PROVE LeavingMove
  <2>1. at'[w] \in {"header", "deal"} /\ \A v \in Workers \ {w} : at'[v] = at[v]
    BY <1>0, <1>5 DEF Take
  <2>2. \A v \in Workers \ {w} : held'[v] = held[v]
    BY <1>0, <1>5, TakeDoes DEF Take
  <2>. QED  BY <2>1, <2>2 DEF LeavingMove, Leaving
<1>6. ASSUME NEW w \in Workers,
             recv_task_header(w) \/ recv_task_body(w) \/ recv_task_submit(w)
      PROVE  LeavingMove
  <2>1. held' = held
    BY <1>6 DEF recv_task_header, recv_task_body, recv_task_submit, Pool!Submit
  <2>2. \E s \in {"submit", "body", "rearm"} : at' = [at EXCEPT ![w] = s]
    BY <1>6 DEF recv_task_header, recv_task_body, recv_task_submit
  <2>3. at'[w] \notin Leaving /\ \A v \in Workers \ {w} : at'[v] = at[v]
    BY <1>0, <2>2 DEF Leaving
  <2>. QED  BY <2>1, <2>3 DEF LeavingMove
<1>7. ASSUME NEW w \in Workers, recv_task_fails(w) PROVE LeavingMove
  <2>1. UNCHANGED <<held, peer>> /\ ReadFails(w) /\ at[w] \in {"header", "body"}
    BY <1>7 DEF recv_task_fails
  <2>2. at' = [at EXCEPT ![w] = AfterFailure(at[w])]
    BY <1>7 DEF recv_task_fails
  <2>3. at'[w] = AfterFailure(at[w]) /\ \A v \in Workers \ {w} : at'[v] = at[v]
    BY <1>0, <2>2
  <2>4. at'[w] \in Leaving => at[w] = "header"
    BY <2>3 DEF Leaving, AfterFailure
  <2>. QED  BY <2>1, <2>3, <2>4 DEF LeavingMove
<1>8. ASSUME NEW w \in Workers, recv_task_eventdel(w) \/ recv_task_close(w) \/ recv_task_erase(w)
      PROVE  LeavingMove
  <2>1. held' = held /\ at[w] \in Leaving /\ \A v \in Workers \ {w} : at'[v] = at[v]
    BY <1>0, <1>8 DEF recv_task_eventdel, recv_task_close, recv_task_erase, Leaving
  <2>. QED  BY <2>1 DEF LeavingMove
<1>9. ASSUME NEW w \in Workers, recv_task_rearm(w) \/ recv_task_delete(w) \/ Buffer_Deal(w)
      PROVE  LeavingMove
  <2>1. Return(w)
    BY <1>9 DEF recv_task_rearm, recv_task_delete, Buffer_Deal
  <2>2. at'[w] = "idle" /\ \A v \in Workers \ {w} : at'[v] = at[v] /\ held'[v] = held[v]
    BY <1>0, <2>1, FinishDoes DEF Return
  <2>. QED  BY <2>2 DEF LeavingMove, Leaving
<1>10. CASE UNCHANGED vars
  BY <1>1, <1>10
<1>. QED  BY <1>2, <1>3, <1>4, <1>5, <1>6, <1>7, <1>8, <1>9, <1>10 DEF Next, EventLoop, recv_task

LEMMA AnswerInvStep == ConnInv /\ AnswerInv /\ [Next]_vars => AnswerInv'
<1>. SUFFICES ASSUME ConnInv, AnswerInv, [Next]_vars PROVE AnswerInv'
  OBVIOUS
<1>0. PeerMove /\ EventMove /\ LeavingMove /\ BuffersMove
  BY PeerStep, EventStep, LeavingStep, BuffersStep
<1>1. ASSUME NEW c \in Clients, (event[c].state # "none")'
      PROVE  (peer[c] # "away" /\ (fdt[event[c].fd] = c \/ Gone(c)))'
  <2>1. CASE event[c].state = "none"
    BY <1>0, <1>1, <2>1 DEF EventMove, PeerMove
  <2>2. CASE event[c].state # "none"
    <3>1. peer'[c] # "away" /\ (Gone(c) => Gone(c)') /\ event'[c].fd = event[c].fd
      BY <1>0, <2>2 DEF AnswerInv, EventMove, PeerMove
    <3>2. CASE fdt[event[c].fd] = c
      <4>1. event[c].fd \in Fds /\ c # NoConn
        BY <2>2, ConnectionsAssumption DEF ConnInv, TypeOK, NoEvent
      <4>2. ASSUME NEW w \in Workers, at[w] = "close", c = Ev(w) PROVE Gone(c)
        BY <4>2 DEF AnswerInv, Leaving
      <4>3. fdt'[event[c].fd] = c \/ Gone(c)
        BY <1>0, <3>2, <4>1, <4>2 DEF EventMove
      <4>. QED  BY <3>1, <4>3
    <3>3. CASE Gone(c)
      BY <3>1, <3>3
    <3>. QED  BY <2>2, <3>2, <3>3 DEF AnswerInv
  <2>. QED  BY <2>1, <2>2
<1>2. ASSUME NEW w \in Workers, at'[w] \in Leaving PROVE Gone(Ev(w))'
  <2>1. held'[w] = held[w]
    BY <1>0, <1>2 DEF LeavingMove
  <2>2. PICK c \in Clients : c = Ev(w)
    <3>1. at[w] \notin {"idle", "deal"}
      BY <1>0, <1>2 DEF LeavingMove, Leaving
    <3>. QED  BY <3>1, ServesLive
  <2>3. CASE at[w] \in Leaving
    <3>1. Gone(c)'
      BY <1>0, <2>2, <2>3 DEF AnswerInv, PeerMove
    <3>. QED  BY <2>1, <2>2, <3>1 DEF Ev, Gone
  <2>4. CASE at[w] = "header" /\ ReadFails(w) /\ UNCHANGED peer
    <3>1. fdt[Sock(w)] = c /\ c # NoConn
      BY <2>2, <2>4, ServesLive, ConnectionsAssumption
    <3>2. Gone(c)
      BY <2>4, <3>1 DEF ReadFails, Ended, Gone
    <3>. QED  BY <2>1, <2>2, <2>4, <3>2 DEF Ev, Gone
  <2>. QED  BY <1>0, <1>2, <2>3, <2>4 DEF LeavingMove
<1>3. ASSUME NEW b \in Buffers'
      PROVE  (b.from \in Clients /\ event[b.from].state # "none" /\ event[b.from].fd = b.sockfd)'
  <2>1. b.from \in Clients /\ event[b.from].state # "none" /\ event[b.from].fd = b.sockfd
    <3>1. CASE b \in Buffers
      BY <3>1 DEF AnswerInv
    <3>2. ASSUME NEW w \in Workers, recv_task_submit(w), b = ReadBuffer(w)
          PROVE  b.from \in Clients /\ event[b.from].state # "none" /\ event[b.from].fd = b.sockfd
      <4>1. Ev(w) \in Clients /\ event[Ev(w)].state # "none"
        BY <3>2, ServesLive DEF recv_task_submit
      <4>2. b.from = Ev(w) /\ b.sockfd = event[Ev(w)].fd
        BY <3>2 DEF ReadBuffer, Sock
      <4>. QED  BY <4>1, <4>2
    <3>. QED  BY <1>0, <3>1, <3>2 DEF BuffersMove
  <2>. QED  BY <1>0, <2>1 DEF EventMove
<1>. QED  BY <1>1, <1>2, <1>3 DEF AnswerInv

(* The socket number in a buffer is its sender's as long as the sender has  *)
(* not closed: no error path of another connection takes it away.           *)
THEOREM AnswerReachesSenderHolds == Spec => []AnswerReachesSender
<1>1. Init => AnswerInv
  BY DEF Init, AnswerInv, Leaving, NoEvent, Buffers, Queued, InHand, Pool!Init
<1>2. Spec => []AnswerInv
  BY <1>1, ConnInvariant, AnswerInvStep, PTL DEF Spec
<1>3. AnswerInv => AnswerReachesSender
  BY DEF AnswerInv, AnswerReachesSender, Gone
<1>. QED  BY <1>2, <1>3, PTL

-----------------------------------------------------------------------------
(* Whole packets.  While read gets the size of a packet in one piece, each  *)
(* receive begins where a packet begins: the loop that reads the rest keeps *)
(* count, and no other receive of the connection runs meanwhile.            *)
Aligned(c) == \E k \in Nat : rcvd[c] = k * PacketUnits

(* m units of packet k + 1 are in the buffer. *)
MidPacket(w, k, m) ==
  /\ rcvd[Ev(w)] = k * PacketUnits + m
  /\ buf[w] = [units |-> [i \in 1..m |-> k * PacketUnits + i], need |-> PacketUnits - m]

StreamOK(c) == Aligned(c) \/ Ended(c) \/ \E w \in Serving(c) : at[w] = "body"
ReaderOK(w) ==
  /\ at[w] \in {"idle", "header", "deal"} => buf[w] = NoBuf
  /\ at[w] = "body" => \E k \in Nat, m \in 1..BodyUnits : MidPacket(w, k, m)
  /\ at[w] = "submit" => PacketIn(buf[w].units) # 0 \/ Ended(Ev(w))

FrameInv ==
  /\ \A c \in Clients : StreamOK(c)
  /\ \A w \in Workers : ReaderOK(w)
  /\ \A b \in Buffers : b.data # 0 \/ Ended(b.from)
  /\ NoPacketDropped

LEMMA Multiple == \A k \in Nat : (k * PacketUnits) % PacketUnits = 0
<1>1. ASSUME NEW P \in Nat \ {0}, NEW k \in Nat PROVE (k * P) % P = 0
  OBVIOUS
<1>2. PacketUnits \in Nat \ {0}
  BY Units
<1>. QED  BY <1>1, <1>2

LEMMA MultiplesOrdered ==
  ASSUME NEW j \in Nat, NEW k \in Nat
  PROVE  /\ j * PacketUnits \in Nat /\ k * PacketUnits \in Nat
         /\ (k + 1) * PacketUnits = k * PacketUnits + PacketUnits
         /\ j * PacketUnits <= k * PacketUnits => j <= k
         /\ j <= k => j * PacketUnits <= k * PacketUnits
<1>1. ASSUME NEW P \in Nat \ {0}
      PROVE  /\ j * P \in Nat /\ k * P \in Nat /\ (k + 1) * P = k * P + P
             /\ j * P <= k * P => j <= k
             /\ j <= k => j * P <= k * P
  OBVIOUS
<1>2. PacketUnits \in Nat \ {0}
  BY Units
<1>. QED  BY <1>1, <1>2

(* The units of one packet are that packet. *)
LEMMA WholePacket ==
  ASSUME NEW k \in Nat, k + 1 <= Packets,
         NEW units, units = [i \in 1..PacketUnits |-> k * PacketUnits + i]
  PROVE  PacketIn(units) = k + 1
<1>1. PICK p \in 1..Packets : p = k + 1
  BY ConnectionsAssumption
<1>2. units = [i \in 1..PacketUnits |-> (p - 1) * PacketUnits + i]
  BY <1>1
<1>3. units[PacketUnits] = p * PacketUnits
  BY <1>1, Units, MultiplesOrdered
<1>4. ASSUME NEW q \in 1..Packets, units[PacketUnits] = q * PacketUnits PROVE q = p
  <2>1. p \in Nat /\ q \in Nat
    BY ConnectionsAssumption
  <2>. QED  BY <1>3, <1>4, <2>1, MultiplesOrdered
<1>5. (CHOOSE q \in 1..Packets : units[PacketUnits] = q * PacketUnits) = p
  BY <1>3, <1>4
<1>. QED  BY <1>1, <1>2, <1>5 DEF PacketIn

(* What is read belongs to the connection the worker serves. *)
LEMMA ReadsItsOwn ==
  ASSUME ConnInv, NEW w \in Workers, at[w] \in {"header", "body"}, Readable(Sock(w))
  PROVE  Ev(w) \in Clients /\ fdt[Sock(w)] = Ev(w) /\ w \in Serving(Ev(w))
BY ServesLive

(* An ended connection has nothing more to read. *)
EndedMove == \A c \in Clients : Ended(c) => Ended(c)'

LEMMA EndedStep == ConnInv /\ [Next]_vars => EndedMove
<1>. SUFFICES ASSUME ConnInv, [Next]_vars PROVE EndedMove
  OBVIOUS
<1>. USE DEF vars, stream
<1>0. TypeOK
  BY DEF ConnInv
<1>1. ASSUME UNCHANGED <<sent, peer, rcvd>> PROVE EndedMove
  BY <1>1 DEF EndedMove, Ended
<1>2. ASSUME NEW c \in Clients, Connect(c) \/ Leave(c) \/ Send(c) PROVE EndedMove
  BY <1>0, <1>2 DEF EndedMove, Ended, Connect, Leave, Send, TypeOK
<1>3. ASSUME NEW c \in Clients, accept_event(c) \/ recv_event(c) PROVE EndedMove
  BY <1>1, <1>3 DEF accept_event, recv_event
<1>4. ASSUME epoll_wait \/ accept_event_add \/ accept_event_insert PROVE EndedMove
  BY <1>1, <1>4 DEF epoll_wait, accept_event_add, accept_event_insert
<1>5. ASSUME NEW w \in Workers,
             \/ Take(w) \/ recv_task_fails(w) \/ recv_task_submit(w) \/ recv_task_rearm(w)
             \/ recv_task_eventdel(w) \/ recv_task_close(w) \/ recv_task_erase(w) \/ recv_task_delete(w)
      PROVE  EndedMove
  <2>1. UNCHANGED <<sent, peer, rcvd>>
    BY <1>5 DEF Take, recv_task_fails, recv_task_submit, recv_task_rearm, recv_task_eventdel,
                recv_task_close, recv_task_erase, recv_task_delete
  <2>. QED  BY <1>1, <2>1
<1>6. ASSUME NEW c \in Clients, NEW n, Available(c) > 0, rcvd' = [rcvd EXCEPT ![c] = n],
             UNCHANGED <<sent, peer>>
      PROVE  EndedMove
  <2>1. ~Ended(c)
    BY <1>0, <1>6 DEF Ended, Available, TypeOK
  <2>. QED  BY <1>0, <1>6, <2>1 DEF EndedMove, Ended, TypeOK
<1>7. ASSUME NEW w \in Workers, recv_task_header(w) \/ recv_task_body(w) PROVE EndedMove
  <2>1. PICK c \in Clients : c = fdt[Sock(w)]
    BY <1>0, <1>7, ReadsItsOwn DEF recv_task_header, recv_task_body
  <2>2. \E wanted \in Nat : Taken(Available(c), wanted) > 0 /\ Consume(c, Taken(Available(c), wanted))
    <3>1. HeaderUnits \in Nat /\ buf[w].need \in Nat
      BY <1>0, ConnectionsAssumption DEF TypeOK
    <3>. QED  BY <1>7, <2>1, <3>1 DEF recv_task_header, recv_task_body
  <2>3. Available(c) > 0
    <3>1. Available(c) \in Nat
      BY <1>0 DEF Available, TypeOK
    <3>. QED  BY <2>2, <3>1 DEF Taken
  <2>4. UNCHANGED <<sent, peer>>
    BY <1>7 DEF recv_task_header, recv_task_body
  <2>. QED  BY <1>6, <2>2, <2>3, <2>4 DEF Consume
<1>8. ASSUME NEW w \in Workers, Buffer_Deal(w) PROVE EndedMove
  <2>1. Answer(held[w].sockfd) /\ UNCHANGED <<sent, rcvd>>
    BY <1>8 DEF Buffer_Deal
  <2>2. peer' = peer \/ \E c : peer' = [peer EXCEPT ![c] = "reset"]
    BY <2>1 DEF Answer
  <2>. QED  BY <1>0, <2>1, <2>2 DEF EndedMove, Ended, TypeOK
<1>9. CASE UNCHANGED vars
  BY <1>1, <1>9
<1>. QED  BY <1>2, <1>3, <1>4, <1>5, <1>7, <1>8, <1>9 DEF Next, EventLoop, recv_task

(* What a worker's step leaves to the others. *)
Moves(w) ==
  /\ \A v \in Workers \ {w} : at'[v] = at[v] /\ buf'[v] = buf[v] /\ held'[v] = held[v]
  /\ \A c \in Clients : rcvd'[c] = rcvd[c] \/ w \in Serving(c)
  /\ \A c \in Clients : dealt[c] \subseteq dealt'[c]
  /\ at[w] = "submit" => ReadBuffer(w) \in Buffers'

LEMMA WorkerMoves ==
  ASSUME ConnInv, NEW w \in Workers, Take(w) \/ recv_task(w) \/ Buffer_Deal(w)
  PROVE  Moves(w)
<1>. USE DEF stream, pool, worker
<1>0. /\ at \in [Workers -> WorkerSteps] /\ held \in [Workers -> Task \cup {NoTask}] /\ queue \in Seq(Task)
      /\ buf \in [Workers -> [units : Seq(Nat), need : 0..BodyUnits]]
      /\ rcvd \in [Clients -> Nat] /\ dealt \in [Clients -> SUBSET (1..Packets)]
  BY DEF ConnInv, TypeOK, WorkerSteps
<1>1. ASSUME Take(w) PROVE Moves(w)
  <2>1. at[w] # "submit" /\ UNCHANGED <<rcvd, dealt, buf>> /\ \A v \in Workers \ {w} : at'[v] = at[v]
    BY <1>0, <1>1 DEF Take, Pool!Take, ConnInv, AtOK
  <2>2. \A v \in Workers \ {w} : held'[v] = held[v]
    BY <1>0, <1>1, TakeDoes DEF Take
  <2>. QED  BY <2>1, <2>2 DEF Moves
<1>2. ASSUME recv_task_header(w) \/ recv_task_body(w) PROVE Moves(w)
  <2>1. PICK c \in Clients : c = fdt[Sock(w)] /\ w \in Serving(c)
    BY <1>2, ReadsItsOwn DEF recv_task_header, recv_task_body
  <2>2. UNCHANGED <<held, dealt>> /\ at[w] # "submit"
    BY <1>2 DEF recv_task_header, recv_task_body
  <2>3. \E n : Consume(c, n)
    BY <1>2, <2>1 DEF recv_task_header, recv_task_body
  <2>4. \A d \in Clients : rcvd'[d] = rcvd[d] \/ w \in Serving(d)
    BY <1>0, <2>1, <2>3 DEF Consume
  <2>5. \E s, r : at' = [at EXCEPT ![w] = s] /\ buf' = [buf EXCEPT ![w] = r]
    BY <1>2 DEF recv_task_header, recv_task_body
  <2>6. \A v \in Workers \ {w} : at'[v] = at[v] /\ buf'[v] = buf[v]
    BY <1>0, <2>5
  <2>. QED  BY <2>2, <2>4, <2>6 DEF Moves
<1>3. ASSUME recv_task_fails(w) \/ recv_task_eventdel(w) \/ recv_task_close(w) \/ recv_task_erase(w)
      PROVE  Moves(w)
  <2>1. UNCHANGED <<rcvd, held, dealt, buf>> /\ at[w] # "submit"
    BY <1>3 DEF recv_task_fails, recv_task_eventdel, recv_task_close, recv_task_erase
  <2>2. \E s : at' = [at EXCEPT ![w] = s]
    BY <1>3 DEF recv_task_fails, recv_task_eventdel, recv_task_close, recv_task_erase
  <2>. QED  BY <1>0, <2>1, <2>2 DEF Moves
<1>4. ASSUME recv_task_submit(w) PROVE Moves(w)
  <2>1. PICK b \in Task : b = ReadBuffer(w) /\ b.fn = "Buffer_Deal"
    BY <1>4, ServesLive, PacketNumber DEF recv_task_submit, ReadBuffer, Task, DataBuffer
  <2>2. b \in Buffers' /\ held' = held
    BY <1>0, <1>4, <2>1, BuffersSubmit, SubmitDoes DEF recv_task_submit
  <2>3. UNCHANGED <<rcvd, dealt, buf>> /\ \A v \in Workers \ {w} : at'[v] = at[v]
    BY <1>0, <1>4 DEF recv_task_submit
  <2>. QED  BY <2>1, <2>2, <2>3 DEF Moves
<1>5. ASSUME Return(w)
      PROVE  \A v \in Workers \ {w} : at'[v] = at[v] /\ buf'[v] = buf[v] /\ held'[v] = held[v]
  BY <1>0, <1>5, FinishDoes DEF Return
<1>6. ASSUME recv_task_rearm(w) \/ recv_task_delete(w) PROVE Moves(w)
  <2>1. UNCHANGED <<rcvd, dealt>> /\ at[w] # "submit" /\ Return(w)
    BY <1>6 DEF recv_task_rearm, recv_task_delete
  <2>. QED  BY <1>5, <2>1 DEF Moves
<1>7. ASSUME Buffer_Deal(w) PROVE Moves(w)
  <2>1. /\ UNCHANGED rcvd /\ at[w] # "submit" /\ Return(w)
        /\ dealt' = [dealt EXCEPT ![held[w].from] = @ \cup ({held[w].data} \ {0})]
    BY <1>7 DEF Buffer_Deal
  <2>. QED  BY <1>0, <1>5, <2>1 DEF Moves
<1>. QED  BY <1>1, <1>2, <1>3, <1>4, <1>6, <1>7 DEF recv_task

(* The workers that do not step keep what they have read. *)
LEMMA OthersFramed ==
  ASSUME ConnInv, FrameInv, EndedMove, NEW w \in Workers, Moves(w)
  PROVE  /\ \A v \in Workers \ {w} : ReaderOK(v)'
         /\ \A c \in Clients : w \notin Serving(c) => StreamOK(c)'
<1>1. ASSUME NEW v \in Workers \ {w} PROVE ReaderOK(v)'
  <2>1. at'[v] = at[v] /\ buf'[v] = buf[v] /\ held'[v] = held[v] /\ ReaderOK(v)
    BY DEF Moves, FrameInv
  <2>2. Ev(v)' = Ev(v)
    BY <2>1 DEF Ev
  <2>3. ASSUME at[v] \in {"body", "submit"} PROVE Ev(v) \in Clients /\ rcvd'[Ev(v)] = rcvd[Ev(v)]
    <3>1. Ev(v) \in Clients /\ v \in Serving(Ev(v))
      BY <2>3, ServesLive
    <3>2. w \notin Serving(Ev(v))
      BY <3>1, OnlyServer
    <3>. QED  BY <3>1, <3>2 DEF Moves
  <2>4. at[v] = "body" => \E k \in Nat, m \in 1..BodyUnits : MidPacket(v, k, m)'
    <3>1. ASSUME at[v] = "body", NEW k \in Nat, NEW m \in 1..BodyUnits, MidPacket(v, k, m)
          PROVE  MidPacket(v, k, m)'
      BY <2>1, <2>2, <2>3, <3>1 DEF MidPacket
    <3>. QED  BY <2>1, <3>1 DEF ReaderOK
  <2>5. at[v] = "submit" => PacketIn(buf'[v].units) # 0 \/ Ended(Ev(v))'
    <3>1. ASSUME at[v] = "submit", Ended(Ev(v)) PROVE Ended(Ev(v))'
      <4>1. PICK d \in Clients : d = Ev(v)
        BY <2>3, <3>1
      <4>2. Ended(d)'
        BY <3>1, <4>1 DEF EndedMove
      <4>. QED  BY <2>2, <4>1, <4>2 DEF Ended
    <3>. QED  BY <2>1, <3>1 DEF ReaderOK
  <2>. QED  BY <2>1, <2>4, <2>5 DEF ReaderOK
<1>2. ASSUME NEW c \in Clients, w \notin Serving(c) PROVE StreamOK(c)'
  <2>1. rcvd'[c] = rcvd[c] /\ StreamOK(c)
    BY <1>2 DEF Moves, FrameInv
  <2>2. ASSUME NEW v \in Serving(c), at[v] = "body" PROVE v \in Serving(c)' /\ at'[v] = "body"
    BY <1>2, <2>2 DEF Moves, Serving
  <2>3. Aligned(c) => Aligned(c)'
    BY <2>1 DEF Aligned
  <2>. QED  BY <2>1, <2>2, <2>3 DEF StreamOK, EndedMove
<1>. QED  BY <1>1, <1>2

(* A packet that was accounted for stays so. *)
LEMMA NothingLost ==
  ASSUME ConnInv, FrameInv, BuffersMove, NEW w \in Workers, Moves(w),
         NEW c \in Clients, NEW k \in 1..Packets, rcvd[c] >= k * PacketUnits
  PROVE  (k \in dealt[c] \/ OnItsWay(c, k))'
<1>1. CASE k \in dealt[c]
  BY <1>1 DEF Moves
<1>2. ASSUME NEW b \in Buffers, b.from = c, b.data = k PROVE k \in dealt'[c] \/ OnItsWay(c, k)'
  <2>1. CASE b \in Buffers'
    BY <1>2, <2>1 DEF OnItsWay
  <2>2. ASSUME NEW v \in Workers, Buffer_Deal(v), held[v] = b PROVE k \in dealt'[c]
    <3>1. dealt' = [dealt EXCEPT ![b.from] = @ \cup ({b.data} \ {0})]
      BY <2>2 DEF Buffer_Deal
    <3>2. k # 0 /\ dealt \in [Clients -> SUBSET (1..Packets)]
      BY ConnectionsAssumption DEF ConnInv, TypeOK
    <3>. QED  BY <1>2, <3>1, <3>2
  <2>. QED  BY <2>1, <2>2 DEF BuffersMove
<1>3. ASSUME NEW v \in Workers, at[v] = "submit", Ev(v) = c, PacketIn(buf[v].units) = k
      PROVE  OnItsWay(c, k)'
  <2>1. CASE v = w
    <3>1. ReadBuffer(w) \in Buffers' /\ ReadBuffer(w).from = c /\ ReadBuffer(w).data = k
      BY <1>3, <2>1 DEF Moves, ReadBuffer
    <3>2. PICK b \in Buffers' : b.from = c /\ b.data = k
      BY <3>1
    <3>. QED  BY <3>2 DEF OnItsWay
  <2>2. CASE v # w
    <3>1. at'[v] = "submit" /\ buf'[v] = buf[v] /\ held'[v] = held[v]
      BY <1>3, <2>2 DEF Moves
    <3>. QED  BY <1>3, <3>1 DEF OnItsWay, Ev
  <2>. QED  BY <2>1, <2>2
<1>. QED  BY <1>1, <1>2, <1>3 DEF FrameInv, NoPacketDropped, OnItsWay

(* A step of a worker that reads nothing. *)
LEMMA NoReadFramed ==
  ASSUME ConnInv, FrameInv, EndedMove, BuffersMove, TypeOK', NEW w \in Workers, Moves(w), UNCHANGED rcvd,
         at[w] # "body" \/ Ended(Ev(w)), ReaderOK(w)'
  PROVE  FrameInv'
<1>1. ASSUME NEW c \in Clients PROVE StreamOK(c)'
  <2>1. CASE w \notin Serving(c)
    BY <2>1, OthersFramed
  <2>2. CASE w \in Serving(c)
    <3>1. Serving(c) = {w} /\ Ev(w) = c
      BY <2>2, OnlyServer DEF Serving, Receives, Ev
    <3>2. Aligned(c) \/ Ended(c)
      BY <3>1 DEF FrameInv, StreamOK
    <3>. QED  BY <3>2 DEF StreamOK, Aligned, EndedMove
  <2>. QED  BY <2>1, <2>2
<1>2. ASSUME NEW v \in Workers PROVE ReaderOK(v)'
  BY OthersFramed
<1>3. ASSUME NEW b \in Buffers' PROVE b.data # 0 \/ Ended(b.from)'
  <2>1. b \in Buffers => b.data # 0 \/ Ended(b.from)
    BY DEF FrameInv
  <2>2. b \notin Buffers => b.data # 0 \/ Ended(b.from)
    <3>1. ASSUME NEW v \in Workers, recv_task_submit(v), b = ReadBuffer(v) PROVE b.data # 0 \/ Ended(b.from)
      <4>1. at[v] = "submit" /\ b.data = PacketIn(buf[v].units) /\ b.from = Ev(v)
        BY <3>1 DEF recv_task_submit, ReadBuffer
      <4>. QED  BY <4>1 DEF FrameInv, ReaderOK
    <3>. QED  BY <3>1 DEF BuffersMove
  <2>3. b.from \in Clients
    <3>1. b \in Task /\ b.fn = "Buffer_Deal"
      <4>1. queue' \in Seq(Task) /\ held' \in [Workers -> Task \cup {NoTask}]
        BY DEF TypeOK
      <4>. QED  BY <4>1 DEF Buffers, Queued, InHand
    <3>. QED  BY <3>1 DEF Task, DataBuffer
  <2>. QED  BY <2>1, <2>2, <2>3 DEF EndedMove
<1>4. NoPacketDropped'
  <2>1. ASSUME NEW c \in Clients, NEW k \in 1..Packets, rcvd'[c] >= k * PacketUnits
        PROVE  (k \in dealt[c] \/ OnItsWay(c, k))'
    BY <2>1, NothingLost
  <2>. QED  BY <2>1 DEF NoPacketDropped
<1>. QED  BY <1>1, <1>2, <1>3, <1>4 DEF FrameInv

(* A step that moves neither workers nor what was read. *)
LEMMA QuietFramed ==
  ASSUME FrameInv, EndedMove, UNCHANGED <<rcvd, held, worker, dealt>>, Buffers' = Buffers,
         \A b \in Buffers : b.from \in Clients,
         \A w \in Workers : at[w] = "submit" => Ev(w) \in Clients
  PROVE  FrameInv'
<1>. USE DEF worker
<1>1. \A w \in Workers : Ev(w)' = Ev(w)
  BY DEF Ev
<1>2. ASSUME NEW c \in Clients PROVE StreamOK(c)'
  <2>1. Serving(c)' = Serving(c) /\ (Aligned(c)' <=> Aligned(c)) /\ StreamOK(c)
    BY DEF Serving, Aligned, FrameInv
  <2>. QED  BY <2>1 DEF StreamOK, EndedMove
<1>3. ASSUME NEW w \in Workers PROVE ReaderOK(w)'
  <2>1. ReaderOK(w)
    BY DEF FrameInv
  <2>2. ASSUME NEW k \in Nat, NEW m \in 1..BodyUnits, MidPacket(w, k, m) PROVE MidPacket(w, k, m)'
    BY <1>1, <2>2 DEF MidPacket
  <2>3. at[w] = "submit" /\ Ended(Ev(w)) => Ended(Ev(w))'
    <3>1. ASSUME at[w] = "submit", Ended(Ev(w)) PROVE Ended(Ev(w))'
      <4>1. PICK d \in Clients : d = Ev(w)
        BY <3>1
      <4>2. Ended(d)'
        BY <3>1, <4>1 DEF EndedMove
      <4>. QED  BY <1>1, <4>1, <4>2 DEF Ended
    <3>. QED  BY <3>1
  <2>. QED  BY <2>1, <2>2, <2>3 DEF ReaderOK
<1>4. \A b \in Buffers' : b.data # 0 \/ Ended(b.from)'
  BY DEF FrameInv, EndedMove
<1>5. NoPacketDropped'
  <2>1. \A c, k : OnItsWay(c, k) => OnItsWay(c, k)'
    BY <1>1 DEF OnItsWay
  <2>. QED  BY <2>1 DEF NoPacketDropped, FrameInv
<1>. QED  BY <1>2, <1>3, <1>4, <1>5 DEF FrameInv

LEMMA BuffersTyped == TypeOK => \A b \in Buffers : b \in DataBuffer
<1>. SUFFICES ASSUME TypeOK, NEW b \in Buffers PROVE b \in DataBuffer
  OBVIOUS
<1>1. b \in Task /\ b.fn = "Buffer_Deal"
  BY DEF Buffers, Queued, InHand, TypeOK
<1>. QED  BY <1>1 DEF Task

(* A worker reads on until it holds p units of packet k + 1. *)
LEMMA ReadFramed ==
  ASSUME ConnInv, FrameInv, EndedMove, BuffersMove, TypeOK', NEW w \in Workers, Moves(w),
         UNCHANGED pool, at[w] # "submit",
         NEW c \in Clients, c = Ev(w), w \in Serving(c), HeaderUnits = 1,
         NEW k \in Nat, NEW p \in Nat \ {0}, p <= PacketUnits,
         rcvd[c] >= k * PacketUnits, rcvd'[c] = k * PacketUnits + p,
         buf' = [buf EXCEPT ![w] = [units |-> [i \in 1..p |-> k * PacketUnits + i],
                                    need |-> PacketUnits - p]],
         at' = [at EXCEPT ![w] = IF p = PacketUnits THEN "submit" ELSE "body"]
  PROVE  FrameInv'
<1>. USE DEF pool
<1>0. /\ at \in [Workers -> WorkerSteps] /\ buf \in [Workers -> [units : Seq(Nat), need : 0..BodyUnits]]
      /\ rcvd[c] \in Nat
  BY DEF ConnInv, TypeOK, WorkerSteps
<1>1. PacketUnits = BodyUnits + 1 /\ PacketUnits \in Nat /\ BodyUnits \in Nat \ {0}
  BY ConnectionsAssumption DEF PacketUnits
<1>2. /\ buf'[w] = [units |-> [i \in 1..p |-> k * PacketUnits + i], need |-> PacketUnits - p]
      /\ at'[w] = (IF p = PacketUnits THEN "submit" ELSE "body")
  BY <1>0
<1>3. k * PacketUnits \in Nat /\ (k + 1) * PacketUnits = k * PacketUnits + PacketUnits
  BY MultiplesOrdered
<1>4. Ev(w)' = c /\ Serving(c)' = Serving(c) /\ Buffers' = Buffers
  BY SameTasks, BuffersStay DEF Ev
<1>5. ASSUME p # PacketUnits PROVE \E m \in 1..BodyUnits : MidPacket(w, k, m)'
  <2>1. p \in 1..BodyUnits
    BY <1>1, <1>5
  <2>2. MidPacket(w, k, p)'
    BY <1>2, <1>4 DEF MidPacket
  <2>. QED  BY <2>1, <2>2
<1>6. ASSUME p = PacketUnits PROVE rcvd'[c] = (k + 1) * PacketUnits /\ PacketIn(buf'[w].units) = k + 1
  <2>1. rcvd'[c] = (k + 1) * PacketUnits
    BY <1>3, <1>6
  <2>2. (k + 1) * PacketUnits <= Packets * PacketUnits
    <3>1. rcvd'[c] \in Nat /\ rcvd'[c] <= sent'[c] /\ sent'[c] \in 0..(Packets * PacketUnits)
      BY DEF TypeOK
    <3>. QED  BY <2>1, <3>1, Units
  <2>3. k + 1 <= Packets
    BY <2>2, MultiplesOrdered, ConnectionsAssumption
  <2>4. buf'[w].units = [i \in 1..PacketUnits |-> k * PacketUnits + i]
    BY <1>2, <1>6
  <2>. QED  BY <2>1, <2>3, <2>4, WholePacket
<1>7. ReaderOK(w)'
  BY <1>1, <1>2, <1>5, <1>6 DEF ReaderOK
<1>8. ASSUME NEW d \in Clients PROVE StreamOK(d)'
  <2>1. CASE d = c
    <3>1. CASE p = PacketUnits
      <4>1. Aligned(c)'
        BY <1>6, <3>1 DEF Aligned
      <4>. QED  BY <2>1, <4>1 DEF StreamOK
    <3>2. CASE p # PacketUnits
      BY <1>2, <1>4, <2>1, <3>2 DEF StreamOK
    <3>. QED  BY <3>1, <3>2
  <2>2. CASE d # c
    BY <2>2, OnlyServer, OthersFramed
  <2>. QED  BY <2>1, <2>2
<1>9. \A v \in Workers : ReaderOK(v)'
  BY <1>7, OthersFramed
<1>10. \A b \in Buffers' : b.data # 0 \/ Ended(b.from)'
  <2>1. \A b \in Buffers : b.from \in Clients
    BY BuffersTyped DEF ConnInv, DataBuffer
  <2>. QED  BY <1>4, <2>1 DEF FrameInv, EndedMove
<1>11. NoPacketDropped'
  <2>. SUFFICES ASSUME NEW d \in Clients, NEW j \in 1..Packets, rcvd'[d] >= j * PacketUnits
                PROVE  (j \in dealt[d] \/ OnItsWay(d, j))'
    BY DEF NoPacketDropped
  <2>1. CASE rcvd[d] >= j * PacketUnits
    BY <2>1, NothingLost
  <2>2. CASE ~(rcvd[d] >= j * PacketUnits)
    <3>1. d = c
      <4>1. rcvd'[d] # rcvd[d]
        BY <2>2
      <4>. QED  BY <4>1, OnlyServer DEF Moves
    <3>2. j \in Nat /\ k + 1 \in Nat /\ j * PacketUnits \in Nat
      BY MultiplesOrdered
    <3>3. j * PacketUnits <= (k + 1) * PacketUnits
      BY <1>1, <1>3, <3>1, <3>2
    <3>4. j <= k + 1
      BY <3>2, <3>3, MultiplesOrdered
    <3>5. ~(j <= k)
      <4>1. j <= k => j * PacketUnits <= k * PacketUnits
        BY <3>2, MultiplesOrdered
      <4>. QED  BY <1>0, <1>3, <2>2, <3>1, <3>2, <4>1
    <3>6. j = k + 1
      BY <3>2, <3>4, <3>5
    <3>7. p = PacketUnits
      BY <1>1, <1>3, <3>1, <3>6
    <3>8. at'[w] = "submit" /\ Ev(w)' = d /\ PacketIn(buf'[w].units) = j
      BY <1>2, <1>4, <1>6, <3>1, <3>6, <3>7
    <3>. QED  BY <3>8 DEF OnItsWay
  <2>. QED  BY <2>1, <2>2
<1>. QED  BY <1>8, <1>9, <1>10, <1>11 DEF FrameInv

LEMMA HeaderFramed ==
  ASSUME ConnInv, FrameInv, EndedMove, BuffersMove, TypeOK', NEW w \in Workers, Moves(w),
         HeaderUnits = 1, recv_task_header(w)
  PROVE  FrameInv'
<1>1. PICK c \in Clients : c = fdt[Sock(w)] /\ c = Ev(w) /\ w \in Serving(c) /\ at[w] = "header"
  BY ReadsItsOwn DEF recv_task_header
<1>2. PICK n : n = Taken(Available(c), HeaderUnits)
  OBVIOUS
<1>3. /\ n > 0 /\ Consume(c, n) /\ UNCHANGED pool
      /\ \E size \in PackSizes(c, n) :
           /\ buf' = [buf EXCEPT ![w] = [units |-> Got(w, c, n), need |-> size]]
           /\ at' = [at EXCEPT ![w] = IF size = 0 THEN "submit" ELSE "body"]
  BY <1>1, <1>2 DEF recv_task_header
<1>4. n = 1 /\ ~Ended(c) /\ rcvd'[c] = rcvd[c] + 1
  <2>1. TypeOK /\ 1 \in Nat
    BY DEF ConnInv
  <2>2. n \in Nat \ {0} /\ n <= 1 /\ rcvd[c] + n <= sent[c] /\ rcvd[c] \in Nat /\ sent[c] \in Nat /\ peer[c] # "reset"
    BY <1>2, <1>3, <2>1, TakenIs
  <2>. QED  BY <1>3, <2>1, <2>2 DEF Consume, TypeOK, Ended
<1>5. PICK k \in Nat : rcvd[c] = k * PacketUnits
  <2>1. Serving(c) = {w}
    BY <1>1, OnlyServer
  <2>. QED  BY <1>1, <1>4, <2>1 DEF FrameInv, StreamOK, Aligned
<1>6. rcvd[c] % PacketUnits = 0
  BY <1>5, Multiple
<1>7. PackSizes(c, n) = {BodyUnits}
  BY <1>4, <1>6 DEF PackSizes
<1>8. PacketUnits = BodyUnits + 1 /\ PacketUnits \in Nat /\ BodyUnits \in Nat \ {0}
  BY ConnectionsAssumption DEF PacketUnits
<1>9. Got(w, c, n) = [i \in 1..1 |-> k * PacketUnits + i]
  <2>1. buf[w].units = <<>>
    BY <1>1 DEF FrameInv, ReaderOK, NoBuf
  <2>2. PICK new : new = [i \in 1..1 |-> k * PacketUnits + i]
    OBVIOUS
  <2>3. new \in Seq(Nat)
    BY <2>2, MultiplesOrdered
  <2>4. <<>> \o new = new
    BY <2>3, ConcatEmptySeq
  <2>. QED  BY <1>4, <1>5, <2>1, <2>2, <2>4 DEF Got
<1>10. PICK one \in Nat \ {0} : one = 1
  OBVIOUS
<1>11. /\ buf' = [buf EXCEPT ![w] = [units |-> [i \in 1..one |-> k * PacketUnits + i],
                                     need |-> PacketUnits - one]]
       /\ at' = [at EXCEPT ![w] = IF one = PacketUnits THEN "submit" ELSE "body"]
  <2>1. /\ buf' = [buf EXCEPT ![w] = [units |-> Got(w, c, n), need |-> BodyUnits]]
        /\ at' = [at EXCEPT ![w] = "body"]
    BY <1>3, <1>7, <1>8
  <2>2. PacketUnits - one = BodyUnits /\ one # PacketUnits
    BY <1>8, <1>10
  <2>3. Got(w, c, n) = [i \in 1..one |-> k * PacketUnits + i]
    BY <1>9, <1>10
  <2>. QED  BY <2>1, <2>2, <2>3
<1>12. rcvd[c] >= k * PacketUnits /\ rcvd'[c] = k * PacketUnits + one /\ one <= PacketUnits
  BY <1>4, <1>5, <1>8, <1>10, MultiplesOrdered
<1>. QED  BY <1>1, <1>3, <1>11, <1>12, ReadFramed

LEMMA BodyFramed ==
  ASSUME ConnInv, FrameInv, EndedMove, BuffersMove, TypeOK', NEW w \in Workers, Moves(w),
         HeaderUnits = 1, recv_task_body(w)
  PROVE  FrameInv'
<1>1. PICK c \in Clients : c = fdt[Sock(w)] /\ c = Ev(w) /\ w \in Serving(c) /\ at[w] = "body"
  BY ReadsItsOwn DEF recv_task_body
<1>2. PICK k \in Nat, m \in 1..BodyUnits : MidPacket(w, k, m)
  BY <1>1 DEF FrameInv, ReaderOK
<1>3. PICK n : n = Taken(Available(c), buf[w].need)
  OBVIOUS
<1>4. /\ n > 0 /\ Consume(c, n) /\ UNCHANGED pool
      /\ buf' = [buf EXCEPT ![w] = [units |-> Got(w, c, n), need |-> @.need - n]]
      /\ at' = [at EXCEPT ![w] = IF buf[w].need = n THEN "submit" ELSE "body"]
  BY <1>1, <1>3 DEF recv_task_body, BodyDone
<1>5. PacketUnits = BodyUnits + 1 /\ PacketUnits \in Nat /\ BodyUnits \in Nat \ {0} /\ m \in Nat
  BY ConnectionsAssumption DEF PacketUnits
<1>6. /\ rcvd[c] = k * PacketUnits + m /\ buf[w].need = PacketUnits - m
      /\ buf[w].units = [i \in 1..m |-> k * PacketUnits + i]
  BY <1>1, <1>2 DEF MidPacket
<1>7. TypeOK /\ k * PacketUnits \in Nat
  BY MultiplesOrdered DEF ConnInv
<1>8. n \in Nat \ {0} /\ n <= PacketUnits - m
  <2>1. PICK wanted \in Nat : wanted = buf[w].need
    BY <1>5, <1>6
  <2>. QED  BY <1>3, <1>4, <1>6, <1>7, <2>1, TakenIs
<1>9. Got(w, c, n) = [i \in 1..(m + n) |-> k * PacketUnits + i]
  <2>1. PICK got : got = Got(w, c, n)
    OBVIOUS
  <2>2. Len(buf[w].units) = m
    BY <1>5, <1>6
  <2>3. /\ got \in Seq(Nat) /\ Len(got) = m + n
        /\ \A i \in 1..m : got[i] = buf[w].units[i]
        /\ \A i \in 1..n : got[m + i] = rcvd[c] + i
    <3>. PICK have : have = buf[w].units
      OBVIOUS
    <3>1. TypeOK /\ n \in Nat
      BY <1>7, <1>8
    <3>2. /\ Got(w, c, n) \in Seq(Nat) /\ Len(Got(w, c, n)) = Len(have) + n
          /\ \A i \in 1..Len(have) : Got(w, c, n)[i] = have[i]
          /\ \A i \in 1..n : Got(w, c, n)[Len(have) + i] = rcvd[c] + i
      BY <3>1, GotIs
    <3>3. Len(have) = m
      BY <2>2
    <3>. QED  BY <2>1, <3>2, <3>3, Zenon
  <2>4. ASSUME NEW i \in 1..(m + n) PROVE got[i] = k * PacketUnits + i
    <3>1. CASE i <= m
      BY <1>5, <1>6, <2>3, <3>1
    <3>2. CASE ~(i <= m)
      <4>1. PICK j \in 1..n : i = m + j
        <5>1. i - m \in 1..n /\ i = m + (i - m)
          BY <1>5, <1>8, <3>2
        <5>. QED  BY <5>1
      <4>2. got[i] = rcvd[c] + j
        BY <2>3, <4>1
      <4>. QED  BY <1>5, <1>6, <1>7, <4>1, <4>2
    <3>. QED  BY <3>1, <3>2
  <2>5. got = [i \in 1..Len(got) |-> got[i]]
    BY <2>3
  <2>. QED  BY <2>1, <2>3, <2>4, <2>5
<1>10. rcvd'[c] = rcvd[c] + n
  BY <1>4, <1>7 DEF Consume, TypeOK
<1>11. PICK p \in Nat \ {0} : p = m + n
  BY <1>5, <1>8
<1>12. buf' = [buf EXCEPT ![w] = [units |-> [i \in 1..p |-> k * PacketUnits + i],
                                  need |-> PacketUnits - p]]
  <2>1. buf' = [buf EXCEPT ![w] = [units |-> Got(w, c, n), need |-> buf[w].need - n]]
    BY <1>4, <1>7 DEF TypeOK
  <2>2. buf[w].need - n = PacketUnits - p
    BY <1>5, <1>6, <1>8, <1>11
  <2>. QED  BY <1>9, <1>11, <2>1, <2>2
<1>13. at' = [at EXCEPT ![w] = IF p = PacketUnits THEN "submit" ELSE "body"]
  <2>1. buf[w].need = n <=> p = PacketUnits
    BY <1>5, <1>6, <1>8, <1>11
  <2>. QED  BY <1>4, <2>1
<1>14. /\ p <= PacketUnits /\ at[w] # "submit"
       /\ rcvd[c] >= k * PacketUnits /\ rcvd'[c] = k * PacketUnits + p
  BY <1>1, <1>5, <1>6, <1>7, <1>8, <1>10, <1>11
<1>. QED  BY <1>1, <1>4, <1>12, <1>13, <1>14, ReadFramed

LEMMA FrameInvStep == HeaderUnits = 1 /\ ConnInv /\ FrameInv /\ [Next]_vars => FrameInv'
<1>. SUFFICES ASSUME HeaderUnits = 1, ConnInv, FrameInv, [Next]_vars PROVE FrameInv'
  OBVIOUS
<1>0. EndedMove /\ BuffersMove /\ TypeOK' /\ TypeOK
  BY EndedStep, BuffersStep, TypeStep DEF ConnInv
<1>1. ASSUME UNCHANGED <<rcvd, held, worker, dealt>>, Buffers' = Buffers PROVE FrameInv'
  <2>1. \A b \in Buffers : b.from \in Clients
    BY <1>0, BuffersTyped DEF DataBuffer
  <2>2. \A w \in Workers : at[w] = "submit" => Ev(w) \in Clients
    BY ServesLive
  <2>. QED  BY <1>0, <1>1, <2>1, <2>2, QuietFramed
<1>2. ASSUME NEW c \in Clients, Connect(c) \/ Send(c) \/ Leave(c) \/ accept_event(c) PROVE FrameInv'
  <2>1. UNCHANGED <<rcvd, held, worker, dealt, pool>>
    BY <1>2 DEF Connect, Send, Leave, accept_event, stream, pool
  <2>. QED  BY <1>1, <2>1, BuffersStay
<1>3. ASSUME epoll_wait \/ accept_event_add \/ accept_event_insert PROVE FrameInv'
  <2>1. UNCHANGED <<rcvd, held, worker, dealt, pool>>
    BY <1>3 DEF epoll_wait, accept_event_add, accept_event_insert, stream, pool
  <2>. QED  BY <1>1, <2>1, BuffersStay
<1>4. ASSUME NEW c \in Clients, recv_event(c) PROVE FrameInv'
  <2>1. PICK t \in Task : t = [fn |-> "recv_task", ev |-> c]
    BY DEF Task
  <2>2. Pool!Submit(t) /\ t.fn # "Buffer_Deal"
    BY <1>4, <2>1 DEF recv_event
  <2>3. Buffers' = Buffers
    <3>1. queue \in Seq(Task)
      BY <1>0 DEF TypeOK
    <3>. QED  BY <2>2, <3>1, BuffersSubmit
  <2>4. UNCHANGED <<rcvd, held, worker, dealt>>
    BY <1>4 DEF recv_event, stream, Pool!Submit
  <2>. QED  BY <1>1, <2>3, <2>4
<1>5. ASSUME NEW w \in Workers, Moves(w), UNCHANGED rcvd, at[w] # "body" \/ Ended(Ev(w)), ReaderOK(w)'
      PROVE  FrameInv'
  BY <1>0, <1>5, NoReadFramed
<1>6. ASSUME NEW w \in Workers, Take(w) PROVE FrameInv'
  <2>1. Moves(w) /\ UNCHANGED rcvd /\ at[w] = "idle"
    BY <1>6, WorkerMoves DEF Take, stream, Pool!Take, ConnInv, AtOK
  <2>2. buf[w] = NoBuf
    BY <2>1 DEF FrameInv, ReaderOK
  <2>3. at'[w] \in {"header", "deal"} /\ buf' = buf
    BY <1>0, <1>6 DEF Take, TypeOK
  <2>. QED  BY <1>5, <1>6, <2>1, <2>2, <2>3 DEF ReaderOK
<1>7. ASSUME NEW w \in Workers, recv_task_header(w) \/ recv_task_body(w) PROVE FrameInv'
  BY <1>0, <1>7, WorkerMoves, HeaderFramed, BodyFramed DEF recv_task
<1>8. ASSUME NEW w \in Workers, recv_task_fails(w) PROVE FrameInv'
  <2>1. Moves(w) /\ UNCHANGED <<rcvd, held>> /\ at[w] \in {"header", "body"} /\ ReadFails(w)
    BY <1>8, WorkerMoves DEF recv_task, recv_task_fails, stream, pool
  <2>2. PICK c \in Clients : c = Ev(w)
    BY <2>1, ServesLive
  <2>3. Ended(c)
    BY <2>1, <2>2, ServesLive, ConnectionsAssumption DEF ReadFails
  <2>4. at'[w] \in {"eventdel", "submit"}
    <3>1. at' = [at EXCEPT ![w] = AfterFailure(at[w])]
      BY <1>8 DEF recv_task_fails
    <3>. QED  BY <1>0, <2>1, <3>1 DEF AfterFailure, TypeOK
  <2>5. Ended(Ev(w))'
    <3>1. Ended(c)'
      BY <1>0, <2>3 DEF EndedMove
    <3>. QED  BY <2>1, <2>2, <3>1 DEF Ev, Ended
  <2>6. ReaderOK(w)'
    BY <2>4, <2>5 DEF ReaderOK
  <2>. QED  BY <1>5, <2>1, <2>2, <2>3, <2>6
<1>9. ASSUME NEW w \in Workers,
             \/ recv_task_submit(w) \/ recv_task_eventdel(w) \/ recv_task_close(w) \/ recv_task_erase(w)
      PROVE  FrameInv'
  <2>1. Moves(w)
    BY <1>9, WorkerMoves DEF recv_task
  <2>2. UNCHANGED rcvd /\ at[w] \notin {"body", "idle", "header", "deal"}
    BY <1>9 DEF recv_task_submit, recv_task_eventdel, recv_task_close, recv_task_erase, stream
  <2>3. \E s \in {"rearm", "close", "erase", "delete"} : at' = [at EXCEPT ![w] = s]
    BY <1>9 DEF recv_task_submit, recv_task_eventdel, recv_task_close, recv_task_erase
  <2>4. at'[w] \notin {"idle", "header", "deal", "body", "submit"}
    BY <1>0, <2>3 DEF TypeOK
  <2>5. ReaderOK(w)'
    BY <2>4 DEF ReaderOK
  <2>. QED  BY <1>5, <2>1, <2>2, <2>5
<1>10. ASSUME NEW w \in Workers, recv_task_rearm(w) \/ recv_task_delete(w) \/ Buffer_Deal(w) PROVE FrameInv'
  <2>1. Moves(w)
    BY <1>10, WorkerMoves DEF recv_task
  <2>2. UNCHANGED rcvd /\ at[w] # "body" /\ Return(w)
    BY <1>10 DEF recv_task_rearm, recv_task_delete, Buffer_Deal, stream
  <2>3. at'[w] = "idle" /\ buf'[w] = NoBuf
    BY <1>0, <2>2 DEF TypeOK, Return
  <2>4. ReaderOK(w)'
    BY <2>3 DEF ReaderOK
  <2>. QED  BY <1>5, <2>1, <2>2, <2>4
<1>11. CASE UNCHANGED vars
  BY <1>1, <1>11, BuffersStay DEF vars, stream, pool
<1>. QED  BY <1>2, <1>3, <1>4, <1>6, <1>7, <1>8, <1>9, <1>10, <1>11 DEF Next, EventLoop, recv_task

LEMMA FrameInvariant == HeaderUnits = 1 => (Spec => []FrameInv)
<1>. SUFFICES ASSUME HeaderUnits = 1 PROVE Spec => []FrameInv
  OBVIOUS
<1>1. Init => FrameInv
  <2>. SUFFICES ASSUME Init PROVE FrameInv
    OBVIOUS
  <2>1. ASSUME NEW c \in Clients PROVE StreamOK(c)
    <3>1. rcvd[c] = 0 * PacketUnits
      BY Units DEF Init
    <3>. QED  BY <3>1 DEF StreamOK, Aligned
  <2>2. \A w \in Workers : ReaderOK(w)
    BY DEF Init, ReaderOK
  <2>3. Buffers = {}
    BY DEF Init, Buffers, Queued, InHand, Pool!Init
  <2>4. ASSUME NEW c \in Clients, NEW k \in 1..Packets PROVE ~(rcvd[c] >= k * PacketUnits)
    <3>1. k \in Nat /\ k > 0 /\ k * PacketUnits \in Nat /\ (0 + 1) * PacketUnits = PacketUnits
      BY Units, MultiplesOrdered
    <3>2. k * PacketUnits >= PacketUnits
      <4>1. 1 * PacketUnits = PacketUnits /\ 1 <= k /\ 1 \in Nat
        BY <3>1, Units
      <4>2. 1 * PacketUnits <= k * PacketUnits
        BY <3>1, <4>1, MultiplesOrdered
      <4>. QED  BY <3>1, <4>1, <4>2, Units
    <3>. QED  BY <3>1, <3>2, Units DEF Init
  <2>. QED  BY <2>1, <2>2, <2>3, <2>4 DEF FrameInv, NoPacketDropped
<1>2. ConnInv /\ FrameInv /\ [Next]_vars => FrameInv'
  BY FrameInvStep
<1>. QED  BY <1>1, <1>2, ConnInvariant, PTL DEF Spec

(* While read gets the size of a packet in one piece, Buffer_Deal is given  *)
(* whole packets of one connection, and a part of one only when the client  *)
(* has ended the connection in the middle of it.                            *)
THEOREM FramesIntactHolds == HeaderUnits = 1 => (Spec => []FramesIntact)
<1>1. FrameInv => FramesIntact
  BY DEF FrameInv, FramesIntact, Ended
<1>. QED  BY <1>1, FrameInvariant, PTL

(* Under the same condition no packet that was read from a connection is    *)
(* lost before its Buffer_Deal: not by a full queue, by the error path of   *)
(* its own connection, or by a packet that arrives in pieces.               *)
THEOREM NoPacketDroppedHolds == HeaderUnits = 1 => (Spec => []NoPacketDropped)
<1>1. FrameInv => NoPacketDropped
  BY DEF FrameInv
<1>. QED  BY <1>1, FrameInvariant, PTL

=============================================================================
