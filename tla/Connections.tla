---------------------------- MODULE Connections ----------------------------
(***************************************************************************)
(* The network layer (src/src/block_epoll_net.cpp): the event loop accepts *)
(* connections and reports readable ones, recv_task reads one packet from  *)
(* a connection in a worker of the pool and hands it to Buffer_Deal, which *)
(* runs in a worker too and answers on the socket number it was given.     *)
(*                                                                         *)
(* The pool is the abstract queue TaskFifo, which ThreadPool implements.   *)
(* Every system call, every access to the map of events and every step of  *)
(* the error path is an action, because none of them holds a lock that     *)
(* covers the next.  A connection gets one myevent_s, so the event is      *)
(* named by its client; a socket number is used again once it is closed.   *)
(*                                                                         *)
(* The bytes a client sends are units: a packet is HeaderUnits units of    *)
(* size followed by BodyUnits units.                                       *)
(***************************************************************************)
EXTENDS Naturals, FiniteSets, Sequences

CONSTANTS
  Clients,      \* each connects once (the bound on connections)
  Fds,          \* the socket numbers available
  Workers,      \* the threads of the pool
  QueueMax,
  Senders,      \* the clients that send anything; the others come and go (a bound)
  Packets,      \* how many packets a client sends at most (a bound)
  HeaderUnits,  \* 1: a read always gets the four bytes of the size; 2: it may get fewer
  BodyUnits,
  ResetByPeer,  \* does a client that closed answer data with a reset?
  NoConn,       \* no client, no event
  NoTask,
  Listen        \* m_listenEv

ASSUME ConnectionsAssumption ==
  /\ IsFiniteSet(Clients) /\ IsFiniteSet(Fds)
  /\ QueueMax \in Nat \ {0}
  /\ Senders \subseteq Clients /\ Packets \in Nat
  /\ HeaderUnits \in Nat \ {0} /\ BodyUnits \in Nat \ {0}
  /\ ResetByPeer \in BOOLEAN
  /\ NoConn \notin Clients /\ Listen \notin Clients

VARIABLES
  sent,      \* units each client has sent
  peer,      \* how far the client's side of the connection is
  rcvd,      \* units the server has read from the connection
  fdt,       \* the connection behind each socket number
  event,     \* the myevent_s of each connection, and whether it was deleted
  ptr,       \* epoll's interest list: the pointer registered for a socket number
  armed,     \* the socket numbers whose registration is enabled
  m_mapSockfdToEvent,
  batch,     \* the pointers epoll_wait returned that the loop has not handled
  loop,      \* where the event loop is in accept_event, and for which event
  queue, held,  \* the pool: tasks waiting, task of each worker
  at,        \* where a worker is in its task
  buf,       \* the units recv_task has read, and how many it still wants
  dealt,     \* the packets of each connection whose Buffer_Deal has returned
  up         \* the process has not been killed

stream == <<sent, peer, rcvd>>
epoll  == <<ptr, armed>>
worker == <<at, buf>>
pool   == <<queue, held>>
vars   == <<stream, fdt, event, epoll, m_mapSockfdToEvent, batch, loop, pool, worker, dealt, up>>

PacketUnits == HeaderUnits + BodyUnits

DataBuffer == [fn : {"Buffer_Deal"}, from : Clients, sockfd : Fds, data : 0..Packets]
Task == [fn : {"recv_task"}, ev : Clients] \cup DataBuffer
ASSUME TaskAssumption == NoTask \notin Task
Pool == INSTANCE TaskFifo WITH Capacity <- QueueMax

(* What a buffer holds: a whole packet, given by its number, or 0 for       *)
(* anything else (a part of a packet, or units of several).                 *)
PacketIn(units) ==
  IF \E k \in 1..Packets : units = [i \in 1..PacketUnits |-> (k - 1) * PacketUnits + i]
  THEN CHOOSE k \in 1..Packets : units[PacketUnits] = k * PacketUnits
  ELSE 0

NoBuf   == [units |-> <<>>, need |-> 0]
NoEvent == [state |-> "none"]

(* What read and recv return: what is there, and no more than asked for.    *)
Taken(available, wanted) == IF available <= wanted THEN available ELSE wanted

-----------------------------------------------------------------------------
(* The clients and the kernel.                                              *)

Connect(c) ==
  /\ up /\ peer[c] = "away"
  /\ peer' = [peer EXCEPT ![c] = "open"]
  /\ UNCHANGED <<sent, rcvd, fdt, event, epoll, m_mapSockfdToEvent, batch, loop, pool, worker, dealt, up>>

Send(c) ==
  /\ up /\ peer[c] = "open"
  /\ c \in Senders /\ sent[c] < Packets * PacketUnits
  /\ sent' = [sent EXCEPT ![c] = @ + 1]
  /\ UNCHANGED <<peer, rcvd, fdt, event, epoll, m_mapSockfdToEvent, batch, loop, pool, worker, dealt, up>>

Leave(c) ==
  /\ up /\ peer[c] = "open"
  /\ peer' = [peer EXCEPT ![c] = "closed"]
  /\ UNCHANGED <<sent, rcvd, fdt, event, epoll, m_mapSockfdToEvent, batch, loop, pool, worker, dealt, up>>

Backlog == {c \in Clients : peer[c] # "away" /\ event[c].state = "none"}

Available(c) == IF peer[c] = "reset" THEN 0 ELSE sent[c] - rcvd[c]
Ended(c)     == peer[c] = "reset" \/ (peer[c] = "closed" /\ sent[c] = rcvd[c])
Readable(f)  == fdt[f] # NoConn /\ (Available(fdt[f]) > 0 \/ Ended(fdt[f]))

-----------------------------------------------------------------------------
(* struct myevent_s.                                                        *)

eventset(f) == [state |-> "live", fd |-> f, status |-> 0]

(* EPOLL_CTL_ADD when status is 0, EPOLL_CTL_MOD when it is 1; each enables *)
(* the registration, and fails when the socket is, or is not, in the list.  *)
eventadd_onlyOnce(c) ==
  LET f == event[c].fd
      done == fdt[f] # NoConn /\ event[c].status = 0
  IN  /\ event' = [event EXCEPT ![c].status = 1]
      /\ ptr' = IF done THEN [ptr EXCEPT ![f] = c] ELSE ptr
      /\ armed' = IF done THEN armed \cup {f} ELSE armed
eventadd(c) ==
  LET f == event[c].fd
      done == fdt[f] # NoConn /\ (event[c].status = 1 <=> ptr[f] # NoConn)
  IN  /\ event' = [event EXCEPT ![c].status = 1]
      /\ ptr' = IF done THEN [ptr EXCEPT ![f] = c] ELSE ptr
      /\ armed' = IF done THEN armed \cup {f} ELSE armed

ClientEvents_levelOnly == {"EPOLLIN"}
ClientEvents == {"EPOLLIN", "EPOLLONESHOT"}

-----------------------------------------------------------------------------
(* The event loop.                                                          *)

Ready == {ptr[f] : f \in {g \in armed : Readable(g)}}
         \cup (IF Backlog # {} THEN {Listen} ELSE {})

epoll_wait ==
  /\ up /\ loop.at = "wait" /\ batch = {}
  /\ Ready # {}
  /\ batch' = Ready
  /\ armed' = IF "EPOLLONESHOT" \in ClientEvents
              THEN {f \in armed : ptr[f] \notin Ready} ELSE armed
  /\ UNCHANGED <<stream, fdt, event, ptr, m_mapSockfdToEvent, loop, pool, worker, dealt, up>>

(* accept fails when no descriptor is free, and the loop goes on.           *)
accept_event(c) ==
  /\ up /\ loop.at = "wait" /\ Listen \in batch
  /\ c \in Backlog
  /\ batch' = batch \ {Listen}
  /\ \/ \E f \in Fds :
          /\ fdt[f] = NoConn
          /\ fdt' = [fdt EXCEPT ![f] = c]
          /\ event' = [event EXCEPT ![c] = eventset(f)]
          /\ loop' = [at |-> "add", ev |-> c]
     \/ /\ \A f \in Fds : fdt[f] # NoConn
        /\ UNCHANGED <<fdt, event, loop>>
  /\ UNCHANGED <<stream, epoll, m_mapSockfdToEvent, pool, worker, dealt, up>>

accept_event_add ==
  /\ up /\ loop.at = "add"
  /\ eventadd(loop.ev)
  /\ loop' = [loop EXCEPT !.at = "insert"]
  /\ UNCHANGED <<stream, fdt, m_mapSockfdToEvent, batch, pool, worker, dealt, up>>

(* clientfd is a local variable: the event itself is not read any more.     *)
accept_event_insert ==
  /\ up /\ loop.at = "insert"
  /\ m_mapSockfdToEvent' = [m_mapSockfdToEvent EXCEPT ![event[loop.ev].fd] = loop.ev]
  /\ loop' = [at |-> "wait", ev |-> NoConn]
  /\ UNCHANGED <<stream, fdt, event, epoll, batch, pool, worker, dealt, up>>

recv_event(c) ==
  /\ up /\ loop.at = "wait" /\ c \in batch
  /\ Pool!Submit([fn |-> "recv_task", ev |-> c])
  /\ batch' = batch \ {c}
  /\ UNCHANGED <<stream, fdt, event, epoll, m_mapSockfdToEvent, loop, worker, dealt, up>>

-----------------------------------------------------------------------------
(* A worker.                                                                *)

Ev(w)   == held[w].ev
Sock(w) == event[Ev(w)].fd

Take(w) ==
  /\ up /\ Pool!Take(w)
  /\ at' = [at EXCEPT ![w] = IF Head(queue).fn = "recv_task" THEN "header" ELSE "deal"]
  /\ UNCHANGED <<stream, fdt, event, epoll, m_mapSockfdToEvent, batch, loop, buf, dealt, up>>

(* n units of connection c go to worker w. *)
Got(w, c, n) == buf[w].units \o [i \in 1..n |-> rcvd[c] + i]
Consume(c, n) == rcvd' = [rcvd EXCEPT ![c] = @ + n]

(* nPackSize as read takes: the size when the header was read whole and     *)
(* from its start, some other number when it was not.                       *)
PackSizes(c, n) == IF n = HeaderUnits /\ rcvd[c] % PacketUnits = 0
                   THEN {BodyUnits} ELSE 0..BodyUnits

recv_task_header(w) ==
  /\ up /\ at[w] = "header" /\ Readable(Sock(w))
  /\ LET c == fdt[Sock(w)]
         n == Taken(Available(c), HeaderUnits)
     IN  /\ n > 0
         /\ Consume(c, n)
         /\ \E size \in PackSizes(c, n) :
              /\ buf' = [buf EXCEPT ![w] = [units |-> Got(w, c, n), need |-> size]]
              /\ at' = [at EXCEPT ![w] = IF size = 0 THEN "submit" ELSE "body"]
  /\ UNCHANGED <<sent, peer, fdt, event, epoll, m_mapSockfdToEvent, batch, loop, pool, dealt, up>>

BodyDone_once(w, n) == TRUE
BodyDone(w, n) == buf[w].need = n

recv_task_body(w) ==
  /\ up /\ at[w] = "body" /\ Readable(Sock(w))
  /\ LET c == fdt[Sock(w)]
         n == Taken(Available(c), buf[w].need)
     IN  /\ n > 0
         /\ Consume(c, n)
         /\ buf' = [buf EXCEPT ![w] = [units |-> Got(w, c, n), need |-> @.need - n]]
         /\ at' = [at EXCEPT ![w] = IF BodyDone(w, n) THEN "submit" ELSE "body"]
  /\ UNCHANGED <<sent, peer, fdt, event, epoll, m_mapSockfdToEvent, batch, loop, pool, dealt, up>>

(* read or recv returns 0 or -1.  In the middle of a packet, what was read  *)
(* so far is submitted all the same.                                        *)
ReadFails(w) == fdt[Sock(w)] # NoConn => Ended(fdt[Sock(w)])

AfterFailure_ignored(s) == IF s = "header" THEN "rearm" ELSE "submit"
AfterFailure(s) == IF s = "header" THEN "eventdel" ELSE "submit"

recv_task_fails(w) ==
  /\ up /\ at[w] \in {"header", "body"} /\ ReadFails(w)
  /\ at' = [at EXCEPT ![w] = AfterFailure(@)]
  /\ UNCHANGED <<stream, fdt, event, epoll, m_mapSockfdToEvent, batch, loop, pool, buf, dealt, up>>

ReadBuffer(w) == [fn |-> "Buffer_Deal", from |-> Ev(w), sockfd |-> Sock(w),
                  data |-> PacketIn(buf[w].units)]

recv_task_submit_dropWhenFull(w) ==
  /\ up /\ at[w] = "submit"
  /\ Pool!Submit(ReadBuffer(w)) \/ (Len(queue) = QueueMax /\ UNCHANGED pool)
  /\ at' = [at EXCEPT ![w] = "rearm"]
  /\ UNCHANGED <<stream, fdt, event, epoll, m_mapSockfdToEvent, batch, loop, buf, dealt, up>>
recv_task_submit(w) ==
  /\ up /\ at[w] = "submit"
  /\ Pool!Submit(ReadBuffer(w))
  /\ at' = [at EXCEPT ![w] = "rearm"]
  /\ UNCHANGED <<stream, fdt, event, epoll, m_mapSockfdToEvent, batch, loop, buf, dealt, up>>

Return(w) == /\ Pool!Finish(w)
             /\ at' = [at EXCEPT ![w] = "idle"]
             /\ buf' = [buf EXCEPT ![w] = NoBuf]

recv_task_rearm(w) ==
  /\ up /\ at[w] = "rearm"
  /\ eventadd(Ev(w))
  /\ Return(w)
  /\ UNCHANGED <<stream, fdt, m_mapSockfdToEvent, batch, loop, dealt, up>>

(* The error path: eventdel, close, erase, delete.  close also takes the    *)
(* socket out of epoll's interest list.                                     *)
Unregister(f) == /\ ptr' = [ptr EXCEPT ![f] = NoConn]
                 /\ armed' = armed \ {f}

recv_task_eventdel(w) ==
  /\ up /\ at[w] = "eventdel"
  /\ IF event[Ev(w)].status = 1 THEN Unregister(Sock(w)) ELSE UNCHANGED epoll
  /\ event' = [event EXCEPT ![Ev(w)].status = 0]
  /\ at' = [at EXCEPT ![w] = "close"]
  /\ UNCHANGED <<stream, fdt, m_mapSockfdToEvent, batch, loop, pool, buf, dealt, up>>

recv_task_close(w) ==
  /\ up /\ at[w] = "close"
  /\ Unregister(Sock(w))
  /\ fdt' = [fdt EXCEPT ![Sock(w)] = NoConn]
  /\ at' = [at EXCEPT ![w] = "erase"]
  /\ UNCHANGED <<stream, event, m_mapSockfdToEvent, batch, loop, pool, buf, dealt, up>>

recv_task_erase(w) ==
  /\ up /\ at[w] = "erase"
  /\ m_mapSockfdToEvent' = [m_mapSockfdToEvent EXCEPT ![Sock(w)] = NoConn]
  /\ at' = [at EXCEPT ![w] = "delete"]
  /\ UNCHANGED <<stream, fdt, event, epoll, batch, loop, pool, buf, dealt, up>>

recv_task_delete(w) ==
  /\ up /\ at[w] = "delete"
  /\ event' = [event EXCEPT ![Ev(w)].state = "freed"]
  /\ Return(w)
  /\ UNCHANGED <<stream, fdt, epoll, m_mapSockfdToEvent, batch, loop, dealt, up>>

(* The handler answers, or not, on the socket number it was given.  The     *)
(* first data sent to a client that has closed brings a reset back, and     *)
(* the next send raises SIGPIPE, which nothing in the program handles.      *)
Answer(f) ==
  LET c == fdt[f]
  IN  \/ UNCHANGED <<peer, up>>
      \/ /\ ResetByPeer /\ c # NoConn /\ peer[c] = "closed"
         /\ peer' = [peer EXCEPT ![c] = "reset"]
         /\ UNCHANGED up
      \/ /\ c # NoConn /\ peer[c] = "reset"
         /\ up' = FALSE
         /\ UNCHANGED peer

Buffer_Deal(w) ==
  /\ up /\ at[w] = "deal"
  /\ LET b == held[w]
     IN  /\ Answer(b.sockfd)
         /\ dealt' = [dealt EXCEPT ![b.from] = @ \cup ({b.data} \ {0})]
  /\ Return(w)
  /\ UNCHANGED <<sent, rcvd, fdt, event, epoll, m_mapSockfdToEvent, batch, loop>>

-----------------------------------------------------------------------------
Init ==
  /\ sent = [c \in Clients |-> 0] /\ rcvd = [c \in Clients |-> 0]
  /\ peer = [c \in Clients |-> "away"]
  /\ fdt = [f \in Fds |-> NoConn]
  /\ event = [c \in Clients |-> NoEvent]
  /\ ptr = [f \in Fds |-> NoConn] /\ armed = {}
  /\ m_mapSockfdToEvent = [f \in Fds |-> NoConn]
  /\ batch = {}
  /\ loop = [at |-> "wait", ev |-> NoConn]
  /\ Pool!Init
  /\ at = [w \in Workers |-> "idle"]
  /\ buf = [w \in Workers |-> NoBuf]
  /\ dealt = [c \in Clients |-> {}]
  /\ up = TRUE

EventLoop == \/ epoll_wait \/ accept_event_add \/ accept_event_insert
             \/ \E c \in Clients : accept_event(c) \/ recv_event(c)

recv_task(w) == \/ recv_task_header(w) \/ recv_task_body(w) \/ recv_task_fails(w)
                \/ recv_task_submit(w) \/ recv_task_rearm(w)
                \/ recv_task_eventdel(w) \/ recv_task_close(w)
                \/ recv_task_erase(w) \/ recv_task_delete(w)

Next == \/ \E c \in Clients : Connect(c) \/ Send(c) \/ Leave(c)
        \/ EventLoop
        \/ \E w \in Workers : Take(w) \/ recv_task(w) \/ Buffer_Deal(w)

Spec == Init /\ [][Next]_vars

(* The event loop and every worker are scheduled; a blocking read and a     *)
(* full queue disable the step.  Nothing forces a client to do anything.    *)
Fairness == /\ WF_vars(EventLoop)
            /\ \A w \in Workers : WF_vars(Take(w) \/ recv_task(w) \/ Buffer_Deal(w))

FairSpec == Spec /\ Fairness

-----------------------------------------------------------------------------
(* Each variable keeps to what the code stores in it.                       *)
TypeOK ==
  /\ sent \in [Clients -> 0..(Packets * PacketUnits)]
  /\ rcvd \in [Clients -> Nat] /\ \A c \in Clients : rcvd[c] <= sent[c]
  /\ peer \in [Clients -> {"away", "open", "closed", "reset"}]
  /\ fdt \in [Fds -> Clients \cup {NoConn}]
  /\ event \in [Clients -> {NoEvent} \cup
                  [state : {"live", "freed"}, fd : Fds, status : {0, 1}]]
  /\ ptr \in [Fds -> Clients \cup {NoConn}]
  /\ armed \subseteq {f \in Fds : ptr[f] # NoConn}
  /\ m_mapSockfdToEvent \in [Fds -> Clients \cup {NoConn}]
  /\ batch \subseteq Clients \cup {Listen}
  /\ loop \in [at : {"add", "insert"}, ev : Clients] \cup {[at |-> "wait", ev |-> NoConn]}
  /\ queue \in Seq(Task) /\ Len(queue) <= QueueMax
  /\ held \in [Workers -> Task \cup {NoTask}]
  /\ at \in [Workers -> {"idle", "header", "body", "submit", "rearm", "eventdel",
                         "close", "erase", "delete", "deal"}]
  /\ buf \in [Workers -> [units : Seq(Nat), need : 0..BodyUnits]]
  /\ dealt \in [Clients -> SUBSET (1..Packets)]
  /\ up \in BOOLEAN

Queued   == {queue[i] : i \in 1..Len(queue)}
InHand   == {held[w] : w \in {v \in Workers : held[v] # NoTask}}
Buffers  == {t \in Queued \cup InHand : t.fn = "Buffer_Deal"}
Receives(t, c) == t.fn = "recv_task" /\ t.ev = c

(* EPOLLONESHOT keeps the receives of one connection apart: at any time one *)
(* recv_task at most is waiting or running for it, and while there is one   *)
(* the event loop holds no further report of that connection.               *)
ReceiversOf(c) == Cardinality({i \in 1..Len(queue) : Receives(queue[i], c)})
                  + Cardinality({w \in Workers : held[w] # NoTask /\ Receives(held[w], c)})
OneReceiver == \A c \in Clients : ReceiversOf(c) + (IF c \in batch THEN 1 ELSE 0) <= 1

(* An event that was deleted is not pointed to any more by epoll's list, by *)
(* the batch the loop still has to handle, by a waiting or a running        *)
(* recv_task, or by accept_event before it has registered it.               *)
NoDanglingEvent ==
  \A c \in Clients : event[c].state = "freed" =>
    /\ \A f \in Fds : ptr[f] # c
    /\ c \notin batch
    /\ ReceiversOf(c) = 0
    /\ loop.at = "add" => loop.ev # c

(* Every event, socket number and task is of the kind the code stores, and  *)
(* none leads to an event that was deleted.                                 *)
EventsIntact == TypeOK /\ NoDanglingEvent

(* What is handed to Buffer_Deal is one whole packet, except where the peer *)
(* ended the connection in the middle of one: packets are never mixed,      *)
(* split or cut short by the way they arrive.                               *)
FramesIntact == \A b \in Buffers : b.data # 0 \/ peer[b.from] \in {"closed", "reset"}

(* Every packet read from a connection has been dealt with, or is on its    *)
(* way in the worker that read it, in the queue or in Buffer_Deal.          *)
OnItsWay(c, k) ==
  \/ \E b \in Buffers : b.from = c /\ b.data = k
  \/ \E w \in Workers : /\ at[w] = "submit" /\ Ev(w) = c
                        /\ PacketIn(buf[w].units) = k
NoPacketDropped ==
  \A c \in Clients, k \in 1..Packets :
    rcvd[c] >= k * PacketUnits => k \in dealt[c] \/ OnItsWay(c, k)

(* The number that an answer is going to be sent on is its sender's for as  *)
(* long as the sender keeps its connection open: no error path of another   *)
(* connection, late or repeated, takes it away.  Once the sender has        *)
(* closed, the number may be somebody else's.                               *)
AnswerReachesSender ==
  \A b \in Buffers : peer[b.from] = "open" => fdt[b.sockfd] = b.from

(* A packet that has arrived completely is processed, whatever the other    *)
(* clients do.                                                              *)
EveryPacketIsDealt ==
  \A c \in Clients, k \in 1..Packets : sent[c] >= k * PacketUnits ~> k \in dealt[c]

(* The event and the socket number of a connection that its client has      *)
(* closed are given back.                                                   *)
ClosedIsReleased ==
  \A c \in Clients : (peer[c] = "closed" /\ event[c].state = "live")
                       ~> event[c].state = "freed"
=============================================================================
