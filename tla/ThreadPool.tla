----------------------------- MODULE ThreadPool -----------------------------
(***************************************************************************)
(* The thread pool of the server (src/src/Thread_pool.cpp).                *)
(*                                                                         *)
(* Threads: the event loop (thread 0), which submits one recv_task per     *)
(* readable event; the workers (one per slot of tids[]), which take tasks  *)
(* from a ring buffer and run them, a recv_task submitting a Buffer_Deal   *)
(* from inside the worker; and the manager, which creates and retires      *)
(* workers.  Every critical section of the code under pool->lock is one    *)
(* action, so the mutex itself is not a variable.  pthread_cond_wait is    *)
(* the one place where the lock is given up: it is a program counter of    *)
(* its own, left by a signal or by a spurious wakeup.                      *)
(*                                                                         *)
(* thread_shutdown is TRUE ("running") from the constructor on and no code *)
(* assigns it (pool_destroy is declared, never defined): the branches for  *)
(* a closed pool are dead and are left out.                                *)
(***************************************************************************)
EXTENDS Integers, FiniteSets, Sequences

CONSTANTS
  ThreadMax,    \* thread_max, 200 in the server
  ThreadMin,    \* thread_min, 10
  QueueMax,     \* queue_max, 50000
  RetireBatch,  \* _DEF_COUNT, 10
  Events,       \* the readable events the event loop will report (the bound)
  NoTask,
  CreateFails   \* may pthread_create fail (EAGAIN) in the manager?

Workers   == 1..ThreadMax
EventLoop == 0
Threads   == Workers \cup {EventLoop}

Task == [fn : {"recv_task", "Buffer_Deal"}, arg : Events]
Recv(e) == [fn |-> "recv_task", arg |-> e]
Deal(e) == [fn |-> "Buffer_Deal", arg |-> e]

ASSUME PoolAssumption ==
  /\ ThreadMin \in Nat \ {0}
  /\ ThreadMax \in Nat
  /\ ThreadMin <= ThreadMax
  /\ QueueMax \in Nat \ {0}
  /\ RetireBatch \in Nat \ {0}
  /\ NoTask \notin Task
  /\ CreateFails \in BOOLEAN

VARIABLES
  queue_task,    \* the ring buffer; entries already taken are left in place
  queue_front,   \* where the next task is written
  queue_rear,    \* where the next task is read
  queue_cur,     \* number of tasks waiting
  thread_alive,
  thread_busy,
  thread_wait,   \* how many workers are asked to retire
  pc,            \* where each thread is between two critical sections
  task,          \* the task a thread runs; for the event loop, the one it submits
  seen,          \* the events already reported
  mgr            \* the manager's control state and the verdicts of its pass

ring     == <<queue_task, queue_front, queue_rear, queue_cur>>
counters == <<thread_alive, thread_busy, thread_wait>>
vars     == <<ring, counters, pc, task, seen, mgr>>

(***************************************************************************)
(* Program counters.                                                       *)
(*   unborn     the slot of tids[] was never used                          *)
(*   ready      about to take the lock at the top of Custom's inner loop   *)
(*   not_empty  in pthread_cond_wait(&not_empty)                           *)
(*   running    executing its task, without the lock                       *)
(*   adding     in Producer_add, about to take the lock                    *)
(*   not_full   in pthread_cond_wait(&not_full)                            *)
(*   finishing  the task has returned, thread_busy not yet decremented     *)
(*   exited     after pthread_exit; nobody joins it                        *)
(*   idle       the event loop is in epoll_wait                            *)
(***************************************************************************)
At(s) == {t \in Threads : pc[t] = s}

Busy == {w \in Workers : pc[w] \in {"running", "adding", "not_full", "finishing"}}
Live == {w \in Workers : pc[w] \notin {"unborn", "exited"}}

-----------------------------------------------------------------------------
(* pthread_cond_signal: the control states that one signal of cond can lead *)
(* to from the control state at.                                            *)
pthread_cond_signal(at, cond, resume) ==
  LET waiters == {t \in Threads : at[t] = cond}
  IN  IF waiters = {} THEN {at}
      ELSE {[at EXCEPT ![t] = resume] : t \in waiters}

SignalNotEmpty_whenEmpty(at) ==
  IF queue_cur = 0 THEN pthread_cond_signal(at, "not_empty", "ready") ELSE {at}
SignalNotEmpty_never(at) == {at}
SignalNotEmpty(at) == pthread_cond_signal(at, "not_empty", "ready")

SignalNotFull_whenFull(at) ==
  IF queue_cur = QueueMax THEN pthread_cond_signal(at, "not_full", "adding") ELSE {at}
SignalNotFull_never(at) == {at}
SignalNotFull(at) == pthread_cond_signal(at, "not_full", "adding")

NextSlot(i) == (i + 1) % QueueMax

-----------------------------------------------------------------------------
(* Producer_add, called by the event loop (recv_event) and by a worker that *)
(* runs recv_task.                                                          *)

recv_event(e) ==
  /\ pc[EventLoop] = "idle"
  /\ e \notin seen
  /\ seen' = seen \cup {e}
  /\ task' = [task EXCEPT ![EventLoop] = Recv(e)]
  /\ pc' = [pc EXCEPT ![EventLoop] = "adding"]
  /\ UNCHANGED <<ring, counters, mgr>>

Submitted(t) == IF t = EventLoop THEN task[t] ELSE Deal(task[t].arg)
Returned(t)  == IF t = EventLoop THEN "idle" ELSE "finishing"

QueueFull_offByOne == queue_cur > QueueMax
QueueFull == queue_cur = QueueMax

Producer_wait(t) ==
  /\ pc[t] = "adding"
  /\ QueueFull
  /\ pc' = [pc EXCEPT ![t] = "not_full"]
  /\ UNCHANGED <<ring, counters, task, seen, mgr>>

Producer_add(t) ==
  /\ pc[t] = "adding"
  /\ ~QueueFull
  /\ queue_task' = [queue_task EXCEPT ![queue_front] = Submitted(t)]
  /\ queue_front' = NextSlot(queue_front)
  /\ queue_cur' = queue_cur + 1
  /\ pc' \in SignalNotEmpty([pc EXCEPT ![t] = Returned(t)])
  /\ UNCHANGED <<queue_rear, counters, task, seen, mgr>>

-----------------------------------------------------------------------------
(* Custom, the worker's loop.                                               *)

Custom_wait(w) ==
  /\ pc[w] = "ready"
  /\ queue_cur = 0
  /\ pc' = [pc EXCEPT ![w] = "not_empty"]
  /\ UNCHANGED <<ring, counters, task, seen, mgr>>

MustRetire_orEqual == thread_wait > 0 /\ thread_alive >= ThreadMin
MustRetire == thread_wait > 0 /\ thread_alive > ThreadMin

Custom_retire(w) ==
  /\ pc[w] = "ready"
  /\ queue_cur # 0
  /\ MustRetire
  /\ thread_wait' = thread_wait - 1
  /\ thread_alive' = thread_alive - 1
  /\ pc' = [pc EXCEPT ![w] = "exited"]
  /\ UNCHANGED <<ring, thread_busy, task, seen, mgr>>

TakenTask_newest == queue_task[(queue_front + QueueMax - 1) % QueueMax]
TakenTask == queue_task[queue_rear]

Custom_take(w) ==
  /\ pc[w] = "ready"
  /\ queue_cur # 0
  /\ ~MustRetire
  /\ task' = [task EXCEPT ![w] = TakenTask]
  /\ queue_rear' = NextSlot(queue_rear)
  /\ queue_cur' = queue_cur - 1
  /\ pc' \in SignalNotFull([pc EXCEPT ![w] = "running"])
  /\ thread_busy' = thread_busy + 1
  /\ UNCHANGED <<queue_task, queue_front, thread_alive, thread_wait, seen, mgr>>

(* The task itself, seen from the pool: recv_task hands the packet it read  *)
(* to the pool, or closes the connection; Buffer_Deal only computes.        *)
recv_task(w) ==
  /\ pc[w] = "running"
  /\ task[w].fn = "recv_task"
  /\ pc' \in {[pc EXCEPT ![w] = s] : s \in {"adding", "finishing"}}
  /\ UNCHANGED <<ring, counters, task, seen, mgr>>

Buffer_Deal(w) ==
  /\ pc[w] = "running"
  /\ task[w].fn = "Buffer_Deal"
  /\ pc' = [pc EXCEPT ![w] = "finishing"]
  /\ UNCHANGED <<ring, counters, task, seen, mgr>>

(* The worker's local variable task is dead once the task has returned. *)
Custom_done(w) ==
  /\ pc[w] = "finishing"
  /\ thread_busy' = thread_busy - 1
  /\ task' = [task EXCEPT ![w] = NoTask]
  /\ pc' = [pc EXCEPT ![w] = "ready"]
  /\ UNCHANGED <<ring, thread_alive, thread_wait, seen, mgr>>

(* POSIX lets pthread_cond_wait return without a signal. *)
SpuriousWakeup(t) ==
  /\ \/ /\ pc[t] = "not_empty"
        /\ pc' = [pc EXCEPT ![t] = "ready"]
     \/ /\ pc[t] = "not_full"
        /\ pc' = [pc EXCEPT ![t] = "adding"]
  /\ UNCHANGED <<ring, counters, task, seen, mgr>>

-----------------------------------------------------------------------------
(* Manager.  Its locals alive, busy and cur are only used to compute the    *)
(* verdicts more and less, so the sampling step keeps the verdicts.  One    *)
(* pass: sample; if more, ThreadMin attempts to create a worker; if less,   *)
(* set thread_wait and signal not_empty RetireBatch times; sleep.           *)

MgrState == [pc : {"sample", "grow", "shrink", "signal"},
             less : BOOLEAN,
             left : 0..(IF ThreadMin > RetireBatch THEN ThreadMin ELSE RetireBatch)]
Asleep == [pc |-> "sample", less |-> FALSE, left |-> 0]
AfterGrow(less) == IF less THEN [pc |-> "shrink", less |-> TRUE, left |-> 0] ELSE Asleep

NeedMore(alive, busy, cur) ==
  /\ cur > alive - busy \/ busy * 100 >= 80 * alive
  /\ ThreadMax > alive
NeedLess(alive, busy) == busy * 2 < alive - busy /\ alive > ThreadMin

Manager_sample ==
  /\ mgr.pc = "sample"
  /\ LET less == NeedLess(thread_alive, thread_busy)
     IN  mgr' = IF NeedMore(thread_alive, thread_busy, queue_cur)
                THEN [pc |-> "grow", less |-> less, left |-> ThreadMin]
                ELSE AfterGrow(less)
  /\ UNCHANGED <<ring, counters, pc, task, seen>>

(* pthread_kill returns 0 or an error number, never -1; what it returns for *)
(* a thread that has ended and was not joined depends on the C library.     *)
ESRCH == 3
pthread_kill(w) == IF pc[w] = "exited" THEN {0, ESRCH} ELSE {0}
if_thread_alive_inverted(w) == \A r \in pthread_kill(w) : r = -1
if_thread_alive(w) == \A r \in pthread_kill(w) : ~(r = -1)
FreeSlots == {w \in Workers : pc[w] = "unborn" \/ ~if_thread_alive(w)}

GrowNext == IF mgr.left > 1 THEN [mgr EXCEPT !.left = @ - 1] ELSE AfterGrow(mgr.less)

(* The first free slot gets a worker; thread_alive is incremented whether   *)
(* or not pthread_create succeeded, and a failed call leaves tids[] with or *)
(* without an identifier.                                                   *)
Manager_create(w) ==
  /\ mgr.pc = "grow"
  /\ w \in FreeSlots
  /\ \A v \in FreeSlots : w <= v
  /\ \/ pc' = [pc EXCEPT ![w] = "ready"]
     \/ /\ CreateFails
        /\ pc' \in {pc, [pc EXCEPT ![w] = "exited"]}
  /\ thread_alive' = thread_alive + 1
  /\ mgr' = GrowNext
  /\ UNCHANGED <<ring, thread_busy, thread_wait, task, seen>>

Manager_noSlot ==
  /\ mgr.pc = "grow"
  /\ FreeSlots = {}
  /\ mgr' = GrowNext
  /\ UNCHANGED <<ring, counters, pc, task, seen>>

Manager_shrink ==
  /\ mgr.pc = "shrink"
  /\ thread_wait' = RetireBatch
  /\ mgr' = [pc |-> "signal", less |-> FALSE, left |-> RetireBatch]
  /\ UNCHANGED <<ring, thread_alive, thread_busy, pc, task, seen>>

Manager_signal ==
  /\ mgr.pc = "signal"
  /\ pc' \in SignalNotEmpty(pc)
  /\ mgr' = IF mgr.left > 1 THEN [mgr EXCEPT !.left = @ - 1] ELSE Asleep
  /\ UNCHANGED <<ring, counters, task, seen>>

-----------------------------------------------------------------------------
(* The pool after Pool_create: ThreadMin workers in the first slots.  No    *)
(* task can be submitted before, because InitNet creates the pool before it *)
(* creates the listening socket.                                            *)
Init ==
  /\ queue_task = [i \in 0..(QueueMax - 1) |-> NoTask]
  /\ queue_front = 0 /\ queue_rear = 0 /\ queue_cur = 0
  /\ thread_alive = ThreadMin /\ thread_busy = 0 /\ thread_wait = 0
  /\ pc = [t \in Threads |-> IF t = EventLoop THEN "idle"
                             ELSE IF t <= ThreadMin THEN "ready" ELSE "unborn"]
  /\ task = [t \in Threads |-> NoTask]
  /\ seen = {}
  /\ mgr = Asleep

Producer(t) == Producer_wait(t) \/ Producer_add(t)

Custom(w) == \/ Custom_wait(w) \/ Custom_retire(w) \/ Custom_take(w)
             \/ recv_task(w) \/ Buffer_Deal(w) \/ Custom_done(w)

Manager == \/ Manager_sample \/ Manager_noSlot \/ Manager_shrink \/ Manager_signal
           \/ \E w \in Workers : Manager_create(w)

Next == \/ \E e \in Events : recv_event(e)
        \/ \E t \in Threads : Producer(t) \/ SpuriousWakeup(t)
        \/ \E w \in Workers : Custom(w)
        \/ Manager

Spec == Init /\ [][Next]_vars

(* Every thread that can run is scheduled eventually; nothing forces a      *)
(* client to send, or a spurious wakeup to happen.                          *)
Fairness == /\ \A t \in Threads : WF_vars(Producer(t))
            /\ \A w \in Workers : WF_vars(Custom(w))
            /\ WF_vars(Manager)

FairSpec == Spec /\ Fairness

-----------------------------------------------------------------------------
(* Every variable of the pool keeps the range its declaration and its uses  *)
(* in Thread_pool.cpp give it; in particular no index leaves the ring and   *)
(* no counter becomes negative.                                             *)
TypeOK ==
  /\ queue_task \in [0..(QueueMax - 1) -> Task \cup {NoTask}]
  /\ queue_front \in 0..(QueueMax - 1)
  /\ queue_rear \in 0..(QueueMax - 1)
  /\ queue_cur \in 0..QueueMax
  /\ thread_alive \in Nat
  /\ thread_busy \in Nat
  /\ thread_wait \in 0..RetireBatch
  /\ pc \in [Threads -> {"unborn", "ready", "not_empty", "running", "adding",
                         "not_full", "finishing", "exited", "idle"}]
  /\ task \in [Threads -> Task \cup {NoTask}]
  /\ seen \subseteq Events
  /\ mgr \in MgrState

(* The counters the manager decides by: thread_busy is the number of workers *)
(* inside a task (including those blocked in Producer_add), thread_alive the *)
(* number of those that have not exited, or more when pthread_create failed  *)
(* without being noticed; it is never too low.                               *)
LiveCounted == /\ Cardinality(Live) <= thread_alive
               /\ CreateFails \/ thread_alive = Cardinality(Live)
BusyCountsThreads == thread_busy = Cardinality(Busy)
CountersExact == LiveCounted /\ BusyCountsThreads

(* Retirement never takes the counted pool below thread_min, and growth,    *)
(* decided on a sample taken earlier, never takes it above thread_max; when *)
(* pthread_create may fail without being noticed, the overshoot is less     *)
(* than one pass of the manager.                                            *)
AliveBounds ==
  /\ ThreadMin <= thread_alive
  /\ thread_alive <= IF CreateFails THEN ThreadMax + ThreadMin - 1 ELSE ThreadMax

(* No lost wakeup of consumers, up to retirement: while some worker sleeps  *)
(* on not_empty, every waiting task has an awake worker on its way to it,   *)
(* except for as many tasks as workers have retired (a retiring worker      *)
(* consumes the signal that woke it and leaves the task behind).            *)
NoLostWakeup ==
  At("not_empty") # {} =>
    queue_cur <= Cardinality(At("ready")) + Cardinality(At("exited"))

(* No lost wakeup of producers: while some thread sleeps on not_full, every *)
(* free entry of the ring has an awake producer on its way to it.           *)
NoLostSpace ==
  At("not_full") # {} => QueueMax <= queue_cur + Cardinality(At("adding"))

(* The ring buffer, its indices and the counter are a first-in first-out    *)
(* queue, and each task is handed to one worker, oldest first.              *)
Waiting == [i \in 1..queue_cur |-> queue_task[(queue_rear + i - 1) % QueueMax]]
Held == [w \in Workers |-> IF w \in Busy THEN task[w] ELSE NoTask]
Fifo == INSTANCE TaskFifo WITH Capacity <- QueueMax, queue <- Waiting, held <- Held
ImplementsFifo == Fifo!Spec

-----------------------------------------------------------------------------
Queued(t) == \E i \in 1..queue_cur : Waiting[i] = t

(* A task put into the queue is eventually taken by a worker.               *)
EveryTaskIsTaken == \A t \in Task : Queued(t) ~> ~Queued(t)

(* A worker that has received a packet eventually gets it into the queue    *)
(* and goes back to the pool: receiving is not stopped by processing.       *)
ReceiverProceeds ==
  \A w \in Workers : pc[w] \in {"adding", "not_full"} ~> pc[w] = "finishing"
=============================================================================
