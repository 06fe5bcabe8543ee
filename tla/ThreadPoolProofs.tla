-------------------------- MODULE ThreadPoolProofs --------------------------
(***************************************************************************)
(* Theorems about ThreadPool, for every number of threads, every queue     *)
(* size and every set of events that satisfy PoolAssumption.               *)
(*                                                                         *)
(* TypeOK is not inductive: that thread_busy stays a natural number is     *)
(* that it counts the busy workers, that a task taken is a task is that    *)
(* the entries between queue_rear and queue_front are.  PoolInv adds these *)
(* facts; the other invariants are then proved relative to PoolInv.        *)
(***************************************************************************)
EXTENDS ThreadPool, FiniteSetTheorems, SequenceTheorems, TLAPS

WorkerStates == {"unborn", "ready", "not_empty", "running", "adding",
                 "not_full", "finishing", "exited"}
LoopStates == {"idle", "adding", "not_full"}
BusyStates == {"running", "adding", "not_full", "finishing"}
LiveStates == WorkerStates \ {"unborn", "exited"}

(* The event loop and the workers keep to their own program counters. *)
PcOK == /\ \A w \in Workers : pc[w] \in WorkerStates
        /\ pc[EventLoop] \in LoopStates

(* A thread on its way through a task or through Producer_add has a task. *)
TaskHeld == \A t \in Threads : pc[t] \in BusyStates => task[t] \in Task

(* queue_front is queue_cur entries ahead of queue_rear, and those entries *)
(* are tasks.                                                              *)
RingOK == /\ queue_front = (queue_rear + queue_cur) % QueueMax
          /\ \A i \in 0..(QueueMax - 1) :
               i < queue_cur => queue_task[(queue_rear + i) % QueueMax] \in Task

(* While the manager grows the pool it has attempts left, and they do not  *)
(* take the counted pool past the bound it sampled against.                *)
GrowOK == mgr.pc = "grow" =>
            /\ mgr.left \in 1..ThreadMin
            /\ thread_alive + mgr.left <= ThreadMax + ThreadMin - 1

PoolInv == /\ TypeOK
           /\ PcOK
           /\ TaskHeld
           /\ RingOK
           /\ BusyCountsThreads
           /\ ThreadMin <= thread_alive
           /\ GrowOK

-----------------------------------------------------------------------------
(* The threads of D that are in one of the control states S. *)
In(at, D, S) == {t \in D : at[t] \in S}

LEMMA ThreadsFinite ==
  /\ IsFiniteSet(Workers)
  /\ IsFiniteSet(Threads)
  /\ Cardinality(Workers) = ThreadMax
<1>1. IsFiniteSet(1..ThreadMax) /\ Cardinality(1..ThreadMax) = ThreadMax
  BY FS_Interval, PoolAssumption
<1>2. IsFiniteSet((1..ThreadMax) \cup {0})
  BY <1>1, FS_AddElement
<1>. QED  BY <1>1, <1>2 DEF Workers, Threads, EventLoop

LEMMA InFinite ==
  ASSUME NEW at, NEW D, IsFiniteSet(D), NEW S
  PROVE  /\ IsFiniteSet(In(at, D, S))
         /\ Cardinality(In(at, D, S)) \in Nat
<1>1. In(at, D, S) \in SUBSET D
  BY DEF In
<1>. QED  BY <1>1, FS_Subset, FS_CardinalityType

(* What a signal does: it wakes one of the waiters, if there is one. *)
LEMMA Signalled ==
  ASSUME NEW at, NEW cond, NEW resume,
         NEW new \in pthread_cond_signal(at, cond, resume)
  PROVE  \/ new = at /\ \A t \in Threads : at[t] # cond
         \/ \E t \in Threads : at[t] = cond /\ new = [at EXCEPT ![t] = resume]
BY DEF pthread_cond_signal

-----------------------------------------------------------------------------
(* An index of the ring that has passed the end comes back by QueueMax. *)
LEMMA RingIndex ==
  ASSUME NEW r \in 0..(QueueMax - 1), NEW i \in 0..QueueMax
  PROVE  (r + i) % QueueMax = IF r + i < QueueMax THEN r + i ELSE r + i - QueueMax
<1>1. QueueMax \in Nat \ {0} /\ r \in Nat /\ i \in Nat
      /\ r < QueueMax /\ i <= QueueMax
  BY PoolAssumption
<1>2. CASE r + i < QueueMax
  BY <1>1, <1>2
<1>3. CASE QueueMax <= r + i
  <2>1. r + i = QueueMax * 1 + (r + i - QueueMax)
    BY <1>1
  <2>2. 0 <= r + i - QueueMax /\ r + i - QueueMax < QueueMax
    BY <1>1, <1>3
  <2>. QED  BY <1>1, <1>3, <2>1, <2>2
<1>. QED  BY <1>1, <1>2, <1>3

(* The queue_cur entries from queue_rear on are different entries, and both  *)
(* ends of the ring move to the next one.                                   *)
LEMMA RingSteps ==
  ASSUME NEW r \in 0..(QueueMax - 1)
  PROVE  /\ (r + 0) % QueueMax = r
         /\ NextSlot(r) \in 0..(QueueMax - 1)
         /\ \A i \in 0..(QueueMax - 1) :
              /\ (r + i) % QueueMax \in 0..(QueueMax - 1)
              /\ NextSlot((r + i) % QueueMax) = (r + (i + 1)) % QueueMax
              /\ (NextSlot(r) + i) % QueueMax = (r + (i + 1)) % QueueMax
              /\ \A j \in 0..(QueueMax - 1) :
                   i < j => (r + i) % QueueMax # (r + j) % QueueMax
<1>. DEFINE Wrap(a, i) == IF a + i < QueueMax THEN a + i ELSE a + i - QueueMax
<1>1. QueueMax \in Nat /\ QueueMax >= 1 /\ r \in Nat /\ r < QueueMax
  BY PoolAssumption
<1>2. ASSUME NEW a \in 0..(QueueMax - 1), NEW i \in 0..QueueMax
      PROVE  (a + i) % QueueMax = Wrap(a, i)
  BY RingIndex
<1>3. ASSUME NEW a \in 0..(QueueMax - 1) PROVE NextSlot(a) = Wrap(a, 1)
  BY <1>1, <1>2 DEF NextSlot
<1>4. ASSUME NEW a \in 0..(QueueMax - 1), NEW i \in 0..(QueueMax - 1)
      PROVE  /\ Wrap(a, i) \in 0..(QueueMax - 1)
             /\ Wrap(Wrap(a, i), 1) = Wrap(a, i + 1)
             /\ Wrap(Wrap(a, 1), i) = Wrap(a, i + 1)
             /\ \A j \in 0..(QueueMax - 1) : i < j => Wrap(a, i) # Wrap(a, j)
  BY <1>1
<1>5. Wrap(r, 1) \in 0..(QueueMax - 1) /\ Wrap(r, 0) = r
  BY <1>1
<1>. HIDE DEF Wrap
<1>6. (r + 0) % QueueMax = r /\ NextSlot(r) \in 0..(QueueMax - 1)
  <2>1. 0 \in 0..QueueMax
    BY <1>1
  <2>. QED  BY <1>2, <1>3, <1>5, <2>1
<1>7. ASSUME NEW i \in 0..(QueueMax - 1)
      PROVE  /\ (r + i) % QueueMax \in 0..(QueueMax - 1)
             /\ NextSlot((r + i) % QueueMax) = (r + (i + 1)) % QueueMax
             /\ (NextSlot(r) + i) % QueueMax = (r + (i + 1)) % QueueMax
             /\ \A j \in 0..(QueueMax - 1) :
                  i < j => (r + i) % QueueMax # (r + j) % QueueMax
  <2>1. i \in 0..QueueMax /\ i + 1 \in 0..QueueMax
    BY <1>1
  <2>2. (r + i) % QueueMax = Wrap(r, i) /\ (r + (i + 1)) % QueueMax = Wrap(r, i + 1)
    BY <1>2, <2>1
  <2>3. NextSlot((r + i) % QueueMax) = (r + (i + 1)) % QueueMax
    BY <1>3, <1>4, <2>2
  <2>4. (NextSlot(r) + i) % QueueMax = (r + (i + 1)) % QueueMax
    BY <1>2, <1>3, <1>4, <1>5, <2>1, <2>2
  <2>5. ASSUME NEW j \in 0..(QueueMax - 1), i < j
        PROVE  (r + i) % QueueMax # (r + j) % QueueMax
    <3>1. (r + j) % QueueMax = Wrap(r, j)
      <4>1. j \in 0..QueueMax
        BY <1>1
      <4>. QED  BY <1>2, <4>1
    <3>. QED  BY <1>4, <2>2, <2>5, <3>1
  <2>. QED  BY <1>4, <2>2, <2>3, <2>4, <2>5
<1>. QED  BY <1>6, <1>7

-----------------------------------------------------------------------------
(* The parts of PoolInv that only depend on where the threads are.  A step  *)
(* that moves a thread between two control states that are both busy or     *)
(* both not, and that leaves its task alone, keeps them.                    *)
PcType == pc \in [Threads -> WorkerStates \cup LoopStates]

LEMMA BusyIsIn == Busy = In(pc, Workers, BusyStates)
BY DEF Busy, In, BusyStates

LEMMA PoolInvInit == Init => PoolInv
<1>. SUFFICES ASSUME Init PROVE PoolInv
  OBVIOUS
<1>. USE PoolAssumption
<1>1. TypeOK
  BY DEF Init, TypeOK, Threads, Workers, EventLoop, MgrState, Asleep
<1>2. PcOK
  BY DEF Init, PcOK, Threads, Workers, EventLoop, WorkerStates, LoopStates
<1>3. TaskHeld
  BY DEF Init, TaskHeld, Threads, Workers, EventLoop, BusyStates
<1>4. RingOK
  <2>1. (0 + 0) % QueueMax = 0
    BY RingIndex
  <2>. QED  BY <2>1 DEF Init, RingOK
<1>5. BusyCountsThreads
  <2>1. Busy = {}
    BY DEF Init, Busy, Threads, Workers, EventLoop
  <2>. QED  BY <2>1, FS_EmptySet DEF Init, BusyCountsThreads
<1>6. GrowOK
  BY DEF Init, GrowOK, Asleep
<1>. QED  BY <1>1, <1>2, <1>3, <1>4, <1>5, <1>6 DEF PoolInv, Init

(* A signal wakes a thread that is not busy into a control state that is    *)
(* not busy, or one inside Producer_add into Producer_add.                  *)
Wakes(cond, resume) == <<cond, resume>> \in {<<"not_empty", "ready">>, <<"not_full", "adding">>}

LEMMA SignalKeeps ==
  ASSUME NEW at \in [Threads -> WorkerStates \cup LoopStates],
         \A w \in Workers : at[w] \in WorkerStates,
         at[EventLoop] \in LoopStates,
         NEW cond, NEW resume, Wakes(cond, resume),
         NEW new \in pthread_cond_signal(at, cond, resume)
  PROVE  /\ new \in [Threads -> WorkerStates \cup LoopStates]
         /\ \A w \in Workers : new[w] \in WorkerStates
         /\ new[EventLoop] \in LoopStates
         /\ \A t \in Threads : new[t] \in BusyStates <=> at[t] \in BusyStates
         /\ \A t \in Threads : new[t] \in LiveStates <=> at[t] \in LiveStates
<1>1. CASE new = at
  BY <1>1
<1>2. ASSUME NEW t \in Threads, at[t] = cond, new = [at EXCEPT ![t] = resume]
      PROVE  /\ new \in [Threads -> WorkerStates \cup LoopStates]
             /\ \A w \in Workers : new[w] \in WorkerStates
             /\ new[EventLoop] \in LoopStates
             /\ \A u \in Threads : new[u] \in BusyStates <=> at[u] \in BusyStates
             /\ \A u \in Threads : new[u] \in LiveStates <=> at[u] \in LiveStates
  BY <1>2 DEF Wakes, WorkerStates, LoopStates, BusyStates, LiveStates,
              Threads, Workers, EventLoop
<1>. QED  BY <1>1, <1>2, Signalled

(* A step that leaves the ring, the counters, the tasks and the manager     *)
(* alone keeps PoolInv when no thread becomes busy or stops being busy.     *)
LEMMA OnlyPcMoves ==
  ASSUME PoolInv, PcOK', PcType', 
         UNCHANGED <<ring, counters, task, seen, mgr>>,
         \A t \in Threads : pc'[t] \in BusyStates <=> pc[t] \in BusyStates
  PROVE  PoolInv'
<1>1. Busy' = Busy
  BY DEF Busy, BusyStates, Threads
<1>2. TypeOK'
  BY DEF PoolInv, TypeOK, PcType, WorkerStates, LoopStates, ring, counters
<1>3. TaskHeld'
  BY DEF PoolInv, TaskHeld
<1>4. RingOK'
  BY DEF PoolInv, RingOK, ring
<1>5. GrowOK'
  BY DEF PoolInv, GrowOK, counters
<1>. QED  BY <1>1, <1>2, <1>3, <1>4, <1>5 DEF PoolInv, BusyCountsThreads, counters

(* The manager after one attempt to create a worker. *)
LEMMA GrowNextType ==
  ASSUME mgr \in MgrState
  PROVE  /\ GrowNext \in MgrState
         /\ GrowNext.pc = "grow" /\ mgr.pc = "grow" =>
              GrowNext.left = mgr.left - 1 /\ GrowNext.left > 0
<1>1. CASE mgr.left > 1
  <2>1. GrowNext = [mgr EXCEPT !.left = mgr.left - 1]
    BY <1>1 DEF GrowNext
  <2>2. mgr.left - 1 \in 0..(IF ThreadMin > RetireBatch THEN ThreadMin ELSE RetireBatch)
    BY <1>1, PoolAssumption DEF MgrState
  <2>. QED  BY <1>1, <2>1, <2>2 DEF MgrState
<1>2. CASE ~(mgr.left > 1)
  BY <1>2, PoolAssumption DEF GrowNext, AfterGrow, Asleep, MgrState
<1>. QED  BY <1>1, <1>2

LEMMA PoolInvStep == PoolInv /\ [Next]_vars => PoolInv'
<1>. SUFFICES ASSUME PoolInv, [Next]_vars PROVE PoolInv'
  OBVIOUS
<1>. USE PoolAssumption
<1>0. PcType
  BY DEF PoolInv, TypeOK, PcType, WorkerStates, LoopStates
<1>1. ASSUME NEW e \in Events, recv_event(e) PROVE PoolInv'
  <2>. USE <1>0, <1>1 DEF recv_event
  <2>1. PcOK' /\ PcType'
    BY DEF PoolInv, PcOK, PcType, Threads, Workers, EventLoop, LoopStates
  <2>2. TypeOK'
    BY <2>1 DEF PoolInv, TypeOK, PcType, WorkerStates, LoopStates, ring, counters, Task, Recv
  <2>3. TaskHeld'
    BY DEF PoolInv, TaskHeld, TypeOK, BusyStates, Task, Recv
  <2>4. RingOK'
    BY DEF PoolInv, RingOK, ring
  <2>5. Busy' = Busy
    BY DEF Busy, Workers, EventLoop, PcType, Threads
  <2>6. GrowOK'
    BY DEF PoolInv, GrowOK, counters
  <2>. QED  BY <2>1, <2>2, <2>3, <2>4, <2>5, <2>6
            DEF PoolInv, BusyCountsThreads, counters
<1>2. ASSUME NEW t \in Threads, Producer_wait(t) PROVE PoolInv'
  <2>. USE <1>0, <1>2 DEF Producer_wait
  <2>1. PcOK' /\ PcType'
    BY DEF PoolInv, PcOK, PcType, Threads, Workers, EventLoop, LoopStates, WorkerStates
  <2>2. \A u \in Threads : pc'[u] \in BusyStates <=> pc[u] \in BusyStates
    BY DEF PcType, BusyStates
  <2>. QED  BY <2>1, <2>2, OnlyPcMoves
<1>3. ASSUME NEW t \in Threads, SpuriousWakeup(t) PROVE PoolInv'
  <2>. USE <1>0, <1>3 DEF SpuriousWakeup
  <2>1. PcOK' /\ PcType'
    BY DEF PoolInv, PcOK, PcType, Threads, Workers, EventLoop, LoopStates, WorkerStates
  <2>2. \A u \in Threads : pc'[u] \in BusyStates <=> pc[u] \in BusyStates
    BY DEF PcType, BusyStates
  <2>. QED  BY <2>1, <2>2, OnlyPcMoves
<1>4. ASSUME NEW w \in Workers, Custom_wait(w) PROVE PoolInv'
  <2>. USE <1>0, <1>4 DEF Custom_wait
  <2>1. PcOK' /\ PcType'
    BY DEF PoolInv, PcOK, PcType, Threads, Workers, EventLoop, LoopStates, WorkerStates
  <2>2. \A u \in Threads : pc'[u] \in BusyStates <=> pc[u] \in BusyStates
    BY DEF PcType, BusyStates
  <2>. QED  BY <2>1, <2>2, OnlyPcMoves
<1>5. ASSUME NEW w \in Workers, recv_task(w) PROVE PoolInv'
  <2>. USE <1>0, <1>5 DEF recv_task
  <2>1. PcOK' /\ PcType'
    BY DEF PoolInv, PcOK, PcType, Threads, Workers, EventLoop, LoopStates, WorkerStates
  <2>2. \A u \in Threads : pc'[u] \in BusyStates <=> pc[u] \in BusyStates
    BY DEF PcType, BusyStates
  <2>. QED  BY <2>1, <2>2, OnlyPcMoves
<1>6. ASSUME NEW w \in Workers, Buffer_Deal(w) PROVE PoolInv'
  <2>. USE <1>0, <1>6 DEF Buffer_Deal
  <2>1. PcOK' /\ PcType'
    BY DEF PoolInv, PcOK, PcType, Threads, Workers, EventLoop, LoopStates, WorkerStates
  <2>2. \A u \in Threads : pc'[u] \in BusyStates <=> pc[u] \in BusyStates
    BY DEF PcType, BusyStates
  <2>. QED  BY <2>1, <2>2, OnlyPcMoves
<1>7. ASSUME NEW t \in Threads, Producer_add(t) PROVE PoolInv'
  <2> DEFINE mid == [pc EXCEPT ![t] = Returned(t)]
  <2>. USE <1>0, <1>7 DEF Producer_add
  <2>1. /\ mid \in [Threads -> WorkerStates \cup LoopStates]
        /\ \A w \in Workers : mid[w] \in WorkerStates
        /\ mid[EventLoop] \in LoopStates
        /\ \A w \in Workers : mid[w] \in BusyStates <=> pc[w] \in BusyStates
        /\ \A u \in Threads : mid[u] \in BusyStates => pc[u] \in BusyStates
    BY DEF PoolInv, PcOK, PcType, Threads, Workers, EventLoop, LoopStates,
           WorkerStates, BusyStates, Returned
  <2>2. PcOK' /\ PcType' /\ \A u \in Threads : pc'[u] \in BusyStates <=> mid[u] \in BusyStates
    <3>. HIDE DEF mid
    <3>1. pc' \in pthread_cond_signal(mid, "not_empty", "ready")
      BY DEF SignalNotEmpty, mid
    <3>2. Wakes("not_empty", "ready")
      BY DEF Wakes
    <3>. QED  BY <2>1, <3>1, <3>2, SignalKeeps DEF PcOK, PcType
  <2>. HIDE DEF mid
  <2>3. Submitted(t) \in Task
    BY DEF PoolInv, TaskHeld, BusyStates, Submitted, Deal, Task
  <2>4. queue_cur < QueueMax
    BY DEF PoolInv, TypeOK, QueueFull
  <2>5. /\ queue_rear \in 0..(QueueMax - 1)
        /\ queue_front \in 0..(QueueMax - 1)
        /\ queue_cur \in 0..(QueueMax - 1)
        /\ queue_cur + 1 \in 0..QueueMax
        /\ queue_task \in [0..(QueueMax - 1) -> Task \cup {NoTask}]
        /\ queue_front = (queue_rear + queue_cur) % QueueMax
    BY <2>4 DEF PoolInv, TypeOK, RingOK
  <2>6. /\ NextSlot(queue_front) = (queue_rear + (queue_cur + 1)) % QueueMax
        /\ NextSlot(queue_front) \in 0..(QueueMax - 1)
    BY <2>5, RingSteps
  <2>7. TypeOK'
    BY <2>2, <2>3, <2>5, <2>6
       DEF PoolInv, TypeOK, PcType, WorkerStates, LoopStates, counters
  <2>8. RingOK'
    <3>1. ASSUME NEW i \in 0..(QueueMax - 1), i < queue_cur + 1
          PROVE  queue_task'[(queue_rear + i) % QueueMax] \in Task
      <4>1. CASE i = queue_cur
        BY <4>1, <2>3, <2>5
      <4>2. CASE i < queue_cur
        <5>1. (queue_rear + i) % QueueMax \in 0..(QueueMax - 1)
          BY <2>5, RingSteps
        <5>2. (queue_rear + i) % QueueMax # (queue_rear + queue_cur) % QueueMax
          <6>1. \A j \in 0..(QueueMax - 1) :
                  i < j => (queue_rear + i) % QueueMax # (queue_rear + j) % QueueMax
            BY <2>5, RingSteps
          <6>. QED  BY <4>2, <2>5, <6>1
        <5>3. queue_task[(queue_rear + i) % QueueMax] \in Task
          BY <4>2 DEF PoolInv, RingOK
        <5>. QED  BY <5>1, <5>2, <5>3, <2>5
      <4>. QED  BY <3>1, <4>1, <4>2, <2>5
    <3>. QED  BY <3>1, <2>6 DEF RingOK
  <2>9. TaskHeld'
    BY <2>1, <2>2 DEF PoolInv, TaskHeld
  <2>10. Busy' = Busy
    BY <2>1, <2>2 DEF Busy, BusyStates, Threads
  <2>11. GrowOK'
    BY DEF PoolInv, GrowOK, counters
  <2>. QED  BY <2>2, <2>7, <2>8, <2>9, <2>10, <2>11
            DEF PoolInv, BusyCountsThreads, counters
<1>8. ASSUME NEW w \in Workers, Custom_retire(w) PROVE PoolInv'
  <2>. USE <1>0, <1>8 DEF Custom_retire
  <2>1. PcOK' /\ PcType' /\ \A u \in Threads : pc'[u] \in BusyStates <=> pc[u] \in BusyStates
    BY DEF PoolInv, PcOK, PcType, Threads, Workers, EventLoop, LoopStates, WorkerStates,
           BusyStates
  <2>2. ThreadMin <= thread_alive' /\ thread_alive' \in Nat /\ thread_wait' \in 0..RetireBatch
        /\ thread_alive' <= thread_alive
    BY DEF MustRetire, PoolInv, TypeOK
  <2>3. TypeOK'
    BY <2>1, <2>2 DEF PoolInv, TypeOK, PcType, WorkerStates, LoopStates, ring
  <2>4. TaskHeld' /\ RingOK'
    BY <2>1 DEF PoolInv, TaskHeld, RingOK, ring
  <2>5. Busy' = Busy
    BY <2>1 DEF Busy, BusyStates, Threads
  <2>6. GrowOK'
    BY <2>2 DEF PoolInv, TypeOK, GrowOK
  <2>. QED  BY <2>1, <2>2, <2>3, <2>4, <2>5, <2>6 DEF PoolInv, BusyCountsThreads
<1>9. ASSUME NEW w \in Workers, Custom_take(w) PROVE PoolInv'
  <2> DEFINE mid == [pc EXCEPT ![w] = "running"]
  <2>. USE <1>0, <1>9 DEF Custom_take, TakenTask
  <2>1. /\ mid \in [Threads -> WorkerStates \cup LoopStates]
        /\ \A v \in Workers : mid[v] \in WorkerStates
        /\ mid[EventLoop] \in LoopStates
        /\ pc[w] \notin BusyStates /\ mid[w] \in BusyStates
        /\ \A u \in Threads : u # w => mid[u] = pc[u]
    BY DEF PoolInv, PcOK, PcType, Threads, Workers, EventLoop, LoopStates,
           WorkerStates, BusyStates
  <2>2. PcOK' /\ PcType' /\ \A u \in Threads : pc'[u] \in BusyStates <=> mid[u] \in BusyStates
    <3>. HIDE DEF mid
    <3>1. pc' \in pthread_cond_signal(mid, "not_full", "adding")
      BY DEF SignalNotFull, mid
    <3>2. Wakes("not_full", "adding")
      BY DEF Wakes
    <3>. QED  BY <2>1, <3>1, <3>2, SignalKeeps DEF PcOK, PcType
  <2>. HIDE DEF mid
  <2>3. /\ queue_rear \in 0..(QueueMax - 1)
        /\ queue_cur \in 1..QueueMax
        /\ queue_task \in [0..(QueueMax - 1) -> Task \cup {NoTask}]
        /\ queue_front = (queue_rear + queue_cur) % QueueMax
    BY DEF PoolInv, TypeOK, RingOK
  <2>4. queue_task[queue_rear] \in Task
    <3>1. queue_task[(queue_rear + 0) % QueueMax] \in Task
      BY <2>3 DEF PoolInv, RingOK
    <3>2. (queue_rear + 0) % QueueMax = queue_rear
      BY <2>3, RingSteps
    <3>. QED  BY <3>1, <3>2
  <2>5. queue_rear' \in 0..(QueueMax - 1)
    BY <2>3, RingSteps
  <2>6. ASSUME NEW i \in 0..(QueueMax - 1)
        PROVE  (queue_rear' + i) % QueueMax = (queue_rear + (i + 1)) % QueueMax
    BY <2>3, RingSteps
  <2>7. RingOK'
    <3>1. queue_front' = (queue_rear' + queue_cur') % QueueMax
      BY <2>3, <2>6
    <3>2. ASSUME NEW i \in 0..(QueueMax - 1), i < queue_cur'
          PROVE  queue_task'[(queue_rear' + i) % QueueMax] \in Task
      <4>1. i + 1 \in 0..(QueueMax - 1) /\ i + 1 < queue_cur
        BY <2>3, <3>2
      <4>2. queue_task[(queue_rear + (i + 1)) % QueueMax] \in Task
        BY <4>1 DEF PoolInv, RingOK
      <4>. QED  BY <4>1, <4>2, <2>6
    <3>. QED  BY <3>1, <3>2 DEF RingOK
  <2>8. TypeOK'
    <3>1. task' \in [Threads -> Task \cup {NoTask}] /\ thread_busy' \in Nat
      BY <2>4 DEF PoolInv, TypeOK, Threads
    <3>2. queue_cur' \in 0..QueueMax
      BY <2>3
    <3>. QED  BY <2>2, <2>3, <2>5, <3>1, <3>2
              DEF PoolInv, TypeOK, PcType, WorkerStates, LoopStates
  <2>9. TaskHeld'
    BY <2>1, <2>2, <2>4 DEF PoolInv, TaskHeld, TypeOK
  <2>10. BusyCountsThreads'
    <3>1. Busy' = Busy \cup {w} /\ w \notin Busy
      BY <2>1, <2>2 DEF Busy, BusyStates, Threads
    <3>2. IsFiniteSet(Busy)
      BY BusyIsIn, InFinite, ThreadsFinite
    <3>. QED  BY <3>1, <3>2, FS_AddElement DEF PoolInv, BusyCountsThreads
  <2>11. GrowOK'
    BY DEF PoolInv, GrowOK
  <2>. QED  BY <2>2, <2>7, <2>8, <2>9, <2>10, <2>11 DEF PoolInv
<1>10. ASSUME NEW w \in Workers, Custom_done(w) PROVE PoolInv'
  <2>. USE <1>0, <1>10 DEF Custom_done
  <2>1. /\ PcOK' /\ PcType'
        /\ pc[w] \in BusyStates /\ pc'[w] \notin BusyStates
        /\ \A u \in Threads : u # w => pc'[u] = pc[u]
    BY DEF PoolInv, PcOK, PcType, Threads, Workers, EventLoop, LoopStates,
           WorkerStates, BusyStates
  <2>2. Busy' = Busy \ {w} /\ w \in Busy
    BY <2>1 DEF Busy, BusyStates, Threads
  <2>3. BusyCountsThreads' /\ thread_busy' \in Nat
    <3>1. IsFiniteSet(Busy) /\ IsFiniteSet(Busy \ {w})
      BY BusyIsIn, InFinite, ThreadsFinite, FS_RemoveElement
    <3>2. Cardinality(Busy \ {w}) = Cardinality(Busy) - 1
      BY <2>2, <3>1, FS_RemoveElement
    <3>3. Cardinality(Busy \ {w}) \in Nat
      BY <3>1, FS_CardinalityType
    <3>. QED  BY <2>2, <3>2, <3>3 DEF PoolInv, BusyCountsThreads
  <2>4. TypeOK'
    BY <2>1, <2>3 DEF PoolInv, TypeOK, PcType, WorkerStates, LoopStates, ring
  <2>5. TaskHeld' /\ RingOK' /\ GrowOK'
    BY <2>1 DEF PoolInv, TaskHeld, RingOK, GrowOK, TypeOK, ring
  <2>. QED  BY <2>1, <2>3, <2>4, <2>5 DEF PoolInv
<1>11. CASE Manager_sample
  <2>. USE <1>0, <1>11 DEF Manager_sample
  <2>1. mgr' \in MgrState /\ GrowOK'
    <3> DEFINE less == NeedLess(thread_alive, thread_busy)
    <3>1. less \in BOOLEAN
      BY DEF NeedLess
    <3>. HIDE DEF less
    <3>2. CASE NeedMore(thread_alive, thread_busy, queue_cur)
      <4>1. mgr' = [pc |-> "grow", less |-> less, left |-> ThreadMin]
        BY <3>2 DEF less
      <4>2. thread_alive <= ThreadMax - 1 /\ thread_alive \in Nat
        BY <3>2 DEF NeedMore, PoolInv, TypeOK
      <4>. QED  BY <3>1, <4>1, <4>2 DEF MgrState, GrowOK, counters
    <3>3. CASE ~NeedMore(thread_alive, thread_busy, queue_cur)
      <4>1. mgr' = AfterGrow(less)
        BY <3>3 DEF less
      <4>. QED  BY <3>1, <4>1 DEF MgrState, AfterGrow, Asleep, GrowOK
    <3>. QED  BY <3>2, <3>3
  <2>2. TypeOK' /\ PcOK' /\ TaskHeld' /\ RingOK' /\ BusyCountsThreads'
    BY <2>1 DEF PoolInv, TypeOK, PcOK, TaskHeld, RingOK, BusyCountsThreads, Busy,
                ring, counters
  <2>. QED  BY <2>1, <2>2 DEF PoolInv, counters
<1>12. ASSUME NEW w \in Workers, Manager_create(w) PROVE PoolInv'
  <2>. USE <1>0, <1>12 DEF Manager_create
  <2>1. PcOK' /\ PcType' /\ \A u \in Threads : pc'[u] \in BusyStates <=> pc[u] \in BusyStates
    BY DEF PoolInv, PcOK, PcType, Threads, Workers, EventLoop, LoopStates, WorkerStates,
           BusyStates, FreeSlots, if_thread_alive, pthread_kill, ESRCH
  <2>2. mgr' \in MgrState /\ GrowOK' /\ thread_alive' \in Nat /\ ThreadMin <= thread_alive'
    BY GrowNextType DEF GrowOK, PoolInv, TypeOK
  <2>3. TypeOK'
    BY <2>1, <2>2 DEF PoolInv, TypeOK, PcType, WorkerStates, LoopStates, ring
  <2>4. TaskHeld' /\ RingOK'
    BY <2>1 DEF PoolInv, TaskHeld, RingOK, ring
  <2>5. Busy' = Busy
    BY <2>1 DEF Busy, BusyStates, Threads
  <2>. QED  BY <2>1, <2>2, <2>3, <2>4, <2>5 DEF PoolInv, BusyCountsThreads
<1>13. CASE Manager_noSlot
  <2>. USE <1>0, <1>13 DEF Manager_noSlot
  <2>1. mgr' \in MgrState /\ GrowOK'
    BY GrowNextType DEF GrowOK, PoolInv, TypeOK, counters
  <2>2. TypeOK' /\ PcOK' /\ TaskHeld' /\ RingOK' /\ BusyCountsThreads'
    BY <2>1 DEF PoolInv, TypeOK, PcOK, TaskHeld, RingOK, BusyCountsThreads, Busy,
                ring, counters
  <2>. QED  BY <2>1, <2>2 DEF PoolInv, counters
<1>14. CASE Manager_shrink
  <2>. USE <1>0, <1>14 DEF Manager_shrink
  <2>1. mgr' \in MgrState /\ GrowOK' /\ thread_wait' \in 0..RetireBatch
    BY DEF MgrState, GrowOK
  <2>2. TypeOK' /\ PcOK' /\ TaskHeld' /\ RingOK' /\ BusyCountsThreads'
    BY <2>1 DEF PoolInv, TypeOK, PcOK, TaskHeld, RingOK, BusyCountsThreads, Busy, ring
  <2>. QED  BY <2>1, <2>2 DEF PoolInv
<1>15. CASE Manager_signal
  <2>. USE <1>0, <1>15 DEF Manager_signal
  <2>1. PcOK' /\ PcType' /\ \A u \in Threads : pc'[u] \in BusyStates <=> pc[u] \in BusyStates
    <3>1. pc' \in pthread_cond_signal(pc, "not_empty", "ready")
      BY DEF SignalNotEmpty
    <3>2. Wakes("not_empty", "ready")
      BY DEF Wakes
    <3>. QED  BY <3>1, <3>2, SignalKeeps DEF PcOK, PcType, PoolInv
  <2>2. mgr' \in MgrState /\ GrowOK'
    <3>1. CASE mgr.left > 1
      <4>1. mgr' = [mgr EXCEPT !.left = mgr.left - 1] /\ mgr \in MgrState
        BY <3>1 DEF PoolInv, TypeOK
      <4>2. mgr.left - 1 \in 0..(IF ThreadMin > RetireBatch THEN ThreadMin ELSE RetireBatch)
        BY <3>1, <4>1 DEF MgrState
      <4>. QED  BY <4>1, <4>2 DEF MgrState, GrowOK
    <3>2. CASE ~(mgr.left > 1)
      BY <3>2 DEF MgrState, GrowOK, Asleep
    <3>. QED  BY <3>1, <3>2
  <2>3. TypeOK'
    BY <2>1, <2>2 DEF PoolInv, TypeOK, PcType, WorkerStates, LoopStates, ring, counters
  <2>4. TaskHeld' /\ RingOK'
    BY <2>1 DEF PoolInv, TaskHeld, RingOK, ring
  <2>5. Busy' = Busy
    BY <2>1 DEF Busy, BusyStates, Threads
  <2>. QED  BY <2>1, <2>2, <2>3, <2>4, <2>5 DEF PoolInv, BusyCountsThreads, counters
<1>16. CASE UNCHANGED vars
  <2>1. PcOK' /\ PcType'
    BY <1>0, <1>16 DEF vars, PoolInv, PcOK, PcType
  <2>. QED  BY <1>16, <2>1, OnlyPcMoves DEF vars
<1>. QED  BY <1>1, <1>2, <1>3, <1>4, <1>5, <1>6, <1>7, <1>8, <1>9, <1>10, <1>11,
             <1>12, <1>13, <1>14, <1>15, <1>16
          DEF Next, Producer, Custom, Manager

(* The pool's invariant, and with it the type invariant, in every reachable *)
(* state: no index leaves the ring, no entry is read that was not written,  *)
(* no counter becomes negative.                                             *)
THEOREM PoolInvariant == Spec => []PoolInv
BY PoolInvInit, PoolInvStep, PTL DEF Spec

(* Thread_pool.cpp keeps every variable of the pool within its range, for   *)
(* any number of threads, queue size and load.                              *)
THEOREM TypeCorrect == Spec => []TypeOK
<1>1. PoolInv => TypeOK
  BY DEF PoolInv
<1>. QED  BY <1>1, PoolInvariant, PTL

-----------------------------------------------------------------------------
(* The counters against the threads themselves, and the bounds of the pool. *)
AliveCapped == thread_alive <= ThreadMax + ThreadMin - 1
AliveInv == LiveCounted /\ AliveCapped

(* A step that neither starts nor ends a thread keeps AliveInv. *)
LEMMA SameThreadsLive ==
  ASSUME AliveInv, UNCHANGED thread_alive,
         \A w \in Workers : pc'[w] \in {"unborn", "exited"} <=> pc[w] \in {"unborn", "exited"}
  PROVE  AliveInv'
<1>1. Live' = Live
  BY DEF Live
<1>. QED  BY <1>1 DEF AliveInv, LiveCounted, AliveCapped

LEMMA SignalKeepsLive ==
  ASSUME NEW at \in [Threads -> WorkerStates \cup LoopStates],
         NEW cond, NEW resume, Wakes(cond, resume),
         NEW new \in pthread_cond_signal(at, cond, resume), NEW w \in Workers
  PROVE  new[w] \in {"unborn", "exited"} <=> at[w] \in {"unborn", "exited"}
<1>1. ASSUME NEW t \in Threads, at[t] = cond, new = [at EXCEPT ![t] = resume]
      PROVE  new[w] \in {"unborn", "exited"} <=> at[w] \in {"unborn", "exited"}
  BY <1>1 DEF Wakes, Threads
<1>. QED  BY <1>1, Signalled

LEMMA AliveInvInit == Init => AliveInv
<1>. SUFFICES ASSUME Init PROVE AliveInv
  OBVIOUS
<1>1. Live = 1..ThreadMin
  BY PoolAssumption DEF Init, Live, Workers, Threads, EventLoop
<1>2. Cardinality(1..ThreadMin) = ThreadMin
  BY FS_Interval, PoolAssumption
<1>. QED  BY <1>1, <1>2, PoolAssumption
          DEF Init, AliveInv, LiveCounted, AliveCapped

LEMMA AliveInvStep == PoolInv /\ AliveInv /\ [Next]_vars => AliveInv'
<1>. SUFFICES ASSUME PoolInv, AliveInv, [Next]_vars PROVE AliveInv'
  OBVIOUS
<1>0. /\ pc \in [Threads -> WorkerStates \cup LoopStates]
      /\ Workers \subseteq Threads
      /\ IsFiniteSet(Live)
  <2>1. Live \in SUBSET Workers
    BY DEF Live
  <2>. QED  BY <2>1, ThreadsFinite, FS_Subset
            DEF PoolInv, TypeOK, WorkerStates, LoopStates, Threads
<1>1. ASSUME NEW e \in Events, recv_event(e) PROVE AliveInv'
  BY <1>0, <1>1, SameThreadsLive DEF recv_event, counters, Workers, EventLoop
<1>2. ASSUME NEW t \in Threads, Producer_wait(t) PROVE AliveInv'
  BY <1>0, <1>2, SameThreadsLive DEF Producer_wait, counters
<1>3. ASSUME NEW t \in Threads, SpuriousWakeup(t) PROVE AliveInv'
  BY <1>0, <1>3, SameThreadsLive DEF SpuriousWakeup, counters
<1>4. ASSUME NEW w \in Workers, Custom_wait(w) PROVE AliveInv'
  BY <1>0, <1>4, SameThreadsLive DEF Custom_wait, counters
<1>5. ASSUME NEW w \in Workers, recv_task(w) PROVE AliveInv'
  BY <1>0, <1>5, SameThreadsLive DEF recv_task, counters
<1>6. ASSUME NEW w \in Workers, Buffer_Deal(w) PROVE AliveInv'
  BY <1>0, <1>6, SameThreadsLive DEF Buffer_Deal, counters
<1>7. ASSUME NEW t \in Threads, Producer_add(t) PROVE AliveInv'
  <2> DEFINE mid == [pc EXCEPT ![t] = Returned(t)]
  <2>1. /\ mid \in [Threads -> WorkerStates \cup LoopStates]
        /\ \A w \in Workers : mid[w] \in {"unborn", "exited"} <=> pc[w] \in {"unborn", "exited"}
    BY <1>0, <1>7 DEF Producer_add, Returned, WorkerStates, LoopStates
  <2>2. pc' \in pthread_cond_signal(mid, "not_empty", "ready") /\ UNCHANGED thread_alive
    BY <1>7 DEF Producer_add, SignalNotEmpty, counters
  <2>3. Wakes("not_empty", "ready")
    BY DEF Wakes
  <2>. HIDE DEF mid
  <2>4. \A w \in Workers : pc'[w] \in {"unborn", "exited"} <=> pc[w] \in {"unborn", "exited"}
    BY <2>1, <2>2, <2>3, SignalKeepsLive
  <2>. QED  BY <2>2, <2>4, SameThreadsLive
<1>8. ASSUME NEW w \in Workers, Custom_take(w) PROVE AliveInv'
  <2> DEFINE mid == [pc EXCEPT ![w] = "running"]
  <2>1. /\ mid \in [Threads -> WorkerStates \cup LoopStates]
        /\ \A v \in Workers : mid[v] \in {"unborn", "exited"} <=> pc[v] \in {"unborn", "exited"}
    BY <1>0, <1>8 DEF Custom_take, WorkerStates, LoopStates
  <2>2. pc' \in pthread_cond_signal(mid, "not_full", "adding") /\ UNCHANGED thread_alive
    BY <1>8 DEF Custom_take, SignalNotFull
  <2>3. Wakes("not_full", "adding")
    BY DEF Wakes
  <2>. HIDE DEF mid
  <2>4. \A v \in Workers : pc'[v] \in {"unborn", "exited"} <=> pc[v] \in {"unborn", "exited"}
    BY <2>1, <2>2, <2>3, SignalKeepsLive
  <2>. QED  BY <2>2, <2>4, SameThreadsLive
<1>9. ASSUME NEW w \in Workers, Custom_done(w) PROVE AliveInv'
  BY <1>0, <1>9, SameThreadsLive DEF Custom_done
<1>10. ASSUME NEW w \in Workers, Custom_retire(w) PROVE AliveInv'
  <2>1. Live' = Live \ {w} /\ w \in Live
    BY <1>0, <1>10 DEF Custom_retire, Live
  <2>2. Cardinality(Live \ {w}) = Cardinality(Live) - 1 /\ Cardinality(Live) \in Nat
    BY <1>0, <2>1, FS_RemoveElement, FS_CardinalityType
  <2>3. thread_alive' = thread_alive - 1 /\ thread_alive \in Nat
    BY <1>10 DEF Custom_retire, PoolInv, TypeOK
  <2>. QED  BY <2>1, <2>2, <2>3, PoolAssumption
            DEF AliveInv, LiveCounted, AliveCapped
<1>11. ASSUME NEW w \in Workers, Manager_create(w) PROVE AliveInv'
  <2>1. pc[w] = "unborn"
    BY <1>11 DEF Manager_create, FreeSlots, if_thread_alive, pthread_kill, ESRCH
  <2>2. thread_alive' = thread_alive + 1 /\ thread_alive \in Nat
    BY <1>11 DEF Manager_create, PoolInv, TypeOK
  <2>3. AliveCapped'
    BY <1>11, <2>2, PoolAssumption DEF Manager_create, AliveCapped, GrowOK, PoolInv
  <2>4. CASE pc' = [pc EXCEPT ![w] = "ready"]
    <3>1. Live' = Live \cup {w} /\ w \notin Live
      BY <1>0, <2>1, <2>4 DEF Live
    <3>2. Cardinality(Live') = Cardinality(Live) + 1 /\ Cardinality(Live) \in Nat
      BY <1>0, <3>1, FS_AddElement, FS_CardinalityType
    <3>. QED  BY <2>2, <2>3, <3>2 DEF AliveInv, LiveCounted
  <2>5. CASE CreateFails /\ pc' \in {pc, [pc EXCEPT ![w] = "exited"]}
    <3>1. Live' = Live
      BY <1>0, <2>1, <2>5 DEF Live
    <3>2. Cardinality(Live) \in Nat
      BY <1>0, FS_CardinalityType
    <3>. QED  BY <2>2, <2>3, <2>5, <3>1, <3>2 DEF AliveInv, LiveCounted
  <2>. QED  BY <1>11, <2>4, <2>5 DEF Manager_create
<1>12. CASE Manager_sample \/ Manager_noSlot
  BY <1>12, SameThreadsLive DEF Manager_sample, Manager_noSlot, counters
<1>13. CASE Manager_shrink
  BY <1>13, SameThreadsLive DEF Manager_shrink
<1>14. CASE Manager_signal
  <2>1. pc' \in pthread_cond_signal(pc, "not_empty", "ready") /\ UNCHANGED thread_alive
    BY <1>14 DEF Manager_signal, SignalNotEmpty, counters
  <2>2. Wakes("not_empty", "ready")
    BY DEF Wakes
  <2>3. \A w \in Workers : pc'[w] \in {"unborn", "exited"} <=> pc[w] \in {"unborn", "exited"}
    BY <1>0, <2>1, <2>2, SignalKeepsLive
  <2>. QED  BY <2>1, <2>3, SameThreadsLive
<1>15. CASE UNCHANGED vars
  BY <1>15, SameThreadsLive DEF vars, counters
<1>. QED  BY <1>1, <1>2, <1>3, <1>4, <1>5, <1>6, <1>7, <1>8, <1>9, <1>10, <1>11,
             <1>12, <1>13, <1>14, <1>15
          DEF Next, Producer, Custom, Manager

LEMMA AliveInvariant == Spec => []AliveInv
BY AliveInvInit, AliveInvStep, PoolInvariant, PTL DEF Spec

(* The manager's decision to grow rests on a sample taken before the lock   *)
(* was released, and retirement runs concurrently with it: thread_alive     *)
(* stays within thread_min and thread_max all the same, and past thread_max *)
(* by less than one pass when pthread_create fails unnoticed.               *)
THEOREM PoolStaysInBounds == Spec => []AliveBounds
<1>1. PoolInv /\ AliveInv => AliveBounds
  <2>. SUFFICES ASSUME PoolInv, AliveInv PROVE AliveBounds
    OBVIOUS
  <2>1. ThreadMin <= thread_alive
    BY DEF PoolInv
  <2>2. CASE CreateFails
    BY <2>1, <2>2 DEF AliveBounds, AliveInv, AliveCapped
  <2>3. CASE ~CreateFails
    <3>1. Live \in SUBSET Workers
      BY DEF Live
    <3>2. Cardinality(Live) <= ThreadMax
      BY <3>1, ThreadsFinite, FS_Subset
    <3>. QED  BY <2>1, <2>3, <3>2
              DEF AliveBounds, AliveInv, LiveCounted
  <2>. QED  BY <2>2, <2>3
<1>. QED  BY <1>1, PoolInvariant, AliveInvariant, PTL

(* In every reachable state thread_busy is the number of busy workers and   *)
(* thread_alive the number of live ones, or more if pthread_create failed.  *)
THEOREM CountersCorrect == Spec => []CountersExact
<1>1. PoolInv /\ AliveInv => CountersExact
  BY DEF PoolInv, AliveInv, CountersExact
<1>. QED  BY <1>1, PoolInvariant, AliveInvariant, PTL

-----------------------------------------------------------------------------
(* Wakeups.  N(at, s): how many threads are in control state s. *)
N(at, s) == Cardinality(In(at, Threads, {s}))

WakeInv == NoLostWakeup /\ NoLostSpace

LEMMA NType ==
  ASSUME NEW at, NEW s
  PROVE  /\ N(at, s) \in Nat
         /\ N(at, s) = 0 <=> \A t \in Threads : at[t] # s
<1>1. IsFiniteSet(In(at, Threads, {s})) /\ N(at, s) \in Nat
  BY InFinite, ThreadsFinite DEF N
<1>2. N(at, s) = 0 <=> In(at, Threads, {s}) = {}
  BY <1>1, FS_EmptySet DEF N
<1>. QED  BY <1>1, <1>2 DEF In

(* What a step that moves only thread t does to N. *)
MovesOnly(at, new, t) == \A u \in Threads : u # t => new[u] = at[u]

LEMMA MoveN ==
  ASSUME NEW at, NEW new, NEW t \in Threads, MovesOnly(at, new, t), NEW s
  PROVE  /\ at[t] = s /\ new[t] # s => N(new, s) = N(at, s) - 1
         /\ at[t] # s /\ new[t] = s => N(new, s) = N(at, s) + 1
         /\ (at[t] = s <=> new[t] = s) => N(new, s) = N(at, s)
<1> DEFINE old == In(at, Threads, {s})
           now == In(new, Threads, {s})
<1>1. IsFiniteSet(old)
  BY InFinite, ThreadsFinite
<1>2. CASE at[t] = s /\ new[t] # s
  <2>1. now = old \ {t} /\ t \in old
    BY <1>2 DEF In, MovesOnly
  <2>. HIDE DEF old, now
  <2>2. Cardinality(now) = Cardinality(old) - 1
    BY <1>1, <2>1, FS_RemoveElement
  <2>. QED  BY <1>2, <2>2 DEF N, old, now
<1>3. CASE at[t] # s /\ new[t] = s
  <2>1. now = old \cup {t} /\ t \notin old
    BY <1>3 DEF In, MovesOnly
  <2>. HIDE DEF old, now
  <2>2. Cardinality(now) = Cardinality(old) + 1
    BY <1>1, <2>1, FS_AddElement
  <2>. QED  BY <1>3, <2>2 DEF N, old, now
<1>4. CASE at[t] = s <=> new[t] = s
  <2>1. now = old
    BY <1>4 DEF In, MovesOnly
  <2>. QED  BY <1>4, <2>1 DEF N
<1>. QED  BY <1>2, <1>3, <1>4

LEMMA SignalN ==
  ASSUME NEW at \in [Threads -> WorkerStates \cup LoopStates],
         NEW cond, NEW resume, cond # resume,
         NEW new, new \in pthread_cond_signal(at, cond, resume)
  PROVE  \/ N(at, cond) = 0 /\ new = at
         \/ /\ N(new, cond) = N(at, cond) - 1
            /\ N(new, resume) = N(at, resume) + 1
            /\ \A s : s # cond /\ s # resume => N(new, s) = N(at, s)
<1>1. ASSUME NEW t \in Threads, at[t] = cond, new = [at EXCEPT ![t] = resume]
      PROVE  /\ N(new, cond) = N(at, cond) - 1
             /\ N(new, resume) = N(at, resume) + 1
             /\ \A s : s # cond /\ s # resume => N(new, s) = N(at, s)
  <2>1. MovesOnly(at, new, t) /\ at[t] = cond /\ new[t] = resume /\ cond # resume
    BY <1>1 DEF MovesOnly
  <2>2. N(new, cond) = N(at, cond) - 1
    BY <2>1, MoveN
  <2>3. N(new, resume) = N(at, resume) + 1
    BY <2>1, MoveN
  <2>4. ASSUME NEW s, s # cond, s # resume
        PROVE  N(new, s) = N(at, s)
    BY <2>1, <2>4, MoveN
  <2>. QED  BY <2>2, <2>3, <2>4
<1>. QED  BY <1>1, Signalled, NType

(* NoLostWakeup and NoLostSpace in terms of N. *)
WakeBound(at, cur) ==
  /\ N(at, "not_empty") = 0 \/ cur <= N(at, "ready") + N(at, "exited")
  /\ N(at, "not_full") = 0 \/ QueueMax <= cur + N(at, "adding")

LEMMA WakeInvN == WakeInv <=> WakeBound(pc, queue_cur)
<1>1. \A s : At(s) = In(pc, Threads, {s})
  BY DEF At, In
<1>2. \A s : N(pc, s) = Cardinality(At(s)) /\ (N(pc, s) = 0 <=> At(s) = {})
  <2>1. \A s : IsFiniteSet(In(pc, Threads, {s}))
    BY InFinite, ThreadsFinite
  <2>. QED  BY <1>1, <2>1, FS_EmptySet DEF N
<1>. QED  BY <1>2 DEF WakeInv, NoLostWakeup, NoLostSpace, WakeBound

LEMMA WakeInvInit == Init => WakeInv
<1>. SUFFICES ASSUME Init PROVE WakeInv
  OBVIOUS
<1>1. \A t \in Threads : pc[t] # "not_empty" /\ pc[t] # "not_full"
  BY DEF Init
<1>. QED  BY <1>1, NType, WakeInvN DEF WakeBound

(* A step that moves one thread from a to b and signals nothing. *)
LEMMA OneMoves ==
  ASSUME NEW at, NEW new, NEW t \in Threads, MovesOnly(at, new, t),
         NEW a, NEW b, at[t] = a, new[t] = b, a # b
  PROVE  /\ N(new, a) = N(at, a) - 1
         /\ N(new, b) = N(at, b) + 1
         /\ \A s : s # a /\ s # b => N(new, s) = N(at, s)
<1>1. N(new, a) = N(at, a) - 1
  BY MoveN
<1>2. N(new, b) = N(at, b) + 1
  BY MoveN
<1>3. ASSUME NEW s, s # a, s # b PROVE N(new, s) = N(at, s)
  BY <1>3, MoveN
<1>. QED  BY <1>1, <1>2, <1>3

LEMMA WakeInvStep == PoolInv /\ WakeInv /\ [Next]_vars => WakeInv'
<1>. SUFFICES ASSUME PoolInv, WakeInv, [Next]_vars PROVE WakeBound(pc', queue_cur')
  <2>1. (WakeInv <=> WakeBound(pc, queue_cur))'
    BY WakeInvN, PTL
  <2>. QED  BY <2>1
<1> DEFINE Goal == WakeBound(pc', queue_cur')
<1>0. /\ pc \in [Threads -> WorkerStates \cup LoopStates]
      /\ Workers \subseteq Threads /\ EventLoop \in Threads
      /\ queue_cur \in 0..QueueMax /\ QueueMax \in Nat
  BY PoolAssumption DEF PoolInv, TypeOK, WorkerStates, LoopStates, Threads
<1>n. \A at, s : N(at, s) \in Nat
  BY NType
<1>i. WakeBound(pc, queue_cur)
  BY WakeInvN
<1>1. ASSUME NEW e \in Events, recv_event(e) PROVE Goal
  <2>1. pc[EventLoop] = "idle" /\ pc'[EventLoop] = "adding"
        /\ MovesOnly(pc, pc', EventLoop) /\ queue_cur' = queue_cur
    BY <1>0, <1>1 DEF recv_event, MovesOnly, ring
  <2>2. /\ N(pc', "adding") = N(pc, "adding") + 1
        /\ \A s : s # "idle" /\ s # "adding" => N(pc', s) = N(pc, s)
    BY <1>0, <2>1, OneMoves
  <2>. QED  BY <1>0, <1>n, <1>i, <2>1, <2>2 DEF WakeBound
<1>2. ASSUME NEW t \in Threads, Producer_wait(t) PROVE Goal
  <2>1. pc[t] = "adding" /\ pc'[t] = "not_full" /\ MovesOnly(pc, pc', t)
        /\ queue_cur' = queue_cur /\ queue_cur = QueueMax
    BY <1>0, <1>2 DEF Producer_wait, QueueFull, MovesOnly, ring
  <2>2. \A s : s # "adding" /\ s # "not_full" => N(pc', s) = N(pc, s)
    BY <2>1, OneMoves
  <2>. QED  BY <1>0, <1>n, <1>i, <2>1, <2>2 DEF WakeBound
<1>3. ASSUME NEW t \in Threads, SpuriousWakeup(t) PROVE Goal
  <2>1. CASE pc[t] = "not_empty"
    <3>1. pc'[t] = "ready" /\ MovesOnly(pc, pc', t) /\ queue_cur' = queue_cur
      BY <1>0, <1>3, <2>1 DEF SpuriousWakeup, MovesOnly, ring
    <3>2. /\ N(pc', "not_empty") = N(pc, "not_empty") - 1
          /\ N(pc', "ready") = N(pc, "ready") + 1
          /\ \A s : s # "not_empty" /\ s # "ready" => N(pc', s) = N(pc, s)
      BY <2>1, <3>1, OneMoves
    <3>. QED  BY <1>0, <1>n, <1>i, <3>1, <3>2 DEF WakeBound
  <2>2. CASE pc[t] = "not_full"
    <3>1. pc'[t] = "adding" /\ MovesOnly(pc, pc', t) /\ queue_cur' = queue_cur
      BY <1>0, <1>3, <2>2 DEF SpuriousWakeup, MovesOnly, ring
    <3>2. /\ N(pc', "not_full") = N(pc, "not_full") - 1
          /\ N(pc', "adding") = N(pc, "adding") + 1
          /\ \A s : s # "not_full" /\ s # "adding" => N(pc', s) = N(pc, s)
      BY <2>2, <3>1, OneMoves
    <3>. QED  BY <1>0, <1>n, <1>i, <3>1, <3>2 DEF WakeBound
  <2>. QED  BY <1>3, <2>1, <2>2 DEF SpuriousWakeup
<1>4. ASSUME NEW w \in Workers, Custom_wait(w) PROVE Goal
  <2>1. w \in Threads /\ pc[w] = "ready" /\ pc'[w] = "not_empty" /\ MovesOnly(pc, pc', w)
        /\ queue_cur' = queue_cur /\ queue_cur = 0
    BY <1>0, <1>4 DEF Custom_wait, MovesOnly, ring
  <2>2. /\ N(pc', "ready") = N(pc, "ready") - 1
        /\ N(pc', "not_empty") = N(pc, "not_empty") + 1
        /\ \A s : s # "ready" /\ s # "not_empty" => N(pc', s) = N(pc, s)
    BY <2>1, OneMoves
  <2>. QED  BY <1>0, <1>n, <1>i, <2>1, <2>2 DEF WakeBound
<1>5. ASSUME NEW w \in Workers, Custom_retire(w) PROVE Goal
  <2>1. w \in Threads /\ pc[w] = "ready" /\ pc'[w] = "exited" /\ MovesOnly(pc, pc', w)
        /\ queue_cur' = queue_cur
    BY <1>0, <1>5 DEF Custom_retire, MovesOnly, ring
  <2>2. /\ N(pc', "ready") = N(pc, "ready") - 1
        /\ N(pc', "exited") = N(pc, "exited") + 1
        /\ \A s : s # "ready" /\ s # "exited" => N(pc', s) = N(pc, s)
    BY <2>1, OneMoves
  <2>. QED  BY <1>0, <1>n, <1>i, <2>1, <2>2 DEF WakeBound
<1>6. ASSUME NEW w \in Workers, Buffer_Deal(w) PROVE Goal
  <2>1. w \in Threads /\ pc[w] = "running" /\ pc'[w] = "finishing" /\ MovesOnly(pc, pc', w)
        /\ queue_cur' = queue_cur
    BY <1>0, <1>6 DEF Buffer_Deal, MovesOnly, ring
  <2>2. /\ N(pc', "running") = N(pc, "running") - 1
        /\ N(pc', "finishing") = N(pc, "finishing") + 1
        /\ \A s : s # "running" /\ s # "finishing" => N(pc', s) = N(pc, s)
    BY <2>1, OneMoves
  <2>. QED  BY <1>0, <1>n, <1>i, <2>1, <2>2 DEF WakeBound
<1>7. ASSUME NEW w \in Workers, Custom_done(w) PROVE Goal
  <2>1. w \in Threads /\ pc[w] = "finishing" /\ pc'[w] = "ready" /\ MovesOnly(pc, pc', w)
        /\ queue_cur' = queue_cur
    BY <1>0, <1>7 DEF Custom_done, MovesOnly, ring
  <2>2. /\ N(pc', "finishing") = N(pc, "finishing") - 1
        /\ N(pc', "ready") = N(pc, "ready") + 1
        /\ \A s : s # "finishing" /\ s # "ready" => N(pc', s) = N(pc, s)
    BY <2>1, OneMoves
  <2>. QED  BY <1>0, <1>n, <1>i, <2>1, <2>2 DEF WakeBound
<1>8. ASSUME NEW w \in Workers, recv_task(w) PROVE Goal
  <2>1. w \in Threads /\ pc[w] = "running" /\ MovesOnly(pc, pc', w) /\ queue_cur' = queue_cur
        /\ pc'[w] \in {"adding", "finishing"}
    BY <1>0, <1>8 DEF recv_task, MovesOnly, ring
  <2>2. /\ N(pc', "adding") >= N(pc, "adding")
        /\ \A s : s # "running" /\ s # "adding" /\ s # "finishing" => N(pc', s) = N(pc, s)
    <3>1. CASE pc'[w] = "adding"
      BY <1>n, <2>1, <3>1, OneMoves
    <3>2. CASE pc'[w] = "finishing"
      BY <1>n, <2>1, <3>2, OneMoves
    <3>. QED  BY <2>1, <3>1, <3>2
  <2>. QED  BY <1>0, <1>n, <1>i, <2>1, <2>2 DEF WakeBound
<1>9. ASSUME NEW t \in Threads, Producer_add(t) PROVE Goal
  <2> DEFINE mid == [pc EXCEPT ![t] = Returned(t)]
  <2>1. /\ mid \in [Threads -> WorkerStates \cup LoopStates]
        /\ MovesOnly(pc, mid, t) /\ pc[t] = "adding" /\ mid[t] \in {"idle", "finishing"}
        /\ queue_cur' = queue_cur + 1 /\ queue_cur < QueueMax
        /\ pc' \in pthread_cond_signal(mid, "not_empty", "ready")
    BY <1>0, <1>9 DEF Producer_add, QueueFull, Returned, MovesOnly, WorkerStates,
                      LoopStates, SignalNotEmpty
  <2>. HIDE DEF mid
  <2>2. /\ N(mid, "adding") = N(pc, "adding") - 1
        /\ \A s : s # "adding" /\ s # "idle" /\ s # "finishing" => N(mid, s) = N(pc, s)
    <3>1. CASE mid[t] = "idle"
      BY <2>1, <3>1, OneMoves
    <3>2. CASE mid[t] = "finishing"
      BY <2>1, <3>2, OneMoves
    <3>. QED  BY <2>1, <3>1, <3>2
  <2>3. \/ N(mid, "not_empty") = 0 /\ pc' = mid
        \/ /\ N(pc', "not_empty") = N(mid, "not_empty") - 1
           /\ N(pc', "ready") = N(mid, "ready") + 1
           /\ \A s : s # "not_empty" /\ s # "ready" => N(pc', s) = N(mid, s)
    <3>1. "not_empty" # "ready"
      OBVIOUS
    <3>. QED  BY <2>1, <3>1, SignalN
  <2>4. CASE N(mid, "not_empty") = 0 /\ pc' = mid
    BY <1>0, <1>n, <1>i, <2>1, <2>2, <2>4 DEF WakeBound
  <2>5. CASE /\ N(pc', "not_empty") = N(mid, "not_empty") - 1
             /\ N(pc', "ready") = N(mid, "ready") + 1
             /\ \A s : s # "not_empty" /\ s # "ready" => N(pc', s) = N(mid, s)
    BY <1>0, <1>n, <1>i, <2>1, <2>2, <2>5 DEF WakeBound
  <2>. QED  BY <2>3, <2>4, <2>5
<1>10. ASSUME NEW w \in Workers, Custom_take(w) PROVE Goal
  <2> DEFINE mid == [pc EXCEPT ![w] = "running"]
  <2>1. /\ mid \in [Threads -> WorkerStates \cup LoopStates] /\ w \in Threads
        /\ MovesOnly(pc, mid, w) /\ pc[w] = "ready" /\ mid[w] = "running"
        /\ queue_cur' = queue_cur - 1 /\ queue_cur # 0
        /\ pc' \in pthread_cond_signal(mid, "not_full", "adding")
    BY <1>0, <1>10 DEF Custom_take, MovesOnly, WorkerStates, LoopStates, SignalNotFull
  <2>. HIDE DEF mid
  <2>2. /\ N(mid, "ready") = N(pc, "ready") - 1
        /\ \A s : s # "ready" /\ s # "running" => N(mid, s) = N(pc, s)
    BY <2>1, OneMoves
  <2>3. \/ N(mid, "not_full") = 0 /\ pc' = mid
        \/ /\ N(pc', "not_full") = N(mid, "not_full") - 1
           /\ N(pc', "adding") = N(mid, "adding") + 1
           /\ \A s : s # "not_full" /\ s # "adding" => N(pc', s) = N(mid, s)
    <3>1. "not_full" # "adding"
      OBVIOUS
    <3>. QED  BY <2>1, <3>1, SignalN
  <2>4. CASE N(mid, "not_full") = 0 /\ pc' = mid
    BY <1>0, <1>n, <1>i, <2>1, <2>2, <2>4 DEF WakeBound
  <2>5. CASE /\ N(pc', "not_full") = N(mid, "not_full") - 1
             /\ N(pc', "adding") = N(mid, "adding") + 1
             /\ \A s : s # "not_full" /\ s # "adding" => N(pc', s) = N(mid, s)
    BY <1>0, <1>n, <1>i, <2>1, <2>2, <2>5 DEF WakeBound
  <2>. QED  BY <2>3, <2>4, <2>5
<1>11. ASSUME NEW w \in Workers, Manager_create(w) PROVE Goal
  <2>1. /\ pc[w] = "unborn" /\ w \in Threads /\ queue_cur' = queue_cur
        /\ \/ pc' = pc
           \/ MovesOnly(pc, pc', w) /\ pc'[w] \in {"ready", "exited"}
    BY <1>0, <1>11 DEF Manager_create, FreeSlots, if_thread_alive, pthread_kill, ESRCH,
                       MovesOnly, ring
  <2>2. CASE pc' = pc
    BY <1>i, <2>1, <2>2
  <2>3. CASE MovesOnly(pc, pc', w) /\ pc'[w] = "ready"
    <3>1. /\ N(pc', "ready") = N(pc, "ready") + 1
          /\ \A s : s # "unborn" /\ s # "ready" => N(pc', s) = N(pc, s)
      BY <2>1, <2>3, OneMoves
    <3>. QED  BY <1>0, <1>n, <1>i, <2>1, <3>1 DEF WakeBound
  <2>4. CASE MovesOnly(pc, pc', w) /\ pc'[w] = "exited"
    <3>1. /\ N(pc', "exited") = N(pc, "exited") + 1
          /\ \A s : s # "unborn" /\ s # "exited" => N(pc', s) = N(pc, s)
      BY <2>1, <2>4, OneMoves
    <3>. QED  BY <1>0, <1>n, <1>i, <2>1, <3>1 DEF WakeBound
  <2>. QED  BY <2>1, <2>2, <2>3, <2>4
<1>12. CASE Manager_sample \/ Manager_noSlot \/ Manager_shrink \/ UNCHANGED vars
  BY <1>12, <1>i DEF Manager_sample, Manager_noSlot, Manager_shrink, vars, ring
<1>13. CASE Manager_signal
  <2>1. pc' \in pthread_cond_signal(pc, "not_empty", "ready") /\ queue_cur' = queue_cur
    BY <1>13 DEF Manager_signal, SignalNotEmpty, ring
  <2>2. \/ pc' = pc
        \/ /\ N(pc', "ready") = N(pc, "ready") + 1
           /\ N(pc', "not_empty") = N(pc, "not_empty") - 1
           /\ \A s : s # "not_empty" /\ s # "ready" => N(pc', s) = N(pc, s)
    <3>1. "not_empty" # "ready"
      OBVIOUS
    <3>. QED  BY <1>0, <2>1, <3>1, SignalN
  <2>. QED  BY <1>0, <1>n, <1>i, <2>1, <2>2 DEF WakeBound
<1>. QED  BY <1>1, <1>2, <1>3, <1>4, <1>5, <1>6, <1>7, <1>8, <1>9, <1>10, <1>11,
             <1>12, <1>13
          DEF Next, Producer, Custom, Manager

LEMMA WakeInvariant == Spec => []WakeInv
BY WakeInvInit, WakeInvStep, PoolInvariant, PTL DEF Spec

(* While a worker sleeps on not_empty, there are no more waiting tasks than *)
(* workers awake on their way to the queue and workers retired: only a      *)
(* retirement loses a wakeup, never a producer or the manager.              *)
THEOREM ConsumersAreWoken == Spec => []NoLostWakeup
<1>1. WakeInv => NoLostWakeup
  BY DEF WakeInv
<1>. QED  BY <1>1, WakeInvariant, PTL

(* While a producer sleeps on not_full, every free entry of the ring has an *)
(* awake producer on its way to it: one signal per task taken is enough,    *)
(* although a worker that submits from inside a task sleeps there too.      *)
THEOREM ProducersAreWoken == Spec => []NoLostSpace
<1>1. WakeInv => NoLostSpace
  BY DEF WakeInv
<1>. QED  BY <1>1, WakeInvariant, PTL

-----------------------------------------------------------------------------
(* The pool implements TaskFifo. *)

(* Entry i of the queue is entry i of the ring, counted from queue_rear. *)
IsWaiting(q) == /\ q \in Seq(Task)
                /\ Len(q) = queue_cur
                /\ \A i \in 1..queue_cur :
                     q[i] = queue_task[(queue_rear + (i - 1)) % QueueMax]

LEMMA WaitingSeq == PoolInv => IsWaiting(Waiting)
<1>. SUFFICES ASSUME PoolInv PROVE IsWaiting(Waiting)
  OBVIOUS
<1>1. queue_cur \in Nat /\ queue_cur <= QueueMax /\ QueueMax \in Nat /\ queue_rear \in Nat
  BY PoolAssumption DEF PoolInv, TypeOK
<1>2. ASSUME NEW i \in 1..queue_cur
      PROVE  /\ Waiting[i] = queue_task[(queue_rear + (i - 1)) % QueueMax]
             /\ Waiting[i] \in Task
  <2>1. queue_rear + i - 1 = queue_rear + (i - 1)
    BY <1>1
  <2>2. Waiting[i] = queue_task[(queue_rear + (i - 1)) % QueueMax]
    BY <2>1 DEF Waiting
  <2>3. i - 1 \in 0..(QueueMax - 1) /\ i - 1 < queue_cur
    BY <1>1
  <2>4. queue_task[(queue_rear + (i - 1)) % QueueMax] \in Task
    BY <2>3 DEF PoolInv, RingOK
  <2>. QED  BY <2>2, <2>4
<1>3. Waiting \in [1..queue_cur -> Task]
  BY <1>2 DEF Waiting
<1>4. Waiting \in Seq(Task) /\ Len(Waiting) = queue_cur
  BY <1>1, <1>3, SeqDef, LenProperties
<1>. QED  BY <1>2, <1>4 DEF IsWaiting

LEMMA FifoInit == Init => Fifo!Init
<1>. SUFFICES ASSUME Init PROVE Fifo!Init
  OBVIOUS
<1>1. Waiting = <<>>
  <2>1. IsWaiting(Waiting) /\ queue_cur = 0
    BY PoolInvInit, WaitingSeq DEF Init
  <2>. QED  BY <2>1, EmptySeq DEF IsWaiting
<1>2. Held = [w \in Workers |-> NoTask]
  BY DEF Init, Held, Busy, Threads, Workers, EventLoop
<1>. QED  BY <1>1, <1>2 DEF Fifo!Init

(* Held only depends on which workers are busy and on their tasks. *)
LEMMA HeldSame ==
  ASSUME \A w \in Workers : /\ pc'[w] \in BusyStates <=> pc[w] \in BusyStates
                            /\ pc[w] \in BusyStates => task'[w] = task[w]
  PROVE  Held' = Held
<1>1. \A w \in Workers : w \in Busy' <=> w \in Busy
  BY DEF Busy, BusyStates
<1>2. \A w \in Busy : task'[w] = task[w]
  BY DEF Busy, BusyStates
<1>. QED  BY <1>1, <1>2 DEF Held

LEMMA WaitingSame == UNCHANGED ring => Waiting' = Waiting
BY DEF ring, Waiting

LEMMA SignalKeepsBusy ==
  ASSUME NEW at \in [Threads -> WorkerStates \cup LoopStates],
         NEW cond, NEW resume, Wakes(cond, resume),
         NEW new \in pthread_cond_signal(at, cond, resume), NEW w \in Workers
  PROVE  new[w] \in BusyStates <=> at[w] \in BusyStates
<1>1. ASSUME NEW t \in Threads, at[t] = cond, new = [at EXCEPT ![t] = resume]
      PROVE  new[w] \in BusyStates <=> at[w] \in BusyStates
  BY <1>1 DEF Wakes, Threads, BusyStates
<1>. QED  BY <1>1, Signalled

LEMMA FifoStep == PoolInv /\ PoolInv' /\ [Next]_vars => [Fifo!Next]_(Fifo!vars)
<1>. SUFFICES ASSUME PoolInv, PoolInv', [Next]_vars
              PROVE  Fifo!Next \/ (Waiting' = Waiting /\ Held' = Held)
  BY DEF Fifo!vars
<1> DEFINE Goal == Fifo!Next \/ (Waiting' = Waiting /\ Held' = Held)
<1>0. /\ pc \in [Threads -> WorkerStates \cup LoopStates]
      /\ Workers \subseteq Threads /\ EventLoop \in Threads /\ EventLoop \notin Workers
      /\ queue_cur \in 0..QueueMax /\ QueueMax \in Nat
      /\ queue_rear \in 0..(QueueMax - 1) /\ queue_front \in 0..(QueueMax - 1)
      /\ queue_task \in [0..(QueueMax - 1) -> Task \cup {NoTask}]
      /\ task \in [Threads -> Task \cup {NoTask}]
  BY PoolAssumption DEF PoolInv, TypeOK, WorkerStates, LoopStates, Threads, Workers, EventLoop
<1>w. IsWaiting(Waiting)
  BY WaitingSeq
<1>v. IsWaiting(Waiting)'
  <2>1. (PoolInv => IsWaiting(Waiting))'
    BY WaitingSeq, PTL
  <2>. QED  BY <2>1
<1>1. ASSUME NEW e \in Events, recv_event(e) PROVE Goal
  BY <1>0, <1>1, HeldSame, WaitingSame DEF recv_event
<1>2. ASSUME NEW t \in Threads, Producer_wait(t) \/ SpuriousWakeup(t) PROVE Goal
  BY <1>0, <1>2, HeldSame, WaitingSame DEF Producer_wait, SpuriousWakeup, BusyStates
<1>3. ASSUME NEW w \in Workers,
             Custom_wait(w) \/ Custom_retire(w) \/ recv_task(w) \/ Buffer_Deal(w)
      PROVE  Goal
  <2>1. UNCHANGED ring
    BY <1>3 DEF Custom_wait, Custom_retire, recv_task, Buffer_Deal
  <2>2. \A v \in Workers : pc'[v] \in BusyStates <=> pc[v] \in BusyStates
    BY <1>0, <1>3 DEF Custom_wait, Custom_retire, recv_task, Buffer_Deal, BusyStates
  <2>3. UNCHANGED task
    BY <1>3 DEF Custom_wait, Custom_retire, recv_task, Buffer_Deal
  <2>. QED  BY <2>1, <2>2, <2>3, HeldSame, WaitingSame
<1>4. ASSUME NEW t \in Threads, Producer_add(t) PROVE Goal
  <2>1. Held' = Held
    <3> DEFINE mid == [pc EXCEPT ![t] = Returned(t)]
    <3>1. /\ mid \in [Threads -> WorkerStates \cup LoopStates]
          /\ \A w \in Workers : mid[w] \in BusyStates <=> pc[w] \in BusyStates
          /\ pc' \in pthread_cond_signal(mid, "not_empty", "ready")
          /\ UNCHANGED task
      BY <1>0, <1>4 DEF Producer_add, Returned, WorkerStates, LoopStates, BusyStates,
                        SignalNotEmpty
    <3>2. Wakes("not_empty", "ready")
      BY DEF Wakes
    <3>. HIDE DEF mid
    <3>. QED  BY <3>1, <3>2, SignalKeepsBusy, HeldSame
  <2>2. Submitted(t) \in Task
    BY <1>4 DEF Producer_add, PoolInv, TaskHeld, BusyStates, Submitted, Deal, Task
  <2>3. /\ queue_cur < QueueMax /\ queue_cur' = queue_cur + 1 /\ queue_rear' = queue_rear
        /\ queue_task' = [queue_task EXCEPT ![(queue_rear + queue_cur) % QueueMax] = Submitted(t)]
    BY <1>0, <1>4 DEF Producer_add, QueueFull, PoolInv, RingOK
  <2>4. Waiting' = Append(Waiting, Submitted(t))
    <3>1. /\ Append(Waiting, Submitted(t)) \in Seq(Task)
          /\ Len(Append(Waiting, Submitted(t))) = queue_cur + 1
          /\ Append(Waiting, Submitted(t))[queue_cur + 1] = Submitted(t)
          /\ \A i \in 1..queue_cur : Append(Waiting, Submitted(t))[i] = Waiting[i]
      BY <1>w, <2>2, AppendProperties DEF IsWaiting
    <3>2. ASSUME NEW i \in 1..(queue_cur + 1)
          PROVE  Waiting'[i] = Append(Waiting, Submitted(t))[i]
      <4>1. Waiting'[i] = queue_task'[(queue_rear + (i - 1)) % QueueMax]
        BY <1>v, <2>3 DEF IsWaiting
      <4>2. CASE i = queue_cur + 1
        <5>1. i - 1 = queue_cur /\ queue_cur \in 0..(QueueMax - 1)
          BY <1>0, <2>3, <4>2
        <5>2. (queue_rear + queue_cur) % QueueMax \in 0..(QueueMax - 1)
          BY <1>0, <5>1, RingSteps
        <5>3. Waiting'[i] = queue_task'[(queue_rear + queue_cur) % QueueMax]
          BY <4>1, <5>1
        <5>4. queue_task'[(queue_rear + queue_cur) % QueueMax] = Submitted(t)
          BY <1>0, <2>3, <5>2
        <5>5. Append(Waiting, Submitted(t))[i] = Submitted(t)
          BY <3>1, <4>2
        <5>. QED  BY <5>3, <5>4, <5>5
      <4>3. CASE i \in 1..queue_cur
        <5>1. i - 1 \in 0..(QueueMax - 1) /\ queue_cur \in 0..(QueueMax - 1) /\ i - 1 < queue_cur
          BY <1>0, <2>3, <4>3
        <5>2. (queue_rear + (i - 1)) % QueueMax # (queue_rear + queue_cur) % QueueMax
          <6>1. \A j, k \in 0..(QueueMax - 1) :
                  j < k => (queue_rear + j) % QueueMax # (queue_rear + k) % QueueMax
            BY <1>0, RingSteps
          <6>. QED  BY <5>1, <6>1
        <5>3. (queue_rear + (i - 1)) % QueueMax \in 0..(QueueMax - 1)
          BY <1>0, <5>1, RingSteps
        <5>4. Waiting'[i] = queue_task[(queue_rear + (i - 1)) % QueueMax]
          BY <1>0, <2>3, <4>1, <5>2, <5>3
        <5>. QED  BY <1>w, <3>1, <4>3, <5>4 DEF IsWaiting
      <4>4. i = queue_cur + 1 \/ i \in 1..queue_cur
        <5>1. queue_cur \in Nat
          BY <1>0
        <5>. QED  BY <5>1
      <4>. QED  BY <4>2, <4>3, <4>4
    <3>3. Waiting' \in Seq(Task) /\ Len(Waiting') = queue_cur + 1
      BY <1>v, <2>3 DEF IsWaiting
    <3>. QED  BY <3>1, <3>2, <3>3, SeqEqual
  <2>5. Len(Waiting) < QueueMax
    BY <1>w, <2>3 DEF IsWaiting
  <2>. QED  BY <2>1, <2>2, <2>4, <2>5 DEF Fifo!Next, Fifo!Submit
<1>5. ASSUME NEW w \in Workers, Custom_take(w) PROVE Goal
  <2>1. /\ queue_cur # 0 /\ queue_cur' = queue_cur - 1 /\ queue_task' = queue_task
        /\ queue_rear' = NextSlot(queue_rear)
        /\ task' = [task EXCEPT ![w] = queue_task[queue_rear]]
        /\ pc[w] = "ready"
    BY <1>5 DEF Custom_take, TakenTask
  <2>2. Waiting # <<>> /\ Head(Waiting) = queue_task[queue_rear]
    <3>1. Waiting # <<>>
      BY <1>0, <1>w, <2>1, EmptySeq DEF IsWaiting
    <3>2. Head(Waiting) = Waiting[1]
      BY <3>1, <1>w DEF IsWaiting
    <3>3. Waiting[1] = queue_task[(queue_rear + (1 - 1)) % QueueMax]
      BY <1>0, <1>w, <2>1 DEF IsWaiting
    <3>4. (queue_rear + (1 - 1)) % QueueMax = queue_rear
      <4>1. queue_rear \in 0..(QueueMax - 1)
        BY <1>0
      <4>2. (queue_rear + 0) % QueueMax = queue_rear
        BY <4>1, RingSteps
      <4>3. 1 - 1 = 0
        OBVIOUS
      <4>. QED  BY <4>2, <4>3
    <3>. QED  BY <3>1, <3>2, <3>3, <3>4
  <2>3. Waiting' = Tail(Waiting)
    <3>1. /\ Tail(Waiting) \in Seq(Task) /\ Len(Tail(Waiting)) = queue_cur - 1
          /\ \A i \in 1..(queue_cur - 1) : Tail(Waiting)[i] = Waiting[i + 1]
      BY <1>w, <2>2, HeadTailProperties DEF IsWaiting
    <3>2. Waiting' \in Seq(Task) /\ Len(Waiting') = queue_cur - 1
      BY <1>v, <2>1 DEF IsWaiting
    <3>3. ASSUME NEW i \in 1..(queue_cur - 1)
          PROVE  Waiting'[i] = Tail(Waiting)[i]
      <4>1. i - 1 \in 0..(QueueMax - 1) /\ (i - 1) + 1 = i /\ (i + 1) - 1 = i
            /\ i + 1 \in 1..queue_cur
        BY <1>0
      <4>2. (NextSlot(queue_rear) + (i - 1)) % QueueMax = (queue_rear + ((i - 1) + 1)) % QueueMax
        BY <1>0, <4>1, RingSteps
      <4>3. Waiting'[i] = queue_task[(queue_rear + i) % QueueMax]
        BY <1>v, <2>1, <4>1, <4>2 DEF IsWaiting
      <4>4. Waiting[i + 1] = queue_task[(queue_rear + i) % QueueMax]
        <5>1. Waiting[i + 1] = queue_task[(queue_rear + ((i + 1) - 1)) % QueueMax]
          BY <1>w, <4>1 DEF IsWaiting
        <5>. QED  BY <4>1, <5>1
      <4>. QED  BY <3>1, <4>3, <4>4
    <3>. QED  BY <3>1, <3>2, <3>3, SeqEqual
  <2>4. Held[w] = NoTask /\ Held' = [Held EXCEPT ![w] = queue_task[queue_rear]]
    <3> DEFINE mid == [pc EXCEPT ![w] = "running"]
    <3>1. /\ mid \in [Threads -> WorkerStates \cup LoopStates]
          /\ mid[w] = "running" /\ \A v \in Workers : v # w => mid[v] = pc[v]
          /\ pc' \in pthread_cond_signal(mid, "not_full", "adding")
      BY <1>0, <1>5 DEF Custom_take, WorkerStates, LoopStates, SignalNotFull
    <3>2. Wakes("not_full", "adding")
      BY DEF Wakes
    <3>. HIDE DEF mid
    <3>3. \A v \in Workers : pc'[v] \in BusyStates <=> mid[v] \in BusyStates
      BY <3>1, <3>2, SignalKeepsBusy
    <3>4. w \in Busy' /\ w \notin Busy /\ \A v \in Workers : v # w => (v \in Busy' <=> v \in Busy)
      BY <2>1, <3>1, <3>3 DEF Busy, BusyStates
    <3>5. task'[w] = queue_task[queue_rear] /\ \A v \in Workers : v # w => task'[v] = task[v]
      BY <1>0, <2>1
    <3>. QED  BY <3>4, <3>5 DEF Held
  <2>. QED  BY <2>2, <2>3, <2>4 DEF Fifo!Next, Fifo!Take
<1>6. ASSUME NEW w \in Workers, Custom_done(w) PROVE Goal
  <2>1. Waiting' = Waiting
    BY <1>6, WaitingSame DEF Custom_done
  <2>2. w \in Busy /\ w \notin Busy' /\ \A v \in Workers : v # w => (v \in Busy' <=> v \in Busy)
    BY <1>0, <1>6 DEF Custom_done, Busy
  <2>3. task[w] \in Task /\ NoTask \notin Task
    BY <1>0, <1>6, PoolAssumption DEF Custom_done, PoolInv, TaskHeld, BusyStates
  <2>4. \A v \in Workers : v # w => task'[v] = task[v]
    BY <1>0, <1>6 DEF Custom_done
  <2>5. Held[w] # NoTask /\ Held' = [Held EXCEPT ![w] = NoTask]
    BY <2>2, <2>3, <2>4 DEF Held
  <2>. QED  BY <2>1, <2>5 DEF Fifo!Next, Fifo!Finish
<1>7. CASE Manager_sample \/ Manager_noSlot \/ Manager_shrink \/ UNCHANGED vars
  <2>1. UNCHANGED <<ring, pc, task>>
    BY <1>7 DEF Manager_sample, Manager_noSlot, Manager_shrink, vars
  <2>. QED  BY <2>1, HeldSame, WaitingSame
<1>8. ASSUME NEW w \in Workers, Manager_create(w) PROVE Goal
  <2>1. pc[w] = "unborn"
    BY <1>8 DEF Manager_create, FreeSlots, if_thread_alive, pthread_kill, ESRCH
  <2>2. \A v \in Workers : pc'[v] \in BusyStates <=> pc[v] \in BusyStates
    BY <1>0, <1>8, <2>1 DEF Manager_create, BusyStates
  <2>3. UNCHANGED <<ring, task>>
    BY <1>8 DEF Manager_create
  <2>. QED  BY <2>2, <2>3, HeldSame, WaitingSame
<1>9. CASE Manager_signal
  <2>1. pc' \in pthread_cond_signal(pc, "not_empty", "ready") /\ UNCHANGED <<ring, task>>
    BY <1>9 DEF Manager_signal, SignalNotEmpty
  <2>2. Wakes("not_empty", "ready")
    BY DEF Wakes
  <2>. QED  BY <1>0, <2>1, <2>2, SignalKeepsBusy, HeldSame, WaitingSame
<1>. QED  BY <1>1, <1>2, <1>3, <1>4, <1>5, <1>6, <1>7, <1>8, <1>9
          DEF Next, Producer, Custom, Manager

(* The ring buffer, its two indices, its counter, the condition variables   *)
(* and the manager together are a bounded first-in first-out queue: every   *)
(* task goes to one worker, in the order of submission.                     *)
THEOREM PoolImplementsFifo == Spec => ImplementsFifo
<1>1. PoolInv /\ [Next]_vars => PoolInv'
  BY PoolInvStep
<1>. QED  BY <1>1, FifoInit, FifoStep, PoolInvariant, PTL DEF Spec, ImplementsFifo, Fifo!Spec
=============================================================================
