------------------------------ MODULE TaskFifo ------------------------------
(***************************************************************************)
(* What the thread pool promises to the code that hands it work: a bounded *)
(* first-in first-out queue of tasks.  A submitted task is handed to       *)
(* exactly one worker, tasks are handed out in the order they were         *)
(* submitted, and a worker executes one task at a time.  Nothing is said   *)
(* about how many workers there are, who wakes whom, or where the entries  *)
(* are stored: ThreadPool shows that its ring buffer, counters, condition  *)
(* variables and manager thread keep this promise.                         *)
(***************************************************************************)
EXTENDS Naturals, Sequences

CONSTANTS
  Capacity,   \* how many tasks may wait
  Workers,    \* the threads that execute tasks
  Task,       \* the tasks
  NoTask      \* what a worker that executes nothing holds

VARIABLES
  queue,      \* the tasks waiting, oldest first
  held        \* the task each worker is executing, or NoTask

vars == <<queue, held>>

Init == /\ queue = <<>>
        /\ held = [w \in Workers |-> NoTask]

Submit(t) == /\ Len(queue) < Capacity
             /\ queue' = Append(queue, t)
             /\ UNCHANGED held

Take(w) == /\ held[w] = NoTask
           /\ queue # <<>>
           /\ held' = [held EXCEPT ![w] = Head(queue)]
           /\ queue' = Tail(queue)

Finish(w) == /\ held[w] # NoTask
             /\ held' = [held EXCEPT ![w] = NoTask]
             /\ UNCHANGED queue

Next == \/ \E t \in Task : Submit(t)
        \/ \E w \in Workers : Take(w) \/ Finish(w)

Spec == Init /\ [][Next]_vars
=============================================================================
