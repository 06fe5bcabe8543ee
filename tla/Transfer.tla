------------------------------ MODULE Transfer ------------------------------
(***************************************************************************)
(* What the server promises to the sender of a file, however often the     *)
(* connection or the process ends: the bytes that are stored are those of  *)
(* the file from its first one on and are never lost again; the sender is  *)
(* told of no byte that is not stored; and the file is called complete     *)
(* only when all are.  Nothing is promised once a call that the protocol   *)
(* has no answer for has gone wrong (broken).                              *)
(***************************************************************************)
EXTENDS Naturals

CONSTANTS Copies, Size
VARIABLES stored, acked, whole, broken

vars == <<stored, acked, whole, broken>>

Store(c) ==
  /\ ~whole[c]
  /\ \E n \in stored[c]..Size : stored' = [stored EXCEPT ![c] = n]
  /\ UNCHANGED <<acked, whole, broken>>

(* The sender may also be told to go back.                                  *)
Acknowledge(c) ==
  /\ \E n \in 0..stored[c] : acked' = [acked EXCEPT ![c] = n]
  /\ UNCHANGED <<stored, whole, broken>>

Finish(c) ==
  /\ stored[c] = Size
  /\ whole' = [whole EXCEPT ![c] = TRUE]
  /\ UNCHANGED <<stored, acked, broken>>

Init ==
  /\ stored = [c \in Copies |-> 0] /\ acked = stored
  /\ whole = [c \in Copies |-> FALSE] /\ ~broken

Next == broken' \/ \E c \in Copies : Store(c) \/ Acknowledge(c) \/ Finish(c)

Spec == Init /\ [][Next]_vars
=============================================================================
