--------------------------- MODULE MCConnections ---------------------------
(* Model-checking instances of Connections. *)
EXTENDS Connections, TLC

(* Clients, socket numbers and workers are only compared for equality; the  *)
(* kernel's rule of giving out the lowest free number is not used.          *)
Symmetry == Permutations(Senders) \cup Permutations(Clients \ Senders)
            \cup Permutations(Fds) \cup Permutations(Workers)
=============================================================================
