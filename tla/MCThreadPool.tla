---------------------------- MODULE MCThreadPool ----------------------------
(* Model-checking instances of ThreadPool. *)
EXTENDS ThreadPool, TLC

(* Events are only submitted and carried, never compared with one another. *)
EventSymmetry == Permutations(Events)
=============================================================================
