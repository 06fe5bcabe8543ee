------------------------------ MODULE MCUpload ------------------------------
(* Model-checking instances of Upload: two transfers, and what they share.  *)
EXTENDS Upload, TLC

Each       == [k \in Transfers |-> k]
Same       == [k \in Transfers |-> "same"]
OwnKey     == [k \in Transfers |-> <<"user_time", k>>]
OneTime    == [k \in Transfers |-> <<"timestamp", "same">>]
Timestamps == [k \in Transfers |-> <<"timestamp", k>>]

(* Each of these functions commutes with an exchange of transfers.          *)
Symmetry == Permutations(Transfers) \cup Permutations(Slots)
=============================================================================
