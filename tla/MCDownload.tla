----------------------------- MODULE MCDownload -----------------------------
(* Model-checking instances of Download: a folder with a folder inside, or  *)
(* two folders that are asked for one second after the other.               *)
EXTENDS Download

Sizes == [f \in Files |-> IF f = "long" THEN 3 ELSE IF f = "empty" THEN 0 ELSE 1]

Tree    == [outer |-> <<"long", "inner", "short">>, inner |-> <<"partial">>]
OneTree == {<<1, "outer">>}

Two       == [left |-> <<"short", "other">>, right |-> <<"long">>]
OneSecond == {<<1, "left">>, <<2, "right">>}
=============================================================================
