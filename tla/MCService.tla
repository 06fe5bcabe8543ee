----------------------------- MODULE MCService ------------------------------
(* Model-checking instances of Service.  The number t1 is registered by two *)
(* clients, the number t2 was before.                                       *)
EXTENDS Service

register(c, tel, pw) == [type |-> "REGISTER_RQ", client |-> c, tel |-> tel, password |-> pw]
login(c, tel, pw)    == [type |-> "LOGIN_RQ", client |-> c, tel |-> tel, password |-> pw]
play(u, fid)         == [type |-> "PLAY_VIDEO_RQ", u_id |-> u, f_id |-> fid]
other(type)          == [type |-> type]

Before == << [u_tel |-> "t2", u_password |-> "p2"] >>
View == { [u_id |-> 1, f_id |-> 1, f_md5 |-> "m"], [u_id |-> 2, f_id |-> 1, f_md5 |-> "m"] }

(* The owner and a rival; users of t2, at two clients, beside a newcomer;   *)
(* viewers of one content, of a file that is gone, and packets of no use.   *)
Rivals  == { register("a", "t1", "pa"), register("b", "t1", "pb"),
             login("a", "t1", "pa"), login("c", "t1", "pb") }
Online  == { register("a", "t1", "pa"), login("a", "t1", "pa"),
             login("b", "t2", "p2"), login("c", "t2", "p2") }
Viewers == { play(1, 1), play(2, 1), play(1, 7), other("LOGIN_RS"), other("OUTSIDE") }

Groups == {Rivals, Online, Viewers}
Asked  == UNION Groups
=============================================================================
