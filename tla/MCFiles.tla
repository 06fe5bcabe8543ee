------------------------------ MODULE MCFiles -------------------------------
(* Model-checking instances of Files: two users, and a folder of the first  *)
(* with a folder inside; one content that both have.                        *)
EXTENDS Files

file(path, md5) == FileRow(Append(path, md5), md5, "file", 1)
folder(path) == FileRow(path, "?", "folder", 1)

Tree == << file(<<"u1">>, "shared"), folder(<<"u1", "d">>), file(<<"u1", "d">>, "inside"),
           folder(<<"u1", "d", "e">>), file(<<"u1", "d", "e">>, "deep") >>

Owned == { Row("u1", 1, <<>>, "shared"), Row("u2", 1, <<>>, "shared"),
           Row("u1", 2, <<>>, "d"), Row("u1", 3, <<"d">>, "inside"),
           Row("u1", 4, <<"d">>, "e"), Row("u1", 5, <<"d", "e">>, "deep") }

(* A third user, and a directory of the second one with the same name.      *)
Tree3  == Tree \o << folder(<<"u2", "d">>), file(<<"u2", "d">>, "private") >>
Owned3 == Owned \cup { Row("u2", 6, <<>>, "d"), Row("u2", 7, <<"d">>, "private") }

delete(u, dir, ids)    == [fn |-> "deleteFile", u |-> u, dir |-> dir, ids |-> ids]
share(u, dir, ids)     == [fn |-> "shareFile", u |-> u, dir |-> dir, ids |-> ids]
take(u, dir, link)     == [fn |-> "getShareByLink", u |-> u, dir |-> dir, link |-> link]
make(u, dir, name)     == [fn |-> "addFolder", u |-> u, dir |-> dir, name |-> name]
upload(u, dir, md5)    == [fn |-> "uploadFile", u |-> u, dir |-> dir, md5 |-> md5]

(* Deletions, one inside another, against uploads of the same content into  *)
(* the same folder and by another user.                                     *)
Deleting == { delete("u1", <<>>, {1, 2}), delete("u1", <<"d">>, {3}), delete("u2", <<>>, {1}),
              upload("u1", <<"d">>, "inside"), upload("u2", <<>>, "inside") }

(* A file and a folder that are shared and taken into a new folder, while   *)
(* they are deleted and another share is made.                              *)
Shares == { share("u1", <<>>, {1, 2}), share("u2", <<>>, {1}), make("u2", <<>>, "in"),
              take("u2", <<"in">>, 1), take("u2", <<>>, 1), delete("u1", <<>>, {1, 2}),
              upload("u2", <<"in">>, "deep") }

ByAThird == { share("u1", <<>>, {2}), take("u3", <<>>, 1) }
=============================================================================
