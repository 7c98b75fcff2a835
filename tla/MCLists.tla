------------------------------ MODULE MCLists ------------------------------
(***************************************************************************)
(* Small instances of Forum and Lists for TLC: the scenes of one run.      *)
(***************************************************************************)
EXTENDS Lists, TLC

CONSTANTS ann, bob, root

Play(ops, users, p, c, v, t) ==
    [ops |-> ops, users |-> users, posts |-> p, comments |-> c, views |-> v, time |-> t]

Likes == Play({"post", "like", "delete"}, User, 1, 0, 0, 0)
Talk == Play({"post", "lock", "comment", "delete"}, User, 1, 2, 0, 0)
Moderation == Play({"post", "edit", "delete", "comment", "uncomment"}, User, 2, 2, 0, 0)
Answers == Play({"post", "pin", "view"}, User, 1, 0, 1, 0)
Feed == Play({"post", "delete", "feed"}, {ann, bob}, 3, 0, 0, 1)
Related == Play({"friends", "requests", "blocks"}, User, 0, 0, 0, 0)
Search == Play({"search"}, User, 0, 0, 0, 0)
AllScenes == {Likes, Talk, Moderation, Answers, Feed, Related, Search}

Keys == {<<1, 1>>, <<1, 2>>, <<2, 1>>, <<2, 3>>, <<3, 2>>}
Ranks == 1 .. 6

Symmetry == Permutations({ann, bob}) \cup Permutations(Task)
=============================================================================
