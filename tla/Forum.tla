------------------------------- MODULE Forum -------------------------------
(***************************************************************************)
(* The posts, likes and comments of src/src/forum.rs.  A handler is a few  *)
(* SQL statements without a transaction: each is a step here, and what one *)
(* has read may be stale when the next one runs.                           *)
(***************************************************************************)
EXTENDS Naturals, FiniteSets

CONSTANTS User, Admins,
          Task,         \* handler invocations that may be in flight
          Scenes,       \* what clients ask for, and how often: a bound
          None

VARIABLES scene,        \* the scene that is played
          now,          \* NOW(), in whole ticks
          posts,        \* id -> committed row of forum_posts
          likes,        \* <<post, user>>: rows of forum_post_likes
          comments,     \* id -> committed row of forum_comments
          postIds,      \* the sequence of forum_posts.id
          commentIds,   \* the sequence of forum_comments.id
          pc,           \* task -> the next statement of its handler
          call,         \* task -> the request it serves
          draft,        \* task -> the id and time its INSERT has drawn
          liked,        \* task -> what toggle_like has read
          since         \* task -> what has been true since it started

tables == <<posts, likes, comments>>
sequences == <<postIds, commentIds>>
locals == <<call, draft, liked>>
forumVars == <<scene, now, tables, sequences, pc, locals, since>>

Op == {"post", "view", "edit", "delete", "pin", "lock", "like", "comment", "uncomment"}

\* The operations and users of a scene, the rows there may be, the time it lasts.
Scene == [ops : SUBSET (Op \cup {"feed", "friends", "requests", "blocks", "search"}),
          users : SUBSET User,
          posts : Nat, comments : Nat, views : Nat, time : Nat]

ASSUME ForumAssumption ==
    Admins \subseteq User /\ Scenes \subseteq Scene /\ None \notin User

Post == [author : User, at : Nat, editor : User, pinned : BOOLEAN, locked : BOOLEAN,
         views : Nat]
Comment == [post : Nat, author : User]
Call == [op : Op, viewer : User, id : Nat]
Statement == {"idle", "author", "change", "exists", "read", "flip", "unlocked", "insert",
              "draw", "store", "fetch"}
NothingSince == [alone |-> FALSE, liked |-> FALSE]

ForumTypeOK ==
    /\ scene \in Scenes /\ now \in Nat
    /\ DOMAIN posts \subseteq 1 .. postIds /\ posts \in [DOMAIN posts -> Post]
    /\ likes \subseteq (DOMAIN posts) \X User
    /\ DOMAIN comments \subseteq 1 .. commentIds /\ comments \in [DOMAIN comments -> Comment]
    /\ \A c \in DOMAIN comments : comments[c].post \in DOMAIN posts
    /\ postIds \in Nat /\ commentIds \in Nat
    /\ pc \in [Task -> Statement]
    /\ call \in [Task -> Call \cup {None}]
    /\ draft \in [Task -> [id : Nat, at : Nat] \cup {None}]
    /\ liked \in [Task -> BOOLEAN]
    /\ since \in [Task -> [alone : BOOLEAN, liked : BOOLEAN]]

ForumInit ==
    /\ scene \in Scenes
    /\ now = 0
    /\ posts = << >> /\ likes = {} /\ comments = << >>
    /\ postIds = 0 /\ commentIds = 0
    /\ pc = [t \in Task |-> "idle"]
    /\ call = [t \in Task |-> None]
    /\ draft = [t \in Task |-> None]
    /\ liked = [t \in Task |-> FALSE]
    /\ since = [t \in Task |-> NothingSince]

-----------------------------------------------------------------------------
(* Bookkeeping of the properties *)

SameLike(t, c) == /\ pc[t] # "idle" /\ call[t].op = "like" /\ c.op = "like"
                  /\ call[t].viewer = c.viewer /\ call[t].id = c.id

\* As a call arrives: there is no other toggle of this like, and the like.
Arriving(c) == [alone |-> c.op = "like" /\ ~\E t \in Task : SameLike(t, c),
                liked |-> c.op = "like" /\ <<c.id, c.viewer>> \in likes]

\* It is forgotten when the call ends.
Watch == since' = [t \in Task |-> IF pc'[t] = "idle" THEN NothingSince ELSE since[t]]

-----------------------------------------------------------------------------
GoTo(t, statement) == pc' = [pc EXCEPT ![t] = statement] /\ UNCHANGED call
Finish(t) ==
    /\ pc' = [pc EXCEPT ![t] = "idle"]
    /\ call' = [call EXCEPT ![t] = None]

\* require_admin, which asks nothing of the database.
RequireAdmin(c) == c.op \in {"pin", "lock"} => c.viewer \in Admins

First(c) ==
    CASE c.op = "post" -> "draw"
      [] c.op \in {"edit", "delete", "uncomment"} /\ c.viewer \notin Admins -> "author"
      [] c.op = "like" -> "exists"
      [] c.op = "comment" -> "unlocked"
      [] OTHER -> "change"

Requests ==
    {c \in [op : scene.ops \cap Op, viewer : scene.users, id : 0 .. scene.posts + scene.comments] :
        c.id \in CASE c.op = "post" -> {0}
                   [] c.op = "uncomment" -> 1 .. scene.comments
                   [] OTHER -> 1 .. scene.posts}

\* A request with a valid cookie arrives for an id that may or may not exist.
Start(t) ==
    /\ pc[t] = "idle"
    /\ \E c \in Requests :
        /\ RequireAdmin(c)
        /\ call' = [call EXCEPT ![t] = c]
        /\ pc' = [pc EXCEPT ![t] = First(c)]
        /\ since' = [x \in Task |-> IF x = t THEN Arriving(c)
                                    ELSE IF SameLike(x, c) THEN [since[x] EXCEPT !.alone = FALSE]
                                    ELSE since[x]]
    /\ UNCHANGED <<scene, now, tables, sequences, draft, liked>>

-----------------------------------------------------------------------------
(* create_post: the INSERT takes its id and NOW(), and commits later *)

Draw(t) ==
    /\ pc[t] = "draw" /\ postIds < scene.posts
    /\ postIds' = postIds + 1
    /\ draft' = [draft EXCEPT ![t] = [id |-> postIds + 1, at |-> now]]
    /\ GoTo(t, "store")
    /\ UNCHANGED <<tables, commentIds, liked>>

NewPost(t) == [author |-> call[t].viewer, at |-> draft[t].at, editor |-> call[t].viewer,
               pinned |-> FALSE, locked |-> FALSE, views |-> 0]
Store(t) ==
    /\ pc[t] = "store"
    /\ posts' = [p \in DOMAIN posts \cup {draft[t].id} |->
                    IF p = draft[t].id THEN NewPost(t) ELSE posts[p]]
    /\ draft' = [draft EXCEPT ![t] = None]
    /\ Finish(t)
    /\ UNCHANGED <<likes, comments, sequences, liked>>

-----------------------------------------------------------------------------
(* modify_post, delete_post, delete_comment *)

Subjects(t) == IF call[t].op = "uncomment" THEN comments ELSE posts
\* Altered: the comment's id is looked up among the posts.
PostByThatId(t) ==
    call[t].id \in DOMAIN posts /\ posts[call[t].id].author = call[t].viewer
\* require_post_moderator, require_comment_moderator for who is no admin.
IsAuthor(t) ==
    /\ call[t].id \in DOMAIN Subjects(t)
    /\ Subjects(t)[call[t].id].author = call[t].viewer

CheckAuthor(t) ==
    /\ pc[t] = "author"
    /\ IF IsAuthor(t) THEN GoTo(t, "change") ELSE Finish(t)
    /\ UNCHANGED <<tables, sequences, draft, liked>>

\* The post of the call with its row replaced, if it is still there.
Updated(t, row) == [p \in DOMAIN posts |-> IF p = call[t].id THEN row ELSE posts[p]]

Edit(t) ==
    /\ pc[t] = "change" /\ call[t].op = "edit"
    /\ posts' = Updated(t, [posts[call[t].id] EXCEPT !.editor = call[t].viewer])
    /\ Finish(t)
    /\ UNCHANGED <<likes, comments, sequences, draft, liked>>

\* Altered: a foreign key without ON DELETE CASCADE, or none at all.
NothingElse(p) == UNCHANGED <<likes, comments>>
\* ON DELETE CASCADE of the likes and the comments.
Cascade(p) ==
    /\ likes' = {l \in likes : l[1] # p}
    /\ comments' = [c \in {d \in DOMAIN comments : comments[d].post # p} |-> comments[c]]

Delete(t) ==
    /\ pc[t] = "change" /\ call[t].op = "delete"
    /\ posts' = [p \in DOMAIN posts \ {call[t].id} |-> posts[p]]
    /\ Cascade(call[t].id)
    /\ Finish(t)
    /\ UNCHANGED <<sequences, draft, liked>>

Uncomment(t) ==
    /\ pc[t] = "change" /\ call[t].op = "uncomment"
    /\ comments' = [c \in DOMAIN comments \ {call[t].id} |-> comments[c]]
    /\ Finish(t)
    /\ UNCHANGED <<posts, likes, sequences, draft, liked>>

-----------------------------------------------------------------------------
(* toggle_pin, toggle_lock: one UPDATE each, then the post for the answer *)

\* What the one UPDATE of the handler makes of the row.
Toggled(op, row) ==
    IF op = "pin" THEN [row EXCEPT !.pinned = ~@] ELSE [row EXCEPT !.locked = ~@]

Toggle(t) ==
    /\ pc[t] = "change" /\ call[t].op \in {"pin", "lock"}
    /\ posts' = Updated(t, Toggled(call[t].op, posts[call[t].id]))
    /\ IF call[t].id \in DOMAIN posts THEN GoTo(t, "fetch") ELSE Finish(t)
    /\ UNCHANGED <<likes, comments, sequences, draft, liked>>

\* get_post counts the view before it looks whether there is such a post.
CountView(t) ==
    /\ pc[t] = "change" /\ call[t].op = "view"
    /\ call[t].id \in DOMAIN posts => posts[call[t].id].views < scene.views
    /\ posts' = Updated(t, [posts[call[t].id] EXCEPT !.views = @ + 1])
    /\ GoTo(t, "fetch")
    /\ UNCHANGED <<likes, comments, sequences, draft, liked>>

\* fetch_post_by_id, for the answer.
Fetch(t) ==
    /\ pc[t] = "fetch"
    /\ Finish(t)
    /\ UNCHANGED <<tables, sequences, draft, liked>>

-----------------------------------------------------------------------------
(* toggle_like: three statements *)

LikeOf(t) == <<call[t].id, call[t].viewer>>

CheckExists(t) ==
    /\ pc[t] = "exists"
    /\ IF call[t].id \in DOMAIN posts THEN GoTo(t, "read") ELSE Finish(t)
    /\ UNCHANGED <<tables, sequences, draft, liked>>

\* Altered: any like of the post counts as the viewer's.
ReadAnyLike(t) ==
    /\ pc[t] = "read"
    /\ liked' = [liked EXCEPT ![t] = \E l \in likes : l[1] = call[t].id]
    /\ GoTo(t, "flip")
    /\ UNCHANGED <<tables, sequences, draft>>
ReadLike(t) ==
    /\ pc[t] = "read"
    /\ liked' = [liked EXCEPT ![t] = LikeOf(t) \in likes]
    /\ GoTo(t, "flip")
    /\ UNCHANGED <<tables, sequences, draft>>

\* A like for a post that is gone violates the foreign key: the answer is 500.
Flip(t) ==
    /\ pc[t] = "flip"
    /\ IF liked[t]
       THEN likes' = likes \ {LikeOf(t)} /\ GoTo(t, "fetch")
       ELSE IF call[t].id \in DOMAIN posts
            THEN likes' = likes \cup {LikeOf(t)} /\ GoTo(t, "fetch")
            ELSE UNCHANGED likes /\ Finish(t)
    /\ liked' = [liked EXCEPT ![t] = FALSE]
    /\ UNCHANGED <<posts, comments, sequences, draft>>

-----------------------------------------------------------------------------
(* create_comment: the lock is read, then the comment is inserted *)

CheckUnlocked(t) ==
    /\ pc[t] = "unlocked"
    /\ IF call[t].id \in DOMAIN posts /\ ~posts[call[t].id].locked
       THEN GoTo(t, "insert") ELSE Finish(t)
    /\ UNCHANGED <<tables, sequences, draft, liked>>

NewComment(t) == [post |-> call[t].id, author |-> call[t].viewer]
\* The id is drawn even if the post is gone and the insert fails.
InsertComment(t) ==
    /\ pc[t] = "insert" /\ commentIds < scene.comments
    /\ commentIds' = commentIds + 1
    /\ comments' = IF call[t].id \in DOMAIN posts
                   THEN [c \in DOMAIN comments \cup {commentIds'} |->
                            IF c = commentIds' THEN NewComment(t) ELSE comments[c]]
                   ELSE comments
    /\ Finish(t)
    /\ UNCHANGED <<posts, likes, postIds, draft, liked>>

-----------------------------------------------------------------------------
\* A statement fails or the client hangs up; there is nothing to roll back.
Fail(t) ==
    /\ pc[t] # "idle"
    /\ Finish(t)
    /\ draft' = [draft EXCEPT ![t] = None]
    /\ liked' = [liked EXCEPT ![t] = FALSE]
    /\ UNCHANGED <<tables, sequences>>

Work(t) ==
    \/ Draw(t) \/ Store(t)
    \/ CheckAuthor(t) \/ Edit(t) \/ Delete(t) \/ Uncomment(t)
    \/ Toggle(t) \/ CountView(t) \/ Fetch(t)
    \/ CheckExists(t) \/ ReadLike(t) \/ Flip(t)
    \/ CheckUnlocked(t) \/ InsertComment(t)
    \/ Fail(t)

Tick ==
    /\ now < scene.time
    /\ now' = now + 1
    /\ UNCHANGED <<scene, tables, sequences, pc, locals, since>>

ForumNext ==
    \/ \E t \in Task : Start(t)
    \/ \E t \in Task : Work(t) /\ Watch /\ UNCHANGED <<scene, now>>
    \/ Tick

ForumSpec == ForumInit /\ [][ForumNext]_forumVars

-----------------------------------------------------------------------------
(* Properties *)

\* "Likes if it was not liked, takes it back if it was" (api.md:594): a toggle
\* beside which no other toggle of the same like runs turns it round, even if
\* the post is deleted under it.
LikeTurns ==
    [][\A t \in Task :
          pc[t] = "flip" /\ pc'[t] = "fetch" /\ since[t].alone
              => (LikeOf(t) \in likes') = ~since[t].liked]_forumVars

\* t ends with a change that it may make to what this author has written.
Moderates(t, author) ==
    pc[t] = "change" /\ pc'[t] = "idle" /\ call[t].viewer \in Admins \cup {author}

\* Only its author and the admins change or delete a post (api.md:539, :622) or
\* a comment (api.md:688), although the author is looked up before the change
\* and by another statement; a comment also goes with its post.
OnlyModerators ==
    [][/\ \A p \in DOMAIN posts :
             p \notin DOMAIN posts' \/ posts'[p].editor # posts[p].editor
                 => \E t \in Task : Moderates(t, posts[p].author)
       /\ \A c \in DOMAIN comments :
             c \notin DOMAIN comments' /\ comments[c].post \in DOMAIN posts'
                 => \E t \in Task : Moderates(t, comments[c].author)]_forumVars

-----------------------------------------------------------------------------
(* The inductive invariant *)

OpsAt(statement) ==
    CASE statement = "author" -> {"edit", "delete", "uncomment"}
      [] statement = "change" -> {"edit", "delete", "uncomment", "pin", "lock", "view"}
      [] statement \in {"exists", "read", "flip"} -> {"like"}
      [] statement \in {"unlocked", "insert"} -> {"comment"}
      [] statement \in {"draw", "store"} -> {"post"}
      [] OTHER -> Op

\* The id has been drawn and is not on its way: if its post is gone, it stays so.
Settled(p) ==
    p <= postIds /\ \A t \in Task : pc[t] = "store" => draft[t].id # p

\* What a task may change if its viewer is no admin is still his.
ChangeInv(t) ==
    pc[t] = "change" /\ call[t].viewer \notin Admins =>
        /\ call[t].op \in {"edit", "delete"} =>
              /\ Settled(call[t].id)
              /\ call[t].id \in DOMAIN posts => posts[call[t].id].author = call[t].viewer
        /\ call[t].op = "uncomment" =>
              /\ call[t].id <= commentIds
              /\ call[t].id \in DOMAIN comments => comments[call[t].id].author = call[t].viewer

\* The like of a lone toggle is as it was, unless its post is gone.
LikeInv(t) ==
    since[t].alone =>
        /\ pc[t] # "idle" /\ call[t].op = "like"
        /\ since[t].liked => Settled(call[t].id)
        /\ \A x \in Task : SameLike(x, call[t]) => x = t
        /\ pc[t] \in {"exists", "read", "flip"} /\ call[t].id \in DOMAIN posts
              => (LikeOf(t) \in likes) = since[t].liked
        /\ pc[t] = "flip" => /\ liked[t] => since[t].liked
                             /\ call[t].id \in DOMAIN posts => liked[t] = since[t].liked

TaskInv(t) ==
    /\ pc[t] # "idle" => call[t] \in Call /\ call[t].op \in OpsAt(pc[t])
    /\ pc[t] = "store" => /\ draft[t] \in [id : 1 .. postIds, at : Nat]
                          /\ draft[t].id \notin DOMAIN posts
    /\ ChangeInv(t)
    /\ LikeInv(t)

DraftsDistinct ==
    \A t, x \in Task : pc[t] = "store" /\ pc[x] = "store" /\ draft[t].id = draft[x].id => t = x

ForumInv ==
    /\ ForumTypeOK
    /\ DraftsDistinct
    /\ \A t \in Task : TaskInv(t)
=============================================================================
