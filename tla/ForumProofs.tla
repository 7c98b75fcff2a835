---------------------------- MODULE ForumProofs ----------------------------
(***************************************************************************)
(* What the handlers of Forum keep without transactions, proved for any    *)
(* number of them, of users, posts and comments, and any scenes; and what  *)
(* paging by a key keeps while such handlers change the list, proved for   *)
(* lists of any length, pages of any size and changes of any kind.         *)
(***************************************************************************)
EXTENDS Lists, FiniteSetTheorems, WellFoundedInduction, TLAPS

\* What a statement of t may do to what the other handlers rely on: posts keep
\* their authors, a new post has the id that t has drawn, a new comment a new
\* id, and the likes of posts that stay are only flipped by their toggles.
Careful(t) ==
    /\ scene' = scene /\ now' = now
    /\ \A x \in Task \ {t} : /\ pc'[x] = pc[x] /\ call'[x] = call[x]
                             /\ draft'[x] = draft[x] /\ liked'[x] = liked[x]
    /\ pc[t] # "idle" /\ (pc'[t] # "idle" => call'[t] = call[t])
    /\ postIds' >= postIds /\ commentIds' >= commentIds
    /\ \A p \in DOMAIN posts' :
          \/ p \in DOMAIN posts /\ posts'[p].author = posts[p].author
          \/ pc[t] = "store" /\ p = draft[t].id
    /\ \A c \in DOMAIN comments' :
          \/ c \in DOMAIN comments /\ comments'[c].author = comments[c].author
          \/ c > commentIds
    /\ \A p \in DOMAIN posts', u \in User :
          \/ (<<p, u>> \in likes') = (<<p, u>> \in likes)
          \/ pc[t] = "flip" /\ <<p, u>> = LikeOf(t)
    /\ pc'[t] = "store" => /\ draft'[t].id = postIds + 1 /\ postIds' = postIds + 1
                           /\ pc[t] # "store"

\* An id that has been drawn and stored stays settled.
LEMMA SettledStays ==
  ASSUME ForumTypeOK, ForumTypeOK', NEW t \in Task, Careful(t), NEW p \in Nat, Settled(p)
  PROVE  Settled(p)'
<1>1. p <= postIds' BY DEF Settled, Careful, ForumTypeOK
<1>2. ASSUME NEW x \in Task, pc'[x] = "store" PROVE draft'[x].id # p
  <2>1. CASE x = t BY <1>2, <2>1 DEF Settled, Careful, ForumTypeOK
  <2>2. CASE x # t BY <1>2, <2>2 DEF Settled, Careful
  <2> QED BY <2>1, <2>2
<1> QED BY <1>1, <1>2 DEF Settled

\* A careful statement leaves the other handlers what they rely on.
LEMMA OthersKeep ==
  ASSUME ForumInv, ForumTypeOK', NEW t \in Task, Careful(t), Watch,
         NEW x \in Task \ {t}
  PROVE  TaskInv(x)'
<1> USE DEF ForumInv
<1>1. /\ pc'[x] = pc[x] /\ call'[x] = call[x] /\ draft'[x] = draft[x] /\ liked'[x] = liked[x]
      /\ TaskInv(x)
  BY DEF Careful
<1>2. since'[x].alone => pc[x] # "idle" /\ since[x].alone /\ since'[x].liked = since[x].liked
  BY <1>1 DEF Watch, NothingSince, ForumTypeOK
<1>3. pc[x] # "idle" => /\ call[x] \in Call /\ call[x].op \in OpsAt(pc[x])
                        /\ call[x].id \in Nat /\ call[x].viewer \in User
  BY <1>1 DEF TaskInv, Call
<1>4. ASSUME pc[x] = "store"
      PROVE  draft[x] \in [id : 1 .. postIds', at : Nat] /\ draft[x].id \notin DOMAIN posts'
  <2>1. /\ draft[x] \in [id : 1 .. postIds, at : Nat] /\ draft[x].id \notin DOMAIN posts
        /\ pc[t] = "store" => draft[t].id # draft[x].id
    BY <1>1, <1>4 DEF TaskInv, DraftsDistinct
  <2> QED BY <2>1 DEF Careful, ForumTypeOK
<1>5. ChangeInv(x)'
  <2> SUFFICES ASSUME pc[x] = "change", call[x].viewer \notin Admins
               PROVE  /\ call[x].op \in {"edit", "delete"} =>
                            /\ Settled(call[x].id)'
                            /\ call[x].id \in DOMAIN posts' =>
                                  posts'[call[x].id].author = call[x].viewer
                      /\ call[x].op = "uncomment" =>
                            /\ call[x].id <= commentIds'
                            /\ call[x].id \in DOMAIN comments' =>
                                  comments'[call[x].id].author = call[x].viewer
    BY <1>1 DEF ChangeInv, Settled
  <2>1. CASE call[x].op \in {"edit", "delete"}
    <3>1. /\ Settled(call[x].id)
          /\ call[x].id \in DOMAIN posts => posts[call[x].id].author = call[x].viewer
      BY <1>1, <2>1 DEF TaskInv, ChangeInv
    <3>2. Settled(call[x].id)' BY <1>3, <3>1, SettledStays DEF Careful, Settled
    <3> QED BY <2>1, <3>1, <3>2 DEF Careful, Settled
  <2>2. CASE call[x].op = "uncomment"
    BY <1>1, <1>3, <2>2 DEF TaskInv, ChangeInv, Careful, ForumTypeOK
  <2> QED BY <2>1, <2>2
<1>6. LikeInv(x)'
  <2> SUFFICES ASSUME since'[x].alone PROVE LikeInv(x)'
    BY DEF LikeInv
  <2>1. LikeInv(x) /\ since[x].alone /\ since'[x].liked = since[x].liked
    BY <1>1, <1>2 DEF TaskInv
  <2>2. pc[x] # "idle" /\ call[x].op = "like" BY <2>1 DEF LikeInv
  <2>3. since[x].liked => Settled(call[x].id)'
    <3>1. call[x].id \in Nat BY <1>3, <2>2
    <3>2. since[x].liked => Settled(call[x].id) BY <2>1 DEF LikeInv
    <3>3. Settled(call[x].id) => Settled(call[x].id)'
      <4> DEFINE p == call[x].id
      <4>1. p \in Nat /\ p' = p BY <1>1, <3>1
      <4>2. ASSUME NEW q \in Nat, Settled(q) PROVE Settled(q)' BY <4>2, SettledStays
      <4> QED BY <4>1, <4>2 DEF Settled
    <3> QED BY <3>2, <3>3
  <2>4. \A y \in Task : SameLike(y, call[x]) => y = x
    BY <2>1 DEF LikeInv
  <2>5. \A y \in Task : SameLike(y, call[x])' => y = x
    BY <1>1, <2>4 DEF SameLike, Careful
  <2>6. ASSUME call[x].id \in DOMAIN posts'
        PROVE  call[x].id \in DOMAIN posts \/ since[x].liked = FALSE
    <3>1. CASE pc[t] = "store" /\ call[x].id = draft[t].id
      BY <2>1, <3>1 DEF LikeInv, Settled, ForumTypeOK
    <3> QED BY <2>6, <3>1 DEF Careful
  <2>7. ASSUME pc[x] \in {"exists", "read", "flip"}, call[x].id \in DOMAIN posts'
        PROVE  (LikeOf(x) \in likes') = since[x].liked
    <3>1. ~(pc[t] = "flip" /\ LikeOf(x) = LikeOf(t))
      <4> SUFFICES ASSUME pc[t] = "flip", LikeOf(x) = LikeOf(t) PROVE FALSE
        OBVIOUS
      <4>1. call[t].op = "like" BY DEF TaskInv, OpsAt
      <4>2. SameLike(t, call[x]) BY <2>2, <4>1 DEF SameLike, LikeOf
      <4> QED BY <2>4, <4>2
    <3>2. (LikeOf(x) \in likes') = (LikeOf(x) \in likes)
      BY <1>3, <2>2, <2>7, <3>1 DEF Careful, LikeOf
    <3>3. CASE call[x].id \in DOMAIN posts
      BY <2>1, <2>7, <3>2, <3>3 DEF LikeInv
    <3>4. CASE call[x].id \notin DOMAIN posts
      <4>1. LikeOf(x) \notin likes BY <3>4 DEF ForumTypeOK, LikeOf
      <4>2. since[x].liked = FALSE BY <2>6, <2>7, <3>4
      <4>3. (LikeOf(x) \in likes') = FALSE BY <3>2, <4>1
      <4> QED BY <4>2, <4>3
    <3> QED BY <3>3, <3>4
  <2>8. pc[x] = "flip" => /\ liked[x] => since[x].liked
                          /\ call[x].id \in DOMAIN posts' => liked[x] = since[x].liked
    BY <2>1, <2>6 DEF LikeInv, ForumTypeOK
  <2> QED BY <1>1, <2>1, <2>2, <2>3, <2>5, <2>7, <2>8 DEF LikeInv, LikeOf, Settled
<1> QED BY <1>1, <1>2, <1>3, <1>4, <1>5, <1>6 DEF TaskInv

\* Drafts keep their ids apart.
LEMMA DraftsStayDistinct ==
  ASSUME ForumInv, ForumTypeOK', NEW t \in Task, Careful(t)
  PROVE  DraftsDistinct'
<1> SUFFICES ASSUME NEW x \in Task, NEW y \in Task,
                    pc'[x] = "store", pc'[y] = "store", draft'[x].id = draft'[y].id
             PROVE  x = y
  BY DEF DraftsDistinct
<1>1. ASSUME NEW z \in Task \ {t}, pc'[z] = "store"
      PROVE  pc[z] = "store" /\ draft'[z] = draft[z] /\ draft[z].id \in 1 .. postIds
  BY <1>1 DEF Careful, ForumInv, TaskInv
<1>2. pc'[t] = "store" => draft'[t].id = postIds + 1 /\ postIds \in Nat
  BY DEF Careful, ForumInv, ForumTypeOK
<1> QED BY <1>1, <1>2 DEF ForumInv, DraftsDistinct

\* Of a handler that has ended nothing is asked.
LEMMA Ended ==
  ASSUME NEW t \in Task, pc'[t] = "idle", Watch
  PROVE  TaskInv(t)'
<1>1. since'[t] = NothingSince BY DEF Watch
<1> QED BY <1>1 DEF TaskInv, ChangeInv, LikeInv, NothingSince

\* What is watched keeps its type.
LEMMA WatchType ==
  ASSUME ForumTypeOK, Watch
  PROVE  since' \in [Task -> [alone : BOOLEAN, liked : BOOLEAN]]
BY DEF Watch, ForumTypeOK, NothingSince

\* A handler at work has a request of a kind that has such a statement.
LEMMA AtWork ==
  ASSUME ForumInv, NEW t \in Task, pc[t] # "idle"
  PROVE  /\ call[t] \in Call /\ call[t].op \in OpsAt(pc[t])
         /\ call[t].id \in Nat /\ call[t].viewer \in User
  BY DEF ForumInv, TaskInv, Call

Step(t) == Watch /\ UNCHANGED <<scene, now>>

\* What has to be shown of a statement.
Keeps(t) == ForumTypeOK' /\ Careful(t) /\ TaskInv(t)'

LEMMA DrawKeeps ==
  ASSUME ForumInv, NEW t \in Task, Draw(t), Step(t)
  PROVE  Keeps(t)
<1>1. ForumTypeOK'
  BY WatchType DEF ForumInv, ForumTypeOK, Draw, GoTo, tables, Step, Statement
<1>2. Careful(t)
  BY DEF ForumInv, ForumTypeOK, Draw, GoTo, tables, Step, Careful
<1>3. TaskInv(t)'
  <2>1. /\ pc'[t] = "store" /\ call'[t] = call[t] /\ call[t] \in Call /\ call[t].op = "post"
        /\ draft'[t] = [id |-> postIds + 1, at |-> now] /\ postIds' = postIds + 1
        /\ posts' = posts /\ postIds \in Nat /\ now \in Nat /\ DOMAIN posts \subseteq 1 .. postIds
        /\ now' = now
    BY AtWork DEF Draw, GoTo, tables, ForumInv, ForumTypeOK, OpsAt, Step
  <2>2. ~since'[t].alone
    BY <2>1 DEF ForumInv, TaskInv, LikeInv, Watch, Step, ForumTypeOK
  <2> QED BY <2>1, <2>2 DEF TaskInv, ChangeInv, LikeInv, OpsAt
<1> QED BY <1>1, <1>2, <1>3 DEF Keeps

LEMMA StoreKeeps ==
  ASSUME ForumInv, NEW t \in Task, Store(t), Step(t)
  PROVE  Keeps(t)
<1>1. /\ draft[t] \in [id : 1 .. postIds, at : Nat] /\ draft[t].id \notin DOMAIN posts
      /\ call[t].viewer \in User
  BY AtWork DEF ForumInv, TaskInv, Store
<1>2. NewPost(t) \in Post BY <1>1 DEF NewPost, Post
<1>3. ForumTypeOK'
  BY <1>1, <1>2, WatchType
  DEF ForumInv, ForumTypeOK, Store, Finish, sequences, Step, Statement
<1>4. Careful(t)
  BY <1>1 DEF ForumInv, ForumTypeOK, Store, Finish, sequences, Step, Careful
<1>5. TaskInv(t)' BY Ended DEF Store, Finish, Step, ForumInv, ForumTypeOK
<1> QED BY <1>3, <1>4, <1>5 DEF Keeps

LEMMA CheckAuthorKeeps ==
  ASSUME ForumInv, NEW t \in Task, CheckAuthor(t), Step(t)
  PROVE  Keeps(t)
<1>1. ForumTypeOK'
  BY WatchType DEF ForumInv, ForumTypeOK, CheckAuthor, GoTo, Finish,
     tables, sequences, Step, Statement
<1>2. Careful(t)
  BY DEF ForumInv, ForumTypeOK, CheckAuthor, GoTo, Finish, tables, sequences, Step, Careful
<1>3. TaskInv(t)'
  <2>1. CASE ~IsAuthor(t)
    BY <2>1, Ended DEF CheckAuthor, Finish, Step, ForumInv, ForumTypeOK
  <2>2. CASE IsAuthor(t)
    <3>1. /\ pc'[t] = "change" /\ call'[t] = call[t] /\ call[t] \in Call
          /\ call[t].op \in {"edit", "delete", "uncomment"} /\ pc[t] = "author"
          /\ UNCHANGED <<posts, likes, comments, postIds, commentIds, draft, liked>>
      BY <2>2, AtWork DEF CheckAuthor, GoTo, tables, sequences, ForumInv, ForumTypeOK, OpsAt
    <3>2. ~since'[t].alone
      BY <3>1 DEF ForumInv, TaskInv, LikeInv, Watch, Step, ForumTypeOK
    <3>3. /\ call[t].op \in {"edit", "delete"} =>
                call[t].id \in DOMAIN posts /\ posts[call[t].id].author = call[t].viewer
          /\ call[t].op = "uncomment" =>
                call[t].id \in DOMAIN comments /\ comments[call[t].id].author = call[t].viewer
      BY <2>2 DEF IsAuthor, Subjects
    <3>4. call[t].id \in DOMAIN posts => Settled(call[t].id)'
      <4> SUFFICES ASSUME call[t].id \in DOMAIN posts PROVE Settled(call[t].id)'
        OBVIOUS
      <4>1. \A x \in Task : pc[x] = "store" => draft[x].id # call[t].id
        BY DEF ForumInv, TaskInv
      <4>2. \A x \in Task : pc'[x] = "store" => pc[x] = "store"
        BY <2>2 DEF CheckAuthor, GoTo, ForumInv, ForumTypeOK
      <4> QED BY <3>1, <4>1, <4>2 DEF Settled, ForumInv, ForumTypeOK
    <3>5. call[t].op = "uncomment" => call[t].id <= commentIds
      BY <3>3 DEF ForumInv, ForumTypeOK
    <3>6. ChangeInv(t)' BY <3>1, <3>3, <3>4, <3>5 DEF ChangeInv, Settled
    <3> QED BY <3>1, <3>2, <3>6 DEF TaskInv, LikeInv, OpsAt
  <2> QED BY <2>1, <2>2
<1> QED BY <1>1, <1>2, <1>3 DEF Keeps

LEMMA EditKeeps ==
  ASSUME ForumInv, NEW t \in Task, Edit(t), Step(t)
  PROVE  Keeps(t)
<1>1. call[t].viewer \in User BY AtWork DEF Edit
<1>2. /\ posts' \in [DOMAIN posts -> Post]
      /\ \A p \in DOMAIN posts : posts'[p].author = posts[p].author
  BY <1>1 DEF Edit, Updated, ForumInv, ForumTypeOK, Post
<1>3. ForumTypeOK'
  BY <1>1, <1>2, WatchType DEF ForumInv, ForumTypeOK, Edit, Finish, sequences, Step, Statement
<1>4. Careful(t)
  <2>1. /\ pc[t] = "change" /\ pc'[t] = "idle"
        /\ UNCHANGED <<scene, now, likes, comments, postIds, commentIds, draft, liked>>
    BY DEF Edit, Finish, sequences, Step, ForumInv, ForumTypeOK
  <2>2. \A x \in Task \ {t} : pc'[x] = pc[x] /\ call'[x] = call[x]
    BY DEF Edit, Finish, ForumInv, ForumTypeOK
  <2> QED BY <1>2, <2>1, <2>2 DEF Careful, ForumInv, ForumTypeOK
<1>5. TaskInv(t)' BY Ended DEF Edit, Finish, Step, ForumInv, ForumTypeOK
<1> QED BY <1>3, <1>4, <1>5 DEF Keeps

LEMMA DeleteKeeps ==
  ASSUME ForumInv, NEW t \in Task, Delete(t), Step(t)
  PROVE  Keeps(t)
<1>1. ForumTypeOK'
  BY WatchType DEF ForumInv, ForumTypeOK, Delete, Cascade, Finish, sequences, Step, Statement
<1>2. Careful(t)
  BY DEF ForumInv, ForumTypeOK, Delete, Cascade, Finish, sequences, Step, Careful
<1>3. TaskInv(t)' BY Ended DEF Delete, Finish, Step, ForumInv, ForumTypeOK
<1> QED BY <1>1, <1>2, <1>3 DEF Keeps

LEMMA UncommentKeeps ==
  ASSUME ForumInv, NEW t \in Task, Uncomment(t), Step(t)
  PROVE  Keeps(t)
<1>1. ForumTypeOK'
  BY WatchType DEF ForumInv, ForumTypeOK, Uncomment, Finish, sequences, Step, Statement
<1>2. Careful(t)
  BY DEF ForumInv, ForumTypeOK, Uncomment, Finish, sequences, Step, Careful
<1>3. TaskInv(t)' BY Ended DEF Uncomment, Finish, Step, ForumInv, ForumTypeOK
<1> QED BY <1>1, <1>2, <1>3 DEF Keeps

\* A handler that only has to answer yet.
LEMMA Answering ==
  ASSUME ForumInv, NEW t \in Task, pc[t] # "idle", pc'[t] = "fetch", call'[t] = call[t],
         Watch,
         since[t].alone => /\ since[t].liked => Settled(call[t].id)'
                           /\ \A x \in Task : SameLike(x, call[t])' => x = t
  PROVE  TaskInv(t)'
<1>1. call[t] \in Call /\ call[t].op \in OpsAt("fetch") BY AtWork DEF OpsAt, Call
<1>2. since'[t].alone = since[t].alone /\ since'[t].liked = since[t].liked
  BY DEF Watch, ForumInv, ForumTypeOK
<1>3. since[t].alone => call[t].op = "like" BY DEF ForumInv, TaskInv, LikeInv
<1> QED BY <1>1, <1>2, <1>3 DEF TaskInv, ChangeInv, LikeInv, Settled

LEMMA ToggleKeeps ==
  ASSUME ForumInv, NEW t \in Task, Toggle(t), Step(t)
  PROVE  Keeps(t)
<1>1. /\ posts' \in [DOMAIN posts -> Post]
      /\ \A p \in DOMAIN posts : posts'[p].author = posts[p].author
  <2>1. ASSUME NEW row \in Post, NEW op
        PROVE  Toggled(op, row) \in Post /\ Toggled(op, row).author = row.author
    BY DEF Toggled, Post
  <2>2. \A p \in DOMAIN posts : posts[p] \in Post BY DEF ForumInv, ForumTypeOK
  <2> QED BY <2>1, <2>2 DEF Toggle, Updated
<1>2. ForumTypeOK'
  BY <1>1, WatchType DEF ForumInv, ForumTypeOK, Toggle, GoTo, Finish, sequences, Step, Statement
<1>3. Careful(t)
  BY <1>1 DEF ForumInv, ForumTypeOK, Toggle, GoTo, Finish, sequences, Step, Careful
<1>4. TaskInv(t)'
  <2>1. pc[t] = "change" /\ call[t].op \in {"pin", "lock"} BY DEF Toggle
  <2>2. ~since[t].alone
    BY <2>1 DEF ForumInv, TaskInv, LikeInv, ForumTypeOK
  <2>3. CASE pc'[t] = "idle" BY <2>3, Ended DEF Step
  <2>4. CASE pc'[t] = "fetch" /\ call'[t] = call[t]
    BY <2>1, <2>2, <2>4, Answering DEF Step
  <2> QED BY <2>3, <2>4 DEF Toggle, GoTo, Finish, ForumInv, ForumTypeOK
<1> QED BY <1>2, <1>3, <1>4 DEF Keeps

LEMMA CountViewKeeps ==
  ASSUME ForumInv, NEW t \in Task, CountView(t), Step(t)
  PROVE  Keeps(t)
<1>1. /\ posts' \in [DOMAIN posts -> Post]
      /\ \A p \in DOMAIN posts : posts'[p].author = posts[p].author
  <2>1. ASSUME NEW row \in Post
        PROVE  LET seen == [row EXCEPT !.views = @ + 1]
               IN  seen \in Post /\ seen.author = row.author
    BY DEF Post
  <2>2. \A p \in DOMAIN posts : posts[p] \in Post BY DEF ForumInv, ForumTypeOK
  <2> QED BY <2>1, <2>2 DEF CountView, Updated
<1>0. /\ pc[t] = "change" /\ pc' = [pc EXCEPT ![t] = "fetch"] /\ call' = call
      /\ UNCHANGED <<likes, comments, sequences, draft, liked>>
  BY DEF CountView, GoTo
<1>2. ForumTypeOK'
  BY <1>0, <1>1, WatchType DEF ForumInv, ForumTypeOK, sequences, Step, Statement
<1>3. Careful(t)
  BY <1>0, <1>1 DEF ForumInv, ForumTypeOK, sequences, Step, Careful
<1>4. TaskInv(t)'
  <2>1. pc[t] = "change" /\ call[t].op = "view" BY DEF CountView
  <2>2. ~since[t].alone
    BY <2>1 DEF ForumInv, TaskInv, LikeInv, ForumTypeOK
  <2>3. pc'[t] = "fetch" /\ call'[t] = call[t]
    BY DEF CountView, GoTo, ForumInv, ForumTypeOK
  <2> QED BY <2>1, <2>2, <2>3, Answering DEF Step
<1> QED BY <1>2, <1>3, <1>4 DEF Keeps

LEMMA FetchKeeps ==
  ASSUME ForumInv, NEW t \in Task, Fetch(t), Step(t)
  PROVE  Keeps(t)
<1>1. ForumTypeOK'
  BY WatchType DEF ForumInv, ForumTypeOK, Fetch, Finish, tables, sequences, Step, Statement
<1>2. Careful(t)
  BY DEF ForumInv, ForumTypeOK, Fetch, Finish, tables, sequences, Step, Careful
<1>3. TaskInv(t)' BY Ended DEF Fetch, Finish, Step, ForumInv, ForumTypeOK
<1> QED BY <1>1, <1>2, <1>3 DEF Keeps

\* A toggle goes from looking for its post on to flipping its like: what it has
\* read of a post that is there is what was there when it came, if it is alone.
LEMMA LikeGoesOn ==
  ASSUME ForumInv, NEW t \in Task, Watch, pc[t] \in {"exists", "read"}, call' = call,
         UNCHANGED <<posts, likes, comments, postIds, commentIds, draft>>,
         \/ pc' = [pc EXCEPT ![t] = "read"] /\ liked' = liked
         \/ /\ pc' = [pc EXCEPT ![t] = "flip"]
            /\ liked' = [liked EXCEPT ![t] = LikeOf(t) \in likes]
  PROVE  TaskInv(t)'
<1>1. /\ call[t] \in Call /\ call[t].op = "like"
      /\ pc'[t] \in {"read", "flip"}
  BY AtWork DEF OpsAt, ForumInv, ForumTypeOK
<1>2. since'[t].alone = since[t].alone /\ since'[t].liked = since[t].liked
  BY <1>1 DEF Watch, ForumInv, ForumTypeOK, TaskInv
<1>3. LikeInv(t) BY DEF ForumInv, TaskInv
<1>4. ASSUME since[t].alone
      PROVE  /\ since[t].liked => Settled(call[t].id)'
             /\ \A x \in Task : SameLike(x, call[t])' => x = t
             /\ call[t].id \in DOMAIN posts => (LikeOf(t) \in likes) = since[t].liked
             /\ call[t].id \notin DOMAIN posts => LikeOf(t) \notin likes
  <2>1. \A x \in Task \ {t} : pc'[x] = pc[x] /\ pc'[t] # "store" /\ pc'[t] # "idle"
    BY <1>1 DEF ForumInv, ForumTypeOK
  <2>2. since[t].liked => Settled(call[t].id)'
    BY <1>1, <1>3, <1>4, <2>1 DEF LikeInv, Settled
  <2>3. \A x \in Task : SameLike(x, call[t])' => SameLike(x, call[t])
    BY <1>1, <2>1 DEF SameLike
  <2>4. call[t].id \notin DOMAIN posts => LikeOf(t) \notin likes
    BY DEF ForumInv, ForumTypeOK, LikeOf
  <2> QED BY <1>3, <1>4, <2>2, <2>3, <2>4 DEF LikeInv
<1>5. pc'[t] = "flip" => liked'[t] = (LikeOf(t) \in likes)
  BY DEF ForumInv, ForumTypeOK
<1>6. LikeInv(t)'
  <2> SUFFICES ASSUME since[t].alone PROVE LikeInv(t)'
    BY <1>2 DEF LikeInv
  <2> QED BY <1>1, <1>2, <1>4, <1>5 DEF LikeInv, LikeOf
<1> QED BY <1>1, <1>2, <1>6 DEF TaskInv, ChangeInv, OpsAt

LEMMA CheckExistsKeeps ==
  ASSUME ForumInv, NEW t \in Task, CheckExists(t), Step(t)
  PROVE  Keeps(t)
<1>1. ForumTypeOK'
  BY WatchType DEF ForumInv, ForumTypeOK, CheckExists, GoTo, Finish,
     tables, sequences, Step, Statement
<1>2. Careful(t)
  BY DEF ForumInv, ForumTypeOK, CheckExists, GoTo, Finish, tables, sequences, Step, Careful
<1>3. TaskInv(t)'
  <2>1. CASE call[t].id \notin DOMAIN posts
    BY <2>1, Ended DEF CheckExists, Finish, Step, ForumInv, ForumTypeOK
  <2>2. CASE call[t].id \in DOMAIN posts
    <3>1. /\ pc[t] = "exists" /\ pc' = [pc EXCEPT ![t] = "read"] /\ call' = call
          /\ UNCHANGED <<posts, likes, comments, postIds, commentIds, draft, liked>>
      BY <2>2 DEF CheckExists, GoTo, tables, sequences
    <3> QED BY <3>1, LikeGoesOn DEF Step
  <2> QED BY <2>1, <2>2
<1> QED BY <1>1, <1>2, <1>3 DEF Keeps

LEMMA ReadLikeKeeps ==
  ASSUME ForumInv, NEW t \in Task, ReadLike(t), Step(t)
  PROVE  Keeps(t)
<1>1. ForumTypeOK'
  BY WatchType DEF ForumInv, ForumTypeOK, ReadLike, GoTo, tables, sequences, Step, Statement
<1>2. Careful(t)
  BY DEF ForumInv, ForumTypeOK, ReadLike, GoTo, tables, sequences, Step, Careful
<1>3. TaskInv(t)'
  <2>1. /\ pc[t] = "read" /\ pc' = [pc EXCEPT ![t] = "flip"] /\ call' = call
        /\ liked' = [liked EXCEPT ![t] = LikeOf(t) \in likes]
        /\ UNCHANGED <<posts, likes, comments, postIds, commentIds, draft>>
    BY DEF ReadLike, GoTo, tables, sequences
  <2> QED BY <2>1, LikeGoesOn DEF Step
<1> QED BY <1>1, <1>2, <1>3 DEF Keeps

LEMMA FlipKeeps ==
  ASSUME ForumInv, NEW t \in Task, Flip(t), Step(t)
  PROVE  Keeps(t)
<1>1. call[t] \in Call /\ call[t].op = "like" /\ call[t].viewer \in User
  BY AtWork DEF Flip, OpsAt
<1>2. ForumTypeOK'
  <2>1. likes' \subseteq (DOMAIN posts) \X User
    BY <1>1 DEF Flip, LikeOf, ForumInv, ForumTypeOK
  <2>2. pc' \in [Task -> Statement] /\ call' \in [Task -> Call \cup {None}]
    BY DEF Flip, GoTo, Finish, ForumInv, ForumTypeOK, Statement
  <2> QED BY <2>1, <2>2, WatchType DEF ForumInv, ForumTypeOK, Flip, sequences, Step
<1>3. Careful(t)
  BY DEF ForumInv, ForumTypeOK, Flip, GoTo, Finish, sequences, Step, Careful
<1>4. TaskInv(t)'
  <2>1. CASE pc'[t] = "idle" BY <2>1, Ended DEF Step
  <2>2. CASE pc' = [pc EXCEPT ![t] = "fetch"] /\ call' = call
    <3>1. pc'[t] = "fetch" /\ \A x \in Task \ {t} : pc'[x] = pc[x]
      BY <2>2 DEF ForumInv, ForumTypeOK
    <3>3. ASSUME since[t].alone
          PROVE  /\ since[t].liked => Settled(call[t].id)'
                 /\ \A x \in Task : SameLike(x, call[t])' => x = t
      <4>1. /\ since[t].liked => Settled(call[t].id)
            /\ \A x \in Task : SameLike(x, call[t]) => x = t
        BY <3>3 DEF ForumInv, TaskInv, LikeInv
      <4>2. Settled(call[t].id) => Settled(call[t].id)'
        BY <2>2, <3>1 DEF Settled, Flip, sequences
      <4>3. \A x \in Task : SameLike(x, call[t])' => SameLike(x, call[t])
        BY <2>2, <3>1 DEF SameLike, Flip
      <4> QED BY <4>1, <4>2, <4>3
    <3> QED BY <2>2, <3>1, <3>3, Answering DEF Flip, Step
  <2> QED BY <2>1, <2>2 DEF Flip, GoTo, Finish, ForumInv, ForumTypeOK
<1> QED BY <1>2, <1>3, <1>4 DEF Keeps

LEMMA CheckUnlockedKeeps ==
  ASSUME ForumInv, NEW t \in Task, CheckUnlocked(t), Step(t)
  PROVE  Keeps(t)
<1>1. ForumTypeOK'
  BY WatchType DEF ForumInv, ForumTypeOK, CheckUnlocked, GoTo, Finish,
     tables, sequences, Step, Statement
<1>2. Careful(t)
  BY DEF ForumInv, ForumTypeOK, CheckUnlocked, GoTo, Finish, tables, sequences, Step, Careful
<1>3. TaskInv(t)'
  <2>1. CASE pc'[t] = "idle" BY <2>1, Ended DEF Step
  <2>2. CASE /\ pc' = [pc EXCEPT ![t] = "insert"] /\ call' = call
             /\ call[t].id \in DOMAIN posts /\ ~posts[call[t].id].locked
    <3>1. call[t] \in Call /\ call[t].op = "comment" /\ pc[t] = "unlocked"
      BY AtWork DEF CheckUnlocked, OpsAt
    <3>2. ~since[t].alone
      BY <2>2, <3>1 DEF ForumInv, TaskInv, LikeInv
    <3>3. ~since'[t].alone
      BY <3>2 DEF Watch, Step, NothingSince, ForumInv, ForumTypeOK
    <3>4. pc'[t] = "insert" BY <2>2 DEF ForumInv, ForumTypeOK
    <3> QED BY <2>2, <3>1, <3>3, <3>4 DEF TaskInv, ChangeInv, LikeInv, OpsAt
  <2> QED BY <2>1, <2>2 DEF CheckUnlocked, GoTo, Finish, ForumInv, ForumTypeOK
<1> QED BY <1>1, <1>2, <1>3 DEF Keeps

LEMMA InsertCommentKeeps ==
  ASSUME ForumInv, NEW t \in Task, InsertComment(t), Step(t)
  PROVE  Keeps(t)
<1>1. call[t].id \in DOMAIN posts => NewComment(t) \in Comment
  BY AtWork DEF InsertComment, NewComment, Comment
<1>2. ForumTypeOK'
  BY <1>1, WatchType DEF ForumInv, ForumTypeOK, InsertComment, NewComment, Finish, Step, Statement
<1>3. Careful(t)
  BY DEF ForumInv, ForumTypeOK, InsertComment, Finish, Step, Careful
<1>4. TaskInv(t)' BY Ended DEF InsertComment, Finish, Step, ForumInv, ForumTypeOK
<1> QED BY <1>2, <1>3, <1>4 DEF Keeps

LEMMA FailKeeps ==
  ASSUME ForumInv, NEW t \in Task, Fail(t), Step(t)
  PROVE  Keeps(t)
<1>1. ForumTypeOK'
  BY WatchType DEF ForumInv, ForumTypeOK, Fail, Finish, tables, sequences, Step, Statement
<1>2. Careful(t)
  BY DEF ForumInv, ForumTypeOK, Fail, Finish, tables, sequences, Step, Careful
<1>3. TaskInv(t)' BY Ended DEF Fail, Finish, Step, ForumInv, ForumTypeOK
<1> QED BY <1>1, <1>2, <1>3 DEF Keeps

\* A handler that starts finds no other toggle of its like, or is not alone.
LEMMA StartKeeps ==
  ASSUME ForumInv, NEW t \in Task, Start(t)
  PROVE  ForumInv'
<1>1. PICK c \in Requests :
        /\ RequireAdmin(c)
        /\ call' = [call EXCEPT ![t] = c]
        /\ pc' = [pc EXCEPT ![t] = First(c)]
        /\ since' = [x \in Task |-> IF x = t THEN Arriving(c)
                                    ELSE IF SameLike(x, c) THEN [since[x] EXCEPT !.alone = FALSE]
                                    ELSE since[x]]
  BY DEF Start
<1>2. /\ pc[t] = "idle"
      /\ UNCHANGED <<scene, now, posts, likes, comments, postIds, commentIds, draft, liked>>
  BY DEF Start, tables, sequences
<1>3. c \in Call
  <2>1. scene \in Scene BY ForumAssumption DEF ForumInv, ForumTypeOK
  <2>2. scene.users \subseteq User /\ scene.posts \in Nat /\ scene.comments \in Nat
    BY <2>1 DEF Scene
  <2> QED BY <2>2 DEF Requests, Call
<1>4. /\ First(c) \in Statement /\ c.op \in OpsAt(First(c))
      /\ First(c) \notin {"idle", "store", "read", "flip", "insert", "fetch"}
      /\ First(c) = "change" => c.viewer \in Admins \/ c.op \notin {"edit", "delete", "uncomment"}
      /\ c.op = "like" => First(c) = "exists"
      /\ c.op = "comment" => First(c) = "unlocked"
  BY <1>3 DEF First, Call, Op, Statement, OpsAt
<1>5. \A x \in Task \ {t} : pc'[x] = pc[x] /\ call'[x] = call[x]
  BY <1>1 DEF ForumInv, ForumTypeOK
<1>6. pc'[t] = First(c) /\ call'[t] = c /\ since'[t] = Arriving(c)
  BY <1>1, <1>2 DEF ForumInv, ForumTypeOK
<1>7. ForumTypeOK'
  <2>1. since' \in [Task -> [alone : BOOLEAN, liked : BOOLEAN]]
    <3>1. Arriving(c) \in [alone : BOOLEAN, liked : BOOLEAN]
      BY DEF Arriving
    <3> QED BY <1>1, <3>1 DEF ForumInv, ForumTypeOK
  <2> QED BY <1>1, <1>2, <1>3, <1>4, <2>1 DEF ForumInv, ForumTypeOK
<1>8. DraftsDistinct'
  BY <1>2, <1>4, <1>5, <1>6 DEF ForumInv, DraftsDistinct
<1>9. ASSUME NEW p \in Nat, Settled(p) PROVE Settled(p)'
  BY <1>2, <1>4, <1>5, <1>6, <1>9 DEF Settled
<1>10. TaskInv(t)'
  <2>2. ASSUME Arriving(c).alone PROVE LikeInv(t)'
    <3>0. c.op = "like" /\ ~\E x \in Task : SameLike(x, c)
      BY <2>2 DEF Arriving
    <3>1. /\ c.op = "like" /\ ~\E x \in Task : SameLike(x, c)
          /\ Arriving(c).liked = (<<c.id, c.viewer>> \in likes)
      <4>1. Arriving(c).liked = (c.op = "like" /\ <<c.id, c.viewer>> \in likes)
        BY DEF Arriving
      <4> QED BY <3>0, <4>1
    <3>2. pc'[t] = "exists" /\ LikeOf(t)' = <<c.id, c.viewer>>
      BY <1>4, <1>6, <3>1 DEF LikeOf
    <3>3. \A x \in Task : SameLike(x, c)' => x = t
      BY <1>5, <3>1 DEF SameLike
    <3>4. Arriving(c).liked => Settled(c.id)'
      <4> SUFFICES ASSUME <<c.id, c.viewer>> \in likes PROVE Settled(c.id)'
        BY <3>1
      <4>1. c.id \in DOMAIN posts /\ DOMAIN posts \subseteq 1 .. postIds
        BY DEF ForumInv, ForumTypeOK
      <4>2. \A x \in Task : pc[x] = "store" => draft[x].id # c.id
        BY <4>1 DEF ForumInv, TaskInv
      <4>3. Settled(c.id) BY <4>1, <4>2 DEF Settled, ForumInv, ForumTypeOK
      <4> QED BY <1>2, <1>4, <1>5, <1>6, <4>3 DEF Settled
    <3>5. LikeOf(t)' \in likes' <=> Arriving(c).liked BY <1>2, <3>1, <3>2
    <3> QED BY <1>2, <1>6, <3>1, <3>2, <3>3, <3>4, <3>5 DEF LikeInv, SameLike, Settled
  <2>3. LikeInv(t)' BY <1>6, <2>2 DEF LikeInv
  <2>4. ChangeInv(t)' BY <1>4, <1>6 DEF ChangeInv
  <2> QED BY <1>2, <1>3, <1>4, <1>6, <2>3, <2>4 DEF TaskInv
<1>11. ASSUME NEW x \in Task \ {t} PROVE TaskInv(x)'
  <2>1. /\ TaskInv(x) /\ pc'[x] = pc[x] /\ call'[x] = call[x]
        /\ since'[x].liked = since[x].liked
        /\ since'[x].alone => since[x].alone /\ ~SameLike(x, c)
    BY <1>1, <1>5 DEF ForumInv, ForumTypeOK
  <2>2. pc[x] # "idle" => call[x].id \in Nat BY AtWork
  <2>3. pc[x] # "idle" /\ Settled(call[x].id) => Settled(call[x].id)'
    BY <1>2, <1>4, <1>5, <1>6, <2>1 DEF Settled
  <2>4. ChangeInv(x)'
    BY <1>2, <2>1, <2>3 DEF TaskInv, ChangeInv, Settled
  <2>5. LikeInv(x)'
    <3> SUFFICES ASSUME since'[x].alone PROVE LikeInv(x)'
      BY DEF LikeInv
    <3>1. LikeInv(x) /\ since[x].alone /\ ~SameLike(x, c) BY <2>1 DEF TaskInv
    <3>2. \A y \in Task : SameLike(y, call[x])' => y = x
      <4>1. ~SameLike(t, call[x])'
        BY <1>6, <2>1, <3>1 DEF SameLike, LikeInv
      <4> QED BY <1>5, <2>1, <3>1, <4>1 DEF SameLike, LikeInv
    <3> QED BY <1>2, <2>1, <2>3, <3>1, <3>2 DEF LikeInv, LikeOf, Settled, SameLike
  <2> QED BY <1>2, <2>1, <2>4, <2>5 DEF TaskInv
<1> QED BY <1>7, <1>8, <1>10, <1>11 DEF ForumInv

LEMMA WorkKeeps ==
  ASSUME ForumInv, NEW t \in Task, Work(t), Step(t)
  PROVE  ForumInv'
<1>1. Keeps(t)
  BY DrawKeeps, StoreKeeps, CheckAuthorKeeps, EditKeeps, DeleteKeeps, UncommentKeeps,
     ToggleKeeps, CountViewKeeps, FetchKeeps, CheckExistsKeeps, ReadLikeKeeps, FlipKeeps,
     CheckUnlockedKeeps, InsertCommentKeeps, FailKeeps
  DEF Work
<1>2. DraftsDistinct' BY <1>1, DraftsStayDistinct DEF Keeps
<1>3. \A x \in Task \ {t} : TaskInv(x)' BY <1>1, OthersKeep DEF Keeps, Step
<1> QED BY <1>1, <1>2, <1>3 DEF Keeps, ForumInv

\* Nothing happens to the forum.
LEMMA NothingKeeps ==
  ASSUME ForumInv, UNCHANGED <<scene, tables, sequences, pc, locals, since>>, now' \in Nat
  PROVE  ForumInv'
<1>1. ForumTypeOK' BY DEF ForumInv, ForumTypeOK, tables, sequences, locals
<1>2. DraftsDistinct' BY DEF ForumInv, DraftsDistinct, locals
<1>3. \A t \in Task : TaskInv(t)'
  BY DEF ForumInv, TaskInv, ChangeInv, LikeInv, Settled, SameLike, LikeOf, tables,
         sequences, locals
<1> QED BY <1>1, <1>2, <1>3 DEF ForumInv

LEMMA InitForumInv ==
  ASSUME ForumInit
  PROVE  ForumInv
<1>1. ForumTypeOK BY DEF ForumInit, ForumTypeOK, Statement, NothingSince
<1>2. DraftsDistinct BY DEF ForumInit, DraftsDistinct
<1>3. \A t \in Task : TaskInv(t)
  BY DEF ForumInit, TaskInv, ChangeInv, LikeInv, NothingSince
<1> QED BY <1>1, <1>2, <1>3 DEF ForumInv

LEMMA StepForumInv ==
  ASSUME ForumInv, [ForumNext]_forumVars
  PROVE  ForumInv'
<1>1. ASSUME NEW t \in Task, Work(t), Watch, UNCHANGED <<scene, now>> PROVE ForumInv'
  BY <1>1, WorkKeeps DEF Step
<1>2. CASE Tick
  BY <1>2, NothingKeeps DEF Tick, ForumInv, ForumTypeOK
<1>3. CASE UNCHANGED forumVars
  BY <1>3, NothingKeeps DEF forumVars, ForumInv, ForumTypeOK
<1> QED BY <1>1, <1>2, <1>3, StartKeeps DEF ForumNext

-----------------------------------------------------------------------------
(* What follows from the invariant *)

\* Only the DELETE or INSERT of a toggle goes from there to its answer.
LEMMA OnlyFlipAnswers ==
  ASSUME ForumInv, [ForumNext]_forumVars, NEW t \in Task, pc[t] = "flip", pc'[t] = "fetch"
  PROVE  Flip(t)
<1>1. pc \in [Task -> Statement] BY DEF ForumInv, ForumTypeOK
<1>2. ASSUME NEW x \in Task, Start(x) PROVE x # t /\ pc'[t] = pc[t]
  BY <1>1, <1>2 DEF Start
<1>3. ASSUME NEW x \in Task, Work(x), x # t PROVE pc'[t] = pc[t]
  BY <1>1, <1>3
  DEF Work, Draw, Store, CheckAuthor, Edit, Delete, Uncomment, Toggle, CountView, Fetch,
      CheckExists, ReadLike, Flip, CheckUnlocked, InsertComment, Fail, GoTo, Finish
<1>4. ASSUME Work(t) PROVE Flip(t)
  BY <1>1, <1>4
  DEF Work, Draw, Store, CheckAuthor, Edit, Delete, Uncomment, Toggle, CountView, Fetch,
      CheckExists, ReadLike, CheckUnlocked, InsertComment, Fail, Finish
<1>5. Tick \/ UNCHANGED forumVars => pc' = pc BY DEF Tick, forumVars
<1> QED BY <1>2, <1>3, <1>4, <1>5 DEF ForumNext

LikeTurned ==
    \A t \in Task : pc[t] = "flip" /\ pc'[t] = "fetch" /\ since[t].alone
                       => (LikeOf(t) \in likes') = ~since[t].liked

LEMMA StepLikeTurned ==
  ASSUME ForumInv, [ForumNext]_forumVars
  PROVE  LikeTurned
<1> SUFFICES ASSUME NEW t \in Task, pc[t] = "flip", pc'[t] = "fetch", since[t].alone
             PROVE  (LikeOf(t) \in likes') = ~since[t].liked
  BY DEF LikeTurned
<1>1. Flip(t) BY OnlyFlipAnswers
<1>2. /\ liked[t] => since[t].liked
      /\ call[t].id \in DOMAIN posts => liked[t] = since[t].liked
      /\ liked[t] \in BOOLEAN /\ since[t].liked \in BOOLEAN
  BY DEF ForumInv, ForumTypeOK, TaskInv, LikeInv
<1>3. CASE liked[t] BY <1>1, <1>2, <1>3 DEF Flip
<1>4. CASE ~liked[t]
  <2>1. call[t].id \in DOMAIN posts
    BY <1>1, <1>4 DEF Flip, Finish, ForumInv, ForumTypeOK
  <2> QED BY <1>1, <1>2, <1>4, <2>1 DEF Flip
<1> QED BY <1>3, <1>4

\* Who changed a post, or took it or a comment away, was its moderator.
Moderated ==
    /\ \A p \in DOMAIN posts :
          p \notin DOMAIN posts' \/ posts'[p].editor # posts[p].editor
              => \E t \in Task : Moderates(t, posts[p].author)
    /\ \A c \in DOMAIN comments :
          c \notin DOMAIN comments' /\ comments[c].post \in DOMAIN posts'
              => \E t \in Task : Moderates(t, comments[c].author)

LEMMA EditModerated ==
  ASSUME ForumInv, NEW t \in Task, Edit(t) \/ Delete(t)
  PROVE  Moderated
<1>1. pc[t] = "change" /\ pc'[t] = "idle" BY DEF Edit, Delete, Finish, ForumInv, ForumTypeOK
<1>2. call[t].id \in DOMAIN posts => Moderates(t, posts[call[t].id].author)
  BY <1>1 DEF Moderates, Edit, Delete, ForumInv, TaskInv, ChangeInv
<1>3. \A p \in DOMAIN posts :
         p \notin DOMAIN posts' \/ posts'[p].editor # posts[p].editor => p = call[t].id
  BY DEF Edit, Updated, Delete
<1>4. \A c \in DOMAIN comments : c \notin DOMAIN comments' => comments[c].post \notin DOMAIN posts'
  BY DEF Edit, Delete, Cascade
<1> QED BY <1>2, <1>3, <1>4 DEF Moderated

LEMMA UncommentModerated ==
  ASSUME ForumInv, NEW t \in Task, Uncomment(t)
  PROVE  Moderated
<1>1. pc[t] = "change" /\ pc'[t] = "idle" BY DEF Uncomment, Finish, ForumInv, ForumTypeOK
<1>2. call[t].id \in DOMAIN comments => Moderates(t, comments[call[t].id].author)
  BY <1>1 DEF Moderates, Uncomment, ForumInv, TaskInv, ChangeInv
<1>3. posts' = posts /\ \A c \in DOMAIN comments : c \notin DOMAIN comments' => c = call[t].id
  BY DEF Uncomment
<1> QED BY <1>2, <1>3 DEF Moderated

\* Nothing of which the property speaks changes.
NothingTaken ==
    /\ \A p \in DOMAIN posts : p \in DOMAIN posts' /\ posts'[p].editor = posts[p].editor
    /\ \A c \in DOMAIN comments : c \in DOMAIN comments'

LEMMA OtherWork ==
  ASSUME ForumInv, NEW t \in Task, Work(t), ~(Edit(t) \/ Delete(t) \/ Uncomment(t))
  PROVE  NothingTaken
<1>1. \A p \in DOMAIN posts : posts[p] \in Post BY DEF ForumInv, ForumTypeOK
<1>2. ASSUME Store(t) PROVE NothingTaken
  BY <1>2 DEF Store, ForumInv, TaskInv, NothingTaken
<1>3. ASSUME Toggle(t) PROVE NothingTaken
  <2>1. \A row \in Post, op \in {"pin", "lock"} : Toggled(op, row).editor = row.editor
    BY DEF Toggled, Post
  <2> QED BY <1>1, <1>3, <2>1 DEF Toggle, Updated, NothingTaken
<1>4. ASSUME CountView(t) PROVE NothingTaken
  <2>1. \A row \in Post : [row EXCEPT !.views = @ + 1].editor = row.editor BY DEF Post
  <2> QED BY <1>1, <1>4, <2>1 DEF CountView, Updated, NothingTaken
<1>5. ASSUME InsertComment(t) PROVE NothingTaken
  BY <1>5 DEF InsertComment, NothingTaken
<1>6. ASSUME \/ Draw(t) \/ CheckAuthor(t) \/ Fetch(t) \/ CheckExists(t) \/ ReadLike(t)
             \/ Flip(t) \/ CheckUnlocked(t) \/ Fail(t)
      PROVE  NothingTaken
  BY <1>6 DEF Draw, CheckAuthor, Fetch, CheckExists, ReadLike, Flip, CheckUnlocked, Fail,
              tables, NothingTaken
<1> QED BY <1>2, <1>3, <1>4, <1>5, <1>6 DEF Work

LEMMA StepModerated ==
  ASSUME ForumInv, [ForumNext]_forumVars
  PROVE  Moderated
<1>1. NothingTaken => Moderated BY DEF NothingTaken, Moderated
<1>2. ASSUME NEW t \in Task, Start(t) PROVE NothingTaken
  BY <1>2 DEF Start, tables, NothingTaken
<1>3. ASSUME Tick \/ UNCHANGED forumVars PROVE NothingTaken
  BY <1>3 DEF Tick, forumVars, tables, NothingTaken
<1> QED BY <1>1, <1>2, <1>3, EditModerated, UncommentModerated, OtherWork DEF ForumNext

-----------------------------------------------------------------------------
(* The theorems *)

\* The rows stay consistent and every handler keeps what it relies on, however
\* the statements of the handlers interleave and whichever of them fail.
THEOREM ForumStaysSound == ForumSpec => []ForumInv
<1>1. ForumInit => ForumInv BY InitForumInv
<1>2. ForumInv /\ [ForumNext]_forumVars => ForumInv' BY StepForumInv
<1> QED BY <1>1, <1>2, PTL DEF ForumSpec

\* toggle_like turns the like round unless another toggle of it runs beside.
THEOREM LikesTurn == ForumSpec => LikeTurns
<1>1. ForumInv /\ [ForumNext]_forumVars => [LikeTurned]_forumVars BY StepLikeTurned
<1>2. LikeTurns <=> [][LikeTurned]_forumVars BY DEF LikeTurns, LikeTurned
<1> QED BY <1>1, <1>2, ForumStaysSound, PTL DEF ForumSpec

\* modify_post, delete_post and delete_comment leave the rows of others alone,
\* although they look the author up in a statement of its own.
THEOREM ModeratorsOnly == ForumSpec => OnlyModerators
<1>1. ForumInv /\ [ForumNext]_forumVars => [Moderated]_forumVars BY StepModerated
<1>2. OnlyModerators <=> [][Moderated]_forumVars
  BY DEF OnlyModerators, Moderated
<1> QED BY <1>1, <1>2, ForumStaysSound, PTL DEF ForumSpec
-----------------------------------------------------------------------------
(* The reader of a list *)

\* The reader takes no part in the forum: the lists implement it.
THEOREM ForumBesideLists == Spec => ForumSpec
<1>1. Init => ForumInit BY DEF Init
<1>2. [Next]_vars => [ForumNext]_forumVars
  BY DEF Next, vars, Open, Page, SearchPage, Meanwhile, ChangeSources, ChangeRelated, Register
<1> QED BY <1>1, <1>2, PTL DEF Spec, ForumSpec

-----------------------------------------------------------------------------
(* The order of keys, and the rows *)

Pair == Nat \X Nat

LEMMA KeysOrdered ==
  ASSUME NEW k \in Pair, NEW l \in Pair, NEW m \in Pair
  PROVE  /\ ~Before(k, k)
         /\ Before(k, l) /\ Before(l, m) => Before(k, m)
         /\ k = l \/ Before(k, l) \/ Before(l, k)
<1>1. /\ k = <<k[1], k[2]>> /\ k[1] \in Nat /\ k[2] \in Nat
      /\ l = <<l[1], l[2]>> /\ l[1] \in Nat /\ l[2] \in Nat
      /\ m = <<m[1], m[2]>> /\ m[1] \in Nat /\ m[2] \in Nat
  BY DEF Pair
<1> QED BY <1>1 DEF Before

RowsType ==
    /\ related \subseteq Pair /\ IsFiniteSet(related)
    /\ accounts \subseteq Nat /\ IsFiniteSet(accounts)

\* Whatever list it is, its rows are finitely many keys.
LEMMA RowsFinite ==
  ASSUME ForumInv, RowsType
  PROVE  Rows \subseteq Pair /\ IsFiniteSet(Rows)
<1>1. FeedRows \subseteq Pair /\ IsFiniteSet(FeedRows)
  <2> DEFINE mine == {q \in DOMAIN posts : posts[q].author \in sources}
             f == [p \in mine |-> <<posts[p].at, p>>]
  <2>1. mine \subseteq 1 .. postIds /\ postIds \in Nat
    BY DEF ForumInv, ForumTypeOK
  <2>2. IsFiniteSet(1 .. postIds) BY <2>1, FS_Interval
  <2>3. IsFiniteSet(mine) BY <2>1, <2>2, FS_Subset
  <2>4. f \in Surjection(mine, FeedRows)
    <3>1. \A p \in mine : f[p] \in FeedRows BY DEF FeedRows
    <3>2. \A k \in FeedRows : \E p \in mine : f[p] = k BY DEF FeedRows
    <3>3. f \in [mine -> FeedRows] BY <3>1
    <3> QED BY <3>2, <3>3 DEF Surjection
  <2>5. IsFiniteSet(FeedRows) BY <2>3, <2>4, FS_Surjection
  <2>6. FeedRows \subseteq Pair BY DEF FeedRows, Pair, ForumInv, ForumTypeOK, Post
  <2> QED BY <2>5, <2>6
<1>2. Matching \subseteq Pair /\ IsFiniteSet(Matching)
  <2> DEFINE f == [n \in accounts |-> <<0, n>>]
  <2>1. f \in Surjection(accounts, Matching) BY DEF Surjection, Matching
  <2>2. IsFiniteSet(Matching) BY <2>1, FS_Surjection DEF RowsType
  <2> QED BY <2>2 DEF Matching, Pair, RowsType
<1> QED BY <1>1, <1>2 DEF Rows, RowsType

\* The same of the rows after a step.
LEMMA NextRowsFinite ==
  ASSUME ForumInv', RowsType'
  PROVE  Rows' \subseteq Pair /\ IsFiniteSet(Rows')
<1>1. (ForumInv /\ RowsType => Rows \subseteq Pair /\ IsFiniteSet(Rows))' BY RowsFinite, PTL
<1> QED BY <1>1 DEF Pair

-----------------------------------------------------------------------------
(* Pages *)

\* What comes after an entry is fewer than what comes after an earlier one.
LEMMA Fewer ==
  ASSUME NEW S \in SUBSET Pair, IsFiniteSet(S), NEW k \in S, NEW l \in S, Before(k, l)
  PROVE  /\ Cardinality({m \in S : Before(l, m)}) < Cardinality({m \in S : Before(k, m)})
         /\ Cardinality({m \in S : Before(m, k)}) < Cardinality({m \in S : Before(m, l)})
<1> DEFINE A(x) == {m \in S : Before(x, m)}
           B(x) == {m \in S : Before(m, x)}
<1>1. /\ A(l) \subseteq A(k) /\ l \in A(k) \ A(l)
      /\ B(k) \subseteq B(l) /\ k \in B(l) \ B(k)
  BY KeysOrdered
<1>2. /\ IsFiniteSet(A(k)) /\ IsFiniteSet(B(l)) BY FS_Subset
<1>3. /\ IsFiniteSet(A(l)) /\ IsFiniteSet(B(k))
      /\ Cardinality(A(l)) <= Cardinality(A(k)) /\ Cardinality(A(l)) # Cardinality(A(k))
      /\ Cardinality(B(k)) <= Cardinality(B(l)) /\ Cardinality(B(k)) # Cardinality(B(l))
  BY <1>1, <1>2, FS_Subset
<1>4. /\ Cardinality(A(k)) \in Nat /\ Cardinality(A(l)) \in Nat
      /\ Cardinality(B(k)) \in Nat /\ Cardinality(B(l)) \in Nat
  BY <1>2, <1>3, FS_CardinalityType
<1> QED BY <1>3, <1>4

\* A page cuts the list in two: what is not on it comes after its last entry.
LEMMA PageCuts ==
  ASSUME NEW S \in SUBSET Pair, IsFiniteSet(S), NEW n \in Nat,
         NEW last \in Newest(S, n), NEW k \in S \ Newest(S, n)
  PROVE  Before(k, last)
<1>1. last \in S BY DEF Newest
<1>2. ASSUME Before(last, k) PROVE FALSE
  <2>1. Cardinality({l \in S : Before(k, l)}) < Cardinality({l \in S : Before(last, l)})
    BY <1>1, <1>2, Fewer
  <2>2. /\ Cardinality({l \in S : Before(last, l)}) < n
        /\ ~(Cardinality({l \in S : Before(k, l)}) < n)
    BY DEF Newest
  <2>3. /\ Cardinality({l \in S : Before(k, l)}) \in Nat
        /\ Cardinality({l \in S : Before(last, l)}) \in Nat
    BY FS_Subset, FS_CardinalityType
  <2> QED BY <2>1, <2>2, <2>3
<1> QED BY <1>1, <1>2, KeysOrdered

\* How many rows come before k: its place in the order of a search.
Place(k) == Cardinality({l \in Rows : Before(l, k)})

\* A set of numbers that is not empty has a least one.
LEMMA LeastNumber ==
  ASSUME NEW T \in SUBSET Nat, T # {}
  PROVE  \E m \in T : \A n \in T : m <= n
<1> DEFINE R == {p \in Nat \X Nat : p[1] < p[2]}
<1>1. OpToRel(<, Nat) = R BY DEF OpToRel
<1>2. IsWellFoundedOn(R, Nat) BY <1>1, NatLessThanWellFounded
<1>3. PICK m \in T : \A n \in T : <<n, m>> \notin R
  BY <1>2, WFMin
<1>4. \A n \in T : ~(n < m) BY <1>3
<1> QED BY <1>4

\* A page of a search ends where the next begins.
LEMMA OffsetCuts ==
  ASSUME Rows \in SUBSET Pair, IsFiniteSet(Rows), offset \in Nat,
         NEW n \in Nat, NEW k \in AfterOffset \ Lowest(AfterOffset, n)
  PROVE  Place(k) >= offset + n
<1> DEFINE places == {Place(l) : l \in AfterOffset}
<1>1. \A l \in Pair : IsFiniteSet({m \in Rows : Before(m, l)}) /\ Place(l) \in Nat
  BY FS_Subset, FS_CardinalityType DEF Place
<1>2. AfterOffset \subseteq Rows /\ Rows \subseteq Pair /\ k \in AfterOffset BY DEF AfterOffset
<1>3. places \in SUBSET Nat /\ places # {} BY <1>1, <1>2
<1>4. \E least \in places : \A p \in places : least <= p BY <1>3, LeastNumber
<1>5. PICK first \in AfterOffset : \A l \in AfterOffset : Place(first) <= Place(l) BY <1>4
<1> DEFINE earlier == {l \in Rows : Before(l, first)}
           between == {l \in AfterOffset : Before(l, k)}
<1>6. \A l \in earlier : l \notin AfterOffset
  <2> SUFFICES ASSUME NEW l \in AfterOffset, Before(l, first) PROVE FALSE
    OBVIOUS
  <2>1. Place(l) < Place(first) BY <1>2, Fewer DEF Place
  <2>2. Place(first) <= Place(l) BY <1>5
  <2>3. Place(l) \in Nat /\ Place(first) \in Nat BY <1>1, <1>2
  <2> HIDE DEF places, earlier, between
  <2> QED BY <2>1, <2>2, <2>3
<1>7. first = k \/ Before(first, k)
  <2>1. ~Before(k, first) BY <1>2, <1>6
  <2> QED BY <1>2, <2>1, KeysOrdered
<1>8. /\ earlier \cup between \subseteq {l \in Rows : Before(l, k)}
      /\ earlier \cap between = {}
  <2>1. \A l \in earlier : Before(l, k) BY <1>2, <1>7, KeysOrdered
  <2> QED BY <1>2, <1>6, <2>1
<1>9. /\ IsFiniteSet(earlier) /\ IsFiniteSet(between)
      /\ IsFiniteSet({l \in Rows : Before(l, k)})
  BY <1>2, FS_Subset
<1>10. Cardinality(earlier \cup between) <= Place(k)
  BY <1>8, <1>9, FS_Subset DEF Place
<1>11. /\ Cardinality(earlier \cup between)
            = Cardinality(earlier) + Cardinality(between) - Cardinality(earlier \cap between)
       /\ Cardinality(earlier \cap between) = 0
  BY <1>8, <1>9, FS_Union, FS_EmptySet
<1>12. Cardinality(earlier) >= offset BY DEF AfterOffset
<1>13. ~(Cardinality(between) < n) BY DEF Lowest
<1>14. Cardinality(earlier) \in Nat /\ Cardinality(between) \in Nat /\ Place(k) \in Nat
  BY <1>1, <1>2, <1>9, FS_CardinalityType
<1> HIDE DEF earlier, between
<1> QED BY <1>10, <1>11, <1>12, <1>13, <1>14

-----------------------------------------------------------------------------
(* The reader *)

ReaderType ==
    /\ state \in {"away", "reading", "done", "broken", "refused"}
    /\ state # "away" => list \in ByKey \cup {"search"}
    /\ cursor \in Pair \cup {None} /\ offset \in Nat
    /\ shown \subseteq Pair /\ IsFiniteSet(shown) /\ received \in Nat
    /\ state = "away" => cursor = None /\ offset = 0 /\ shown = {} /\ received = 0 /\ stayed = {}

\* What has been shown does not come after the cursor, so no page repeats it.
ShownInv ==
    list \in ByKey =>
        /\ received = Cardinality(shown)
        /\ state = "reading" =>
              \A k \in shown : cursor # None /\ (k = cursor \/ Before(cursor, k))

\* What has stayed is shown or still to come.
StayInv ==
    /\ stayed \subseteq Rows
    /\ state = "reading" => stayed \subseteq shown \cup
                               (IF list = "search" THEN AfterOffset ELSE AfterCursor)
    /\ state = "done" => stayed \subseteq shown

ListInv == ForumInv /\ RowsType /\ ReaderType /\ ShownInv /\ StayInv

LEMMA InitListInv ==
  ASSUME Init
  PROVE  ListInv
<1>1. ForumInv BY InitForumInv DEF Init
<1> QED
  BY <1>1, FS_EmptySet
  DEF Init, ListInv, RowsType, ReaderType, ShownInv, StayInv

LEMMA OpenKeeps ==
  ASSUME ListInv, Open
  PROVE  ListInv'
<1>1. ForumInv' BY NothingKeeps DEF ListInv, Open, forumVars, ForumInv, ForumTypeOK
<1>2. RowsType' BY DEF ListInv, RowsType, Open, listed
<1>3. ReaderType' BY DEF ListInv, ReaderType, Open
<1>4. state = "away" /\ cursor = None /\ offset = 0 /\ shown = {} /\ received = 0
  BY DEF ListInv, ReaderType, Open
<1>5. /\ cursor' = None /\ offset' = 0 /\ shown' = {} /\ received' = 0
      /\ state' = "reading" /\ stayed' = Rows'
  BY <1>4 DEF Open
<1>6. ShownInv' BY <1>5, FS_EmptySet DEF ShownInv
<1>7. Rows' \subseteq AfterCursor' BY <1>5 DEF AfterCursor
<1>8. Rows' \subseteq AfterOffset'
  <2> SUFFICES ASSUME NEW k \in Rows' PROVE k \in AfterOffset'
    OBVIOUS
  <2>1. Rows' \subseteq Pair /\ IsFiniteSet(Rows') BY <1>1, <1>2, NextRowsFinite
  <2>2. Cardinality({l \in Rows' : Before(l, k)}) \in Nat
    BY <2>1, FS_Subset, FS_CardinalityType
  <2>3. Cardinality({l \in Rows' : Before(l, k)}) >= offset' BY <1>5, <2>2
  <2> QED BY <2>3 DEF AfterOffset, Before
<1>9. StayInv' BY <1>5, <1>7, <1>8 DEF StayInv
<1> QED BY <1>1, <1>2, <1>3, <1>6, <1>9 DEF ListInv

\* A page by key shows what has not been shown.
LEMMA PageIsNew ==
  ASSUME ListInv, state = "reading", list \in ByKey, NEW page \in SUBSET AfterCursor,
         Receive(page)
  PROVE  /\ page \subseteq Pair /\ IsFiniteSet(page)
         /\ shown' \subseteq Pair /\ IsFiniteSet(shown') /\ received' \in Nat
         /\ received' = Cardinality(shown')
<1>1. AfterCursor \subseteq Pair /\ IsFiniteSet(AfterCursor)
  BY RowsFinite, FS_Subset DEF ListInv, AfterCursor
<1>2. page \subseteq Pair /\ IsFiniteSet(page) BY <1>1, FS_Subset
<1>3. page \cap shown = {}
  <2> SUFFICES ASSUME NEW k \in page, k \in shown PROVE FALSE
    OBVIOUS
  <2>1. cursor # None /\ (k = cursor \/ Before(cursor, k))
    BY DEF ListInv, ShownInv
  <2>2. Before(k, cursor) BY <2>1 DEF AfterCursor
  <2>3. k \in Pair /\ cursor \in Pair BY <1>2, <2>1 DEF ListInv, ReaderType
  <2> QED BY <2>1, <2>2, <2>3, KeysOrdered
<1>4. /\ shown \subseteq Pair /\ IsFiniteSet(shown) /\ received = Cardinality(shown)
      /\ received \in Nat
  BY DEF ListInv, ReaderType, ShownInv
<1>5. /\ IsFiniteSet(shown \cup page)
      /\ Cardinality(shown \cup page)
            = Cardinality(shown) + Cardinality(page) - Cardinality(shown \cap page)
      /\ Cardinality(shown \cap page) = 0
  BY <1>2, <1>3, <1>4, FS_Union, FS_EmptySet
<1>6. Cardinality(page) \in Nat BY <1>2, FS_CardinalityType
<1> QED BY <1>2, <1>4, <1>5, <1>6 DEF Receive

\* The reader moves on and nothing else does.
LEMMA RowsStill ==
  ASSUME ListInv, UNCHANGED <<forumVars, listed, list>>
  PROVE  ForumInv' /\ RowsType' /\ Rows' = Rows
<1>1. ForumInv' BY NothingKeeps DEF ListInv, forumVars, ForumInv, ForumTypeOK
<1>2. RowsType' BY DEF ListInv, RowsType, listed
<1>3. Rows' = Rows BY DEF Rows, FeedRows, Matching, listed, forumVars, tables
<1> QED BY <1>1, <1>2, <1>3

LEMMA PageKeeps ==
  ASSUME ListInv, Page
  PROVE  ListInv'
<1>1. /\ state = "reading" /\ list \in ByKey /\ list # "search"
      /\ UNCHANGED <<list, offset, stayed>>
  BY DEF Page, ByKey
<1>2. ForumInv' /\ RowsType' /\ Rows' = Rows BY RowsStill DEF Page
<1>3. Rows \subseteq Pair /\ IsFiniteSet(Rows) BY RowsFinite DEF ListInv
<1>4. stayed \subseteq Rows /\ stayed \subseteq shown \cup AfterCursor
  BY <1>1 DEF ListInv, StayInv
<1>5. CASE Receive(AfterCursor) /\ state' = "done" /\ UNCHANGED cursor
  <2>1. /\ shown' \subseteq Pair /\ IsFiniteSet(shown') /\ received' \in Nat
        /\ received' = Cardinality(shown')
    BY <1>1, <1>5, PageIsNew
  <2>2. ReaderType' BY <1>1, <1>5, <2>1 DEF ListInv, ReaderType
  <2>3. ShownInv' BY <1>5, <2>1 DEF ShownInv
  <2>4. StayInv' BY <1>1, <1>2, <1>4, <1>5 DEF StayInv, Receive
  <2> QED BY <1>2, <2>2, <2>3, <2>4 DEF ListInv
<1>6. CASE state' = "broken" /\ UNCHANGED <<cursor, shown, received>>
  <2>1. ReaderType' BY <1>1, <1>6 DEF ListInv, ReaderType
  <2>2. ShownInv' BY <1>1, <1>6 DEF ListInv, ShownInv
  <2>3. StayInv' BY <1>1, <1>2, <1>4, <1>6 DEF StayInv
  <2> QED BY <1>2, <2>1, <2>2, <2>3 DEF ListInv
<1>7. ASSUME NEW last \in Newest(AfterCursor, Limit),
             Receive(Newest(AfterCursor, Limit)),
             \A k \in Newest(AfterCursor, Limit) : k = last \/ Before(last, k),
             cursor' = last, state' = state
      PROVE  ListInv'
  <2> DEFINE page == Newest(AfterCursor, Limit)
  <2>1. page \in SUBSET AfterCursor BY DEF Newest
  <2>2. /\ page \subseteq Pair
        /\ shown' \subseteq Pair /\ IsFiniteSet(shown') /\ received' \in Nat
        /\ received' = Cardinality(shown')
    BY <1>1, <1>7, <2>1, PageIsNew
  <2>3. last \in Pair /\ last # None /\ last \in AfterCursor
    BY <1>7, <2>1, <2>2, ListsAssumption DEF Pair
  <2>4. ReaderType' BY <1>1, <1>7, <2>2, <2>3 DEF ListInv, ReaderType
  <2>5. ASSUME NEW k \in shown' PROVE k = last \/ Before(last, k)
    <3>1. CASE k \in page BY <1>7, <3>1
    <3>2. CASE k \in shown
      <4>1. cursor # None /\ (k = cursor \/ Before(cursor, k))
        BY <1>1, <3>2 DEF ListInv, ShownInv
      <4>2. Before(last, cursor) BY <2>3, <4>1 DEF AfterCursor
      <4>3. k \in Pair /\ cursor \in Pair BY <2>2, <4>1 DEF ListInv, ReaderType
      <4> QED BY <2>3, <4>1, <4>2, <4>3, KeysOrdered
    <3> QED BY <1>7, <3>1, <3>2 DEF Receive
  <2>6. ShownInv' BY <1>7, <2>2, <2>3, <2>5 DEF ShownInv
  <2>7. ASSUME NEW k \in stayed PROVE k \in shown' \/ k \in AfterCursor'
    <3>1. CASE k \in shown \/ k \in page BY <1>7, <3>1 DEF Receive
    <3>2. CASE k \in AfterCursor \ page
      <4>1. AfterCursor \in SUBSET Pair /\ IsFiniteSet(AfterCursor)
        BY <1>3, FS_Subset DEF AfterCursor
      <4>2. Before(k, last) BY <1>7, <3>2, <4>1, PageCuts, ListsAssumption
      <4> QED BY <1>2, <1>4, <1>7, <4>2 DEF AfterCursor, Before
    <3> QED BY <1>4, <3>1, <3>2
  <2>8. StayInv' BY <1>1, <1>2, <1>4, <1>7, <2>7 DEF StayInv
  <2> QED BY <1>2, <2>4, <2>6, <2>8 DEF ListInv
<1> QED BY <1>5, <1>6, <1>7 DEF Page

\* The last page of a search is all that is left.
LEMMA LowestIsAll ==
  ASSUME NEW S \in SUBSET Pair, IsFiniteSet(S), NEW n \in Nat, Cardinality(S) <= n
  PROVE  Lowest(S, n) = S
<1> SUFFICES ASSUME NEW k \in S PROVE Cardinality({l \in S : Before(l, k)}) < n
  BY DEF Lowest
<1> DEFINE before == {l \in S : Before(l, k)}
<1>1. before \subseteq S /\ before # S BY KeysOrdered
<1>2. /\ IsFiniteSet(before)
      /\ Cardinality(before) <= Cardinality(S) /\ Cardinality(before) # Cardinality(S)
  BY <1>1, FS_Subset
<1>3. Cardinality(before) \in Nat /\ Cardinality(S) \in Nat
  BY <1>2, FS_CardinalityType
<1> QED BY <1>2, <1>3

LEMMA SearchPageKeeps ==
  ASSUME ListInv, SearchPage
  PROVE  ListInv'
<1>1. /\ state = "reading" /\ list = "search" /\ list \notin ByKey
      /\ UNCHANGED <<list, cursor, stayed>>
  BY DEF SearchPage, ByKey
<1>2. ForumInv' /\ RowsType' /\ Rows' = Rows BY RowsStill DEF SearchPage
<1>3. Rows \subseteq Pair /\ IsFiniteSet(Rows) BY RowsFinite DEF ListInv
<1>4. stayed \subseteq Rows /\ stayed \subseteq shown \cup AfterOffset
  BY <1>1 DEF ListInv, StayInv
<1>5. ShownInv' BY <1>1 DEF ShownInv
<1>6. CASE state' = "refused" /\ UNCHANGED <<offset, shown, received>>
  <2>1. ReaderType' BY <1>1, <1>6 DEF ListInv, ReaderType
  <2>2. StayInv' BY <1>2, <1>1, <1>4, <1>6 DEF StayInv
  <2> QED BY <1>2, <1>5, <2>1, <2>2 DEF ListInv
<1>7. CASE /\ Receive(Lowest(AfterOffset, Limit))
           /\ IF Cardinality(AfterOffset) > Limit
              THEN offset' = offset + Limit /\ UNCHANGED state
              ELSE state' = "done" /\ UNCHANGED offset
  <2> DEFINE page == Lowest(AfterOffset, Limit)
  <2>1. AfterOffset \in SUBSET Pair /\ IsFiniteSet(AfterOffset)
    BY <1>3, FS_Subset DEF AfterOffset
  <2>2. page \subseteq Pair /\ IsFiniteSet(page) BY <2>1, FS_Subset DEF Lowest
  <2>3. Cardinality(page) \in Nat BY <2>2, FS_CardinalityType
  <2>4. shown' \subseteq Pair /\ IsFiniteSet(shown') /\ received' \in Nat
    <3>1. shown \subseteq Pair /\ IsFiniteSet(shown) /\ received \in Nat
      BY DEF ListInv, ReaderType
    <3>2. shown' = shown \cup page /\ received' = received + Cardinality(page)
      BY <1>7 DEF Receive
    <3>3. IsFiniteSet(shown \cup page) BY <2>2, <3>1, FS_Union
    <3> HIDE DEF page
    <3> QED BY <2>2, <2>3, <3>1, <3>2, <3>3
  <2>5. offset \in Nat /\ Limit \in Nat /\ Cardinality(AfterOffset) \in Nat
    BY <2>1, FS_CardinalityType, ListsAssumption DEF ListInv, ReaderType
  <2>6. ReaderType' BY <1>1, <1>7, <2>4, <2>5 DEF ListInv, ReaderType
  <2>7. CASE Cardinality(AfterOffset) > Limit
    <3>1. offset' = offset + Limit /\ state' = "reading" BY <1>1, <1>7, <2>7
    <3>2. ASSUME NEW k \in stayed PROVE k \in shown' \/ k \in AfterOffset'
      <4>1. CASE k \in shown \/ k \in page BY <1>7, <4>1 DEF Receive
      <4>2. CASE k \in AfterOffset \ page
        <5>1. Place(k) >= offset + Limit BY <1>3, <2>5, <4>2, OffsetCuts
        <5>2. Cardinality({l \in Rows' : Before(l, k)}) >= offset'
          BY <1>2, <3>1, <5>1 DEF Place
        <5> QED BY <1>2, <1>4, <5>2 DEF AfterOffset, Before
      <4> QED BY <1>4, <4>1, <4>2
    <3>3. StayInv' BY <1>1, <1>2, <1>4, <3>1, <3>2 DEF StayInv
    <3> QED BY <1>2, <1>5, <2>6, <3>3 DEF ListInv
  <2>8. CASE ~(Cardinality(AfterOffset) > Limit)
    <3>1. page = AfterOffset BY <2>1, <2>5, <2>8, LowestIsAll
    <3>2. StayInv' BY <1>1, <1>2, <1>4, <1>7, <2>8, <3>1 DEF StayInv, Receive
    <3> QED BY <1>2, <1>5, <2>6, <3>2 DEF ListInv
  <2> QED BY <2>7, <2>8
<1> QED BY <1>6, <1>7 DEF SearchPage

\* What is listed changes, but nobody who has an account loses it.
LEMMA ChangeKeeps ==
  ASSUME ListInv, ForumInv', RowsType', UNCHANGED reader, Stay, accounts \subseteq accounts'
  PROVE  ListInv'
<1>1. ReaderType'
  BY DEF ListInv, ReaderType, reader, Stay
<1>2. ShownInv' BY DEF ListInv, ShownInv, reader
<1>3. ASSUME state = "reading", list = "search", NEW k \in stayed', k \in AfterOffset
      PROVE  k \in AfterOffset'
  <2>1. Rows \subseteq Rows' BY <1>3 DEF Rows, Matching, reader
  <2>2. Rows' \subseteq Pair /\ IsFiniteSet(Rows') BY NextRowsFinite
  <2> DEFINE old == {l \in Rows : Before(l, k)}
             new == {l \in Rows' : Before(l, k)}
  <2>3. IsFiniteSet(new) /\ old \subseteq new BY <2>1, <2>2, FS_Subset
  <2>4. Cardinality(old) <= Cardinality(new) /\ IsFiniteSet(old) BY <2>3, FS_Subset
  <2>5. Cardinality(old) \in Nat /\ Cardinality(new) \in Nat BY <2>3, <2>4, FS_CardinalityType
  <2>6. Cardinality(old) >= offset /\ offset \in Nat
    BY <1>3 DEF AfterOffset, ListInv, ReaderType
  <2>7. Cardinality(new) >= offset' BY <2>4, <2>5, <2>6 DEF reader
  <2>8. k \in Rows' BY DEF Stay
  <2> QED BY <2>7, <2>8 DEF AfterOffset, Before
<1>4. ASSUME NEW k \in stayed', k \in AfterCursor PROVE k \in AfterCursor'
  BY <1>4 DEF AfterCursor, Before, reader, Stay
<1>5. StayInv'
  BY <1>3, <1>4 DEF ListInv, StayInv, reader, Stay
<1> QED BY <1>1, <1>2, <1>5 DEF ListInv

LEMMA StepListInv ==
  ASSUME ListInv, [Next]_vars
  PROVE  ListInv'
<1>1. ASSUME Meanwhile PROVE ListInv'
  <2>1. ForumInv' BY <1>1, StepForumInv DEF Meanwhile, ListInv
  <2>2. RowsType' /\ accounts' = accounts BY <1>1 DEF Meanwhile, listed, ListInv, RowsType
  <2> QED BY <1>1, <2>1, <2>2, ChangeKeeps DEF Meanwhile
<1>2. ASSUME ChangeSources \/ ChangeRelated \/ Register PROVE ListInv'
  <2>1. ForumInv'
    BY <1>2, NothingKeeps
    DEF ChangeSources, ChangeRelated, Register, forumVars, ListInv, ForumInv, ForumTypeOK
  <2>2. RowsType' /\ accounts \subseteq accounts'
    <3>1. ASSUME ChangeSources PROVE RowsType' /\ accounts \subseteq accounts'
      BY <3>1 DEF ChangeSources, ListInv, RowsType
    <3>2. ASSUME ChangeRelated PROVE RowsType' /\ accounts \subseteq accounts'
      <4>1. PICK k \in Key : related' = related \cup {k} \/ related' = related \ {k}
        BY <3>2 DEF ChangeRelated
      <4>2. k \in Pair BY ListsAssumption DEF Pair
      <4>3. IsFiniteSet(related') BY <4>1, FS_AddElement, FS_RemoveElement DEF ListInv, RowsType
      <4> QED BY <3>2, <4>1, <4>2, <4>3 DEF ChangeRelated, ListInv, RowsType
    <3>3. ASSUME Register PROVE RowsType' /\ accounts \subseteq accounts'
      <4>1. PICK n \in Rank : accounts' = accounts \cup {n} BY <3>3 DEF Register
      <4>2. IsFiniteSet(accounts') BY <4>1, FS_AddElement DEF ListInv, RowsType
      <4> QED BY <3>3, <4>1, <4>2, ListsAssumption DEF Register, ListInv, RowsType
    <3> QED BY <1>2, <3>1, <3>2, <3>3
  <2> QED BY <1>2, <2>1, <2>2, ChangeKeeps DEF ChangeSources, ChangeRelated, Register
<1>3. ASSUME UNCHANGED vars PROVE ListInv'
  <2>1. ForumInv' /\ RowsType' /\ Rows' = Rows BY <1>3, RowsStill DEF vars, reader
  <2>2. ReaderType' /\ ShownInv' BY <1>3 DEF vars, reader, ListInv, ReaderType, ShownInv
  <2>3. StayInv' BY <1>3, <2>1 DEF vars, reader, ListInv, StayInv, AfterOffset, AfterCursor
  <2> QED BY <2>1, <2>2, <2>3 DEF ListInv
<1> QED BY <1>1, <1>2, <1>3, OpenKeeps, PageKeeps, SearchPageKeeps DEF Next

-----------------------------------------------------------------------------
(* The theorems *)

\* friend_feed, list_friends, list_requests and list_blocks repeat no entry.
THEOREM NeverTwice == Spec => []NothingTwice
<1>1. Init => ListInv BY InitListInv
<1>2. ListInv /\ [Next]_vars => ListInv' BY StepListInv
<1>3. ListInv => NothingTwice BY DEF ListInv, ShownInv, NothingTwice
<1> QED BY <1>1, <1>2, <1>3, PTL DEF Spec

\* Nor do they, or search_users, skip what has been there all the time.
THEOREM StayersAlwaysShown == Spec => []StayersShown
<1>1. Init => ListInv BY InitListInv
<1>2. ListInv /\ [Next]_vars => ListInv' BY StepListInv
<1>3. ListInv => StayersShown BY DEF ListInv, StayInv, StayersShown
<1> QED BY <1>1, <1>2, <1>3, PTL DEF Spec
=============================================================================
