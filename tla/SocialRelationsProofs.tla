----------------------- MODULE SocialRelationsProofs -----------------------
(***************************************************************************)
(* The social relations are consistent whatever the number of users, tasks *)
(* and connections.                                                        *)
(***************************************************************************)
EXTENDS SocialRelations, TLAPS

\* What a step of one task leaves alone.
OthersUntouched(t) ==
    \A x \in Task \ {t} : /\ pc'[x] = pc[x] /\ call'[x] = call[x]
                          /\ key'[x] = key[x] /\ tx'[x] = tx[x]
                          /\ found'[x] = found[x]

\* A step that enters the locked region found the lock free; a step that takes
\* up a create call drew a fresh id.
EntersSafely(t) ==
    /\ pc'[t] \in Locked => key'[t] = key[t] /\ (pc[t] \in Locked \/ LockFree(t))
    /\ pc'[t] # "idle" /\ call'[t].op = "create" =>
          \/ pc[t] # "idle" /\ call'[t] = call[t]
          \/ Fresh(call'[t].req)

\* A step that leaves the tables alone leaves every query over them alone.
LEMMA TablesSame ==
    ASSUME UNCHANGED graph
    PROVE  /\ friendships' = friendships /\ blocks' = blocks /\ requests' = requests
           /\ \A r : IsPending(r)' <=> IsPending(r)
           /\ \A r : PairOf(r)' = PairOf(r)
           /\ \A p : PendingBetween(p)' = PendingBetween(p)
           /\ \A u, v : PendingFrom(u, v)' = PendingFrom(u, v)
           /\ \A u, v : BlockedEitherWay(u, v)' <=> BlockedEitherWay(u, v)
BY DEF graph, IsPending, PairOf, PendingBetween, PendingFrom, BlockedEitherWay

\* A step of task t that leaves the tables alone preserves the invariant once
\* t itself satisfies its part and entered the locked region lawfully.
LEMMA QuietStep ==
    ASSUME NEW t \in Task, IndInv, UNCHANGED graph, OthersUntouched(t),
           TypeOK', TaskInv(t)', EntersSafely(t)
    PROVE  IndInv'
<1>1. TablesConsistent'
  BY DEF IndInv, graph, TablesConsistent, AtMostOnePendingPerPair, PendingExcludesFriendship,
         NoPendingAcrossBlock, IsPending, PairOf, BlockedEitherWay
<1>2. PairLockExcludes'
  BY DEF IndInv, PairLockExcludes, OthersUntouched, EntersSafely, LockFree
<1>3. IdsDistinct'
  BY DEF IndInv, IdsDistinct, OthersUntouched, EntersSafely, Fresh
<1>4. ASSUME NEW x \in Task \ {t} PROVE TaskInv(x)'
  <2>1. TaskInv(x) BY DEF IndInv
  <2>2. /\ pc'[x] = pc[x] /\ call'[x] = call[x] /\ key'[x] = key[x] /\ tx'[x] = tx[x]
        /\ found'[x] = found[x]
    BY DEF OthersUntouched
  <2> QED
    BY <2>1, <2>2, TablesSame DEF TaskInv, CallInv, WritesInv, CreateInv, AnswerInv,
       NamesAnother
<1> QED BY <1>1, <1>2, <1>3, <1>4 DEF IndInv

\* A step that moves task t to the statement s, with w as its pending writes.
LEMMA Advances ==
    ASSUME NEW t \in Task, NEW s \in Statement, NEW w \in Writes, IndInv,
           pc[t] # "idle", GoTo(t, s), tx' = [tx EXCEPT ![t] = w],
           UNCHANGED graph, refusing' = refusing, owed' \subseteq owed,
           s \in Locked => pc[t] \in Locked \/ LockFree(t),
           TaskInv(t)'
    PROVE  IndInv'
<1>1. OthersUntouched(t) BY DEF GoTo, OthersUntouched, IndInv, TypeOK
<1>2. TypeOK' BY DEF GoTo, IndInv, TypeOK, graph, GraphTypeOK
<1>3. EntersSafely(t) BY DEF GoTo, IndInv, TypeOK, EntersSafely
<1> QED BY <1>1, <1>2, <1>3, QuietStep

\* A step that moves task t to the statement s and remembers the id r.
LEMMA AdvancesRemembering ==
    ASSUME NEW t \in Task, NEW s \in Statement, NEW w \in Writes, NEW r \in RequestId,
           IndInv, pc[t] \in Locked, Remember(t, r, s), tx' = [tx EXCEPT ![t] = w],
           UNCHANGED graph, refusing' = refusing, owed' = owed, TaskInv(t)'
    PROVE  IndInv'
<1>1. OthersUntouched(t) BY DEF Remember, OthersUntouched, IndInv, TypeOK
<1>2. TypeOK' BY DEF Remember, IndInv, TypeOK, graph, GraphTypeOK
<1>3. EntersSafely(t) BY DEF Remember, IndInv, TypeOK, EntersSafely, Locked
<1> QED BY <1>1, <1>2, <1>3, QuietStep

\* A step that ends the handler of task t, whatever it had reached.
LEMMA Finishes ==
    ASSUME NEW t \in Task, IndInv, Finish(t),
           UNCHANGED graph, refusing' = refusing, owed' \subseteq owed
    PROVE  IndInv'
<1>1. OthersUntouched(t) BY DEF Finish, OthersUntouched, IndInv, TypeOK
<1>2. NoWrites \in Writes BY DEF NoWrites, Writes
<1>3. TypeOK'
  BY <1>2 DEF Finish, IndInv, TypeOK, graph, GraphTypeOK, Statement
<1>4. EntersSafely(t) BY DEF Finish, IndInv, TypeOK, EntersSafely, Locked
<1>5. TaskInv(t)' BY DEF Finish, IndInv, TypeOK, TaskInv
<1> QED BY <1>1, <1>3, <1>4, <1>5, QuietStep


\* create_request: the lookup of the recipient keeps the invariant.
LEMMA CheckRecipientStep ==
    ASSUME IndInv, NEW t \in Task, CheckRecipient(t)
    PROVE  IndInv'
<1>1. TaskInv(t)'
  BY TablesSame DEF CheckRecipient, Check, At, GoTo, IndInv, TypeOK, TaskInv, CallInv, WritesInv,
         CreateInv, AnswerInv, StatementsOf, NamesAnother, ByRequest, NoWrites
<1> QED
  BY <1>1, Advances DEF CheckRecipient, Check, At, IndInv, TypeOK, Statement, InTx, Locked

\* create_request: once the block check passes, nobody of the pair blocks the
\* other as long as the pair lock is held.
LEMMA CheckBlocksStep ==
    ASSUME IndInv, NEW t \in Task, CheckBlocks(t)
    PROVE  IndInv'
<1>1. TaskInv(t)'
  BY TablesSame DEF CheckBlocks, Check, At, GoTo, IndInv, TypeOK, TaskInv, CallInv, WritesInv,
         CreateInv, AnswerInv, StatementsOf, NamesAnother, ByRequest, NoWrites
<1> QED
  BY <1>1, Advances DEF CheckBlocks, Check, At, IndInv, TypeOK, Statement, InTx, Locked

\* create_request: the policy check keeps what was found out before it.
LEMMA CheckPolicyStep ==
    ASSUME IndInv, NEW t \in Task, CheckPolicy(t)
    PROVE  IndInv'
<1>1. TaskInv(t)'
  BY TablesSame DEF CheckPolicy, Check, At, GoTo, IndInv, TypeOK, TaskInv, CallInv, WritesInv,
         CreateInv, AnswerInv, StatementsOf, NamesAnother, ByRequest, NoWrites
<1> QED
  BY <1>1, Advances DEF CheckPolicy, Check, At, IndInv, TypeOK, Statement, InTx, Locked

\* create_request: past the friendship check the two are no friends.
LEMMA CheckFriendsStep ==
    ASSUME IndInv, NEW t \in Task, CheckFriends(t)
    PROVE  IndInv'
<1>1. TaskInv(t)'
  BY TablesSame DEF CheckFriends, Check, At, GoTo, IndInv, TypeOK, TaskInv, CallInv, WritesInv,
         CreateInv, AnswerInv, StatementsOf, NamesAnother, ByRequest, NoWrites
<1> QED
  BY <1>1, Advances DEF CheckFriends, Check, At, IndInv, TypeOK, Statement, InTx, Locked

\* create_request: past the reverse check the pair has no open request at all.
LEMMA CheckReverseStep ==
    ASSUME IndInv, NEW t \in Task, CheckReverse(t)
    PROVE  IndInv'
<1>1. /\ pc[t] = "reverse" /\ call' = call /\ key' = key /\ tx' = tx /\ UNCHANGED graph
      /\ pc'[t] \in {"rollback", "insert"}
      /\ pc'[t] = "insert" => PendingFrom(call[t].other, call[t].viewer) = {}
  BY DEF CheckReverse, Check, At, GoTo, IndInv, TypeOK
<1>2. CallInv(t) /\ WritesInv(t) /\ CreateInv(t) /\ AnswerInv(t) /\ call[t].op = "create"
  BY <1>1 DEF IndInv, TaskInv, CallInv, StatementsOf
<1>3. TaskInv(t)'
  BY <1>1, <1>2, TablesSame
     DEF TaskInv, CallInv, WritesInv, CreateInv, AnswerInv, StatementsOf, NamesAnother,
         ByRequest, NoWrites
<1> QED
  BY <1>3, Advances DEF CheckReverse, Check, At, IndInv, TypeOK, Statement, InTx, Locked

\* create_request: an open request of the same direction is remembered, and
\* stays open as long as the pair lock is held.
LEMMA FindExistingStep ==
    ASSUME IndInv, NEW t \in Task, FindExisting(t)
    PROVE  IndInv'
<1> DEFINE mine == PendingFrom(call[t].viewer, call[t].other)
<1>1. /\ pc[t] = "existing" /\ call' = call /\ key' = key /\ tx' = tx /\ UNCHANGED graph
      /\ refusing' = refusing /\ owed' = owed
  BY DEF FindExisting, At, GoTo, Remember
<1>2. CallInv(t) /\ WritesInv(t) /\ CreateInv(t) /\ AnswerInv(t) /\ call[t].op = "create"
  BY <1>1 DEF IndInv, TaskInv, CallInv, StatementsOf
<1>3. tx[t] \in Writes /\ tx' = [tx EXCEPT ![t] = tx[t]] BY <1>1 DEF IndInv, TypeOK
<1>4. CASE mine = {} /\ GoTo(t, "reverse")
  <2>1. pc'[t] = "reverse" BY <1>4 DEF GoTo, IndInv, TypeOK
  <2>2. TaskInv(t)'
    BY <1>1, <1>2, <1>4, <2>1, TablesSame
       DEF TaskInv, CallInv, WritesInv, CreateInv, AnswerInv, StatementsOf, NamesAnother,
           ByRequest
  <2> QED BY <1>1, <1>3, <1>4, <2>2, Advances DEF Statement, InTx, Locked
<1>5. ASSUME NEW r \in mine, Remember(t, r, "repeat") PROVE IndInv'
  <2>1. pc'[t] = "repeat" /\ found'[t] = r BY <1>5 DEF Remember, IndInv, TypeOK
  <2>2. TaskInv(t)'
    BY <1>1, <1>2, <1>5, <2>1, TablesSame
       DEF TaskInv, CallInv, WritesInv, CreateInv, AnswerInv, StatementsOf, NamesAnother,
           ByRequest
  <2>3. r \in RequestId BY DEF PendingFrom, IndInv, TypeOK, GraphTypeOK
  <2> QED BY <1>1, <1>3, <1>5, <2>2, <2>3, AdvancesRemembering DEF Statement, InTx, Locked
<1> QED BY <1>4, <1>5 DEF FindExisting

\* create_request: the commit of a repeat leaves a request to answer with.
LEMMA CommitRepeatStep ==
    ASSUME IndInv, NEW t \in Task, CommitRepeat(t)
    PROVE  IndInv'
<1>1. TaskInv(t)'
  BY TablesSame DEF CommitRepeat, At, GoTo, IndInv, TypeOK, TaskInv, CallInv, WritesInv,
         CreateInv, AnswerInv, StatementsOf, NamesAnother, ByRequest, NoWrites, PendingFrom
<1> QED
  BY <1>1, Advances DEF CommitRepeat, At, IndInv, TypeOK, Statement, InTx, Locked

\* Taking a connection keeps the invariant.
LEMMA BeginStep ==
    ASSUME IndInv, NEW t \in Task, Begin(t)
    PROVE  IndInv'
<1>1. /\ pc[t] = "begin" /\ call' = call /\ key' = key /\ tx' = tx /\ UNCHANGED graph
      /\ pc'[t] = IF call[t].op \in ByRequest THEN "find" ELSE "lock"
  BY DEF Begin, At, GoTo, IndInv, TypeOK
<1>2. CallInv(t) /\ WritesInv(t) /\ CreateInv(t) /\ AnswerInv(t) /\ call[t] \in Call
  BY <1>1 DEF IndInv, TaskInv, CallInv, StatementsOf
<1>3. TaskInv(t)'
  BY <1>1, <1>2, TablesSame
     DEF TaskInv, CallInv, WritesInv, CreateInv, AnswerInv, StatementsOf, NamesAnother,
         ByRequest, NoWrites
<1> QED
  BY <1>3, Advances DEF Begin, At, IndInv, TypeOK, Statement, InTx, Locked

\* Taking the pair lock when it is free keeps the invariant.
LEMMA LockPairStep ==
    ASSUME IndInv, NEW t \in Task, LockPair(t)
    PROVE  IndInv'
<1>1. /\ pc[t] = "lock" /\ call' = call /\ key' = key /\ tx' = tx /\ UNCHANGED graph
      /\ pc'[t] = IF call[t].op = "create" THEN "exists"
                  ELSE IF call[t].op \in ByRequest THEN "row" ELSE "write"
  BY DEF LockPair, At, GoTo, IndInv, TypeOK, ByRequest
<1>2. CallInv(t) /\ WritesInv(t) /\ CreateInv(t) /\ AnswerInv(t)
  BY <1>1 DEF IndInv, TaskInv, CallInv, StatementsOf
<1>3. TaskInv(t)'
  BY <1>1, <1>2, TablesSame
     DEF TaskInv, CallInv, WritesInv, CreateInv, AnswerInv, StatementsOf, NamesAnother,
         ByRequest, NoWrites
<1> QED
  BY <1>3, Advances DEF LockPair, At, IndInv, TypeOK, Statement, InTx, Locked

\* The insert of create_request finds no open request and opens its own.
LEMMA InsertRequestStep ==
    ASSUME IndInv, NEW t \in Task, InsertRequest(t)
    PROVE  IndInv'
<1> DEFINE u == call[t].viewer
           v == call[t].other
           w == [tx[t] EXCEPT !.opened = TRUE]
<1>1. /\ pc[t] = "insert" /\ call' = call /\ key' = key /\ UNCHANGED graph
      /\ refusing' = refusing /\ owed' = owed
  BY DEF InsertRequest, At, Remember
<1>2. /\ CallInv(t) /\ WritesInv(t) /\ CreateInv(t) /\ AnswerInv(t)
      /\ call[t].op = "create" /\ call[t] \in Call /\ tx[t] = NoWrites
  BY <1>1 DEF IndInv, TaskInv, CallInv, WritesInv, StatementsOf
<1>3. PendingFrom(u, v) = {} /\ PendingBetween(Pair(u, v)) = {}
  BY <1>1, <1>2 DEF CreateInv, PendingBetween, PendingFrom, Pair, PairOf
<1>4. Remember(t, call[t].req, "commit") /\ tx' = [tx EXCEPT ![t] = w]
  <2>1. (PendingFrom(u, v) = {}) = TRUE BY <1>3
  <2> QED BY <1>3, <2>1 DEF InsertRequest
<1>5. /\ w \in Writes /\ tx'[t] = w /\ w.opened
      /\ w.link = "keep" /\ ~w.block /\ w.rows = {}
  <2>1. tx[t] \in Writes BY DEF IndInv, TypeOK
  <2>2. w \in Writes BY <2>1 DEF Writes
  <2>3. w.link = tx[t].link /\ w.block = tx[t].block /\ w.rows = tx[t].rows /\ w.opened
    BY <2>1 DEF Writes
  <2> QED BY <1>2, <1>4, <2>2, <2>3 DEF NoWrites, IndInv, TypeOK
<1> HIDE DEF w
<1>6. pc'[t] = "commit" /\ found'[t] = call[t].req
  BY <1>4 DEF Remember, IndInv, TypeOK
<1>7. TaskInv(t)'
  BY <1>1, <1>2, <1>3, <1>5, <1>6, TablesSame
     DEF TaskInv, CallInv, WritesInv, CreateInv, AnswerInv, StatementsOf, NamesAnother,
         ByRequest
<1>8. call[t].req \in RequestId BY <1>2 DEF Call, ByRequest, ByUser
<1> QED
  BY <1>1, <1>4, <1>5, <1>7, <1>8, AdvancesRemembering DEF Statement, InTx, Locked

\* The row lock of accept, reject and cancel is on an open request of the pair.
LEMMA LockRowStep ==
    ASSUME IndInv, NEW t \in Task, LockRow(t)
    PROVE  IndInv'
<1> DEFINE w == [tx[t] EXCEPT !.rows = {call[t].req}]
<1>1. /\ pc[t] = "row" /\ call' = call /\ key' = key /\ UNCHANGED graph
      /\ pc'[t] \in {"write", "rollback"}
      /\ pc'[t] = "write" => IsPending(call[t].req)
      /\ tx' = [tx EXCEPT ![t] = w]
  BY DEF LockRow, Handleable, At, GoTo, IndInv, TypeOK
<1>2. /\ CallInv(t) /\ WritesInv(t)
      /\ call[t].op \in ByRequest
      /\ call[t].req \in DOMAIN requests /\ key[t] = PairOf(call[t].req)
      /\ tx[t] = NoWrites
  BY <1>1 DEF IndInv, TaskInv, CallInv, WritesInv, StatementsOf, ByRequest
<1>3. /\ w \in Writes /\ tx'[t] = w
      /\ ~w.opened /\ w.link = "keep" /\ ~w.block /\ w.rows = {call[t].req}
  <2>1. tx[t] \in Writes /\ call[t].req \in RequestId
    BY <1>2 DEF IndInv, TypeOK, GraphTypeOK
  <2>2. w \in Writes BY <2>1 DEF Writes
  <2>3. w.link = tx[t].link /\ w.block = tx[t].block /\ w.opened = tx[t].opened
        /\ w.rows = {call[t].req}
    BY <2>1 DEF Writes
  <2> QED BY <1>1, <1>2, <2>2, <2>3 DEF IndInv, TypeOK, NoWrites
<1> HIDE DEF w
<1>4. TaskInv(t)'
  BY <1>1, <1>2, <1>3, TablesSame
     DEF TaskInv, CallInv, WritesInv, CreateInv, AnswerInv, StatementsOf, NamesAnother,
         ByRequest
<1> QED
  BY <1>1, <1>3, <1>4, Advances DEF LockRow, At, Statement, InTx, Locked

\* The first write of a handler keeps the invariant.
LEMMA WriteStep ==
    ASSUME IndInv, NEW t \in Task, Write(t)
    PROVE  IndInv'
<1> DEFINE l == CASE call[t].op = "accept" /\ key[t] \notin friendships -> "add"
                  [] call[t].op = "remove" /\ key[t] \in friendships -> "drop"
                  [] OTHER -> "keep"
           b == call[t].op = "block" /\ <<call[t].viewer, call[t].other>> \notin blocks
           w == [tx[t] EXCEPT !.link = l, !.block = b]
<1>1. /\ pc[t] = "write" /\ call' = call /\ key' = key /\ UNCHANGED graph
      /\ pc'[t] = IF call[t].op \in {"accept", "block"} THEN "sweep" ELSE "commit"
      /\ tx' = [tx EXCEPT ![t] = w]
  BY DEF Write, At, GoTo, IndInv, TypeOK
<1>2. CallInv(t) /\ WritesInv(t) /\ call[t].op # "create"
  BY <1>1 DEF IndInv, TaskInv, CallInv, StatementsOf
<1>3. /\ l \in {"keep", "add", "drop"} /\ b \in BOOLEAN
      /\ l = "add" => call[t].op = "accept"
      /\ l = "drop" => call[t].op = "remove"
      /\ b => call[t].op = "block"
      /\ call[t].op = "accept" => l = "add"
      /\ call[t].op = "block" /\ ~b => PendingBetween(key[t]) = {}
  <2>1. call[t].op = "accept" => key[t] \notin friendships
    <3>1. call[t].op = "accept" => call[t].req \in tx[t].rows
      BY <1>1, <1>2 DEF WritesInv, ByRequest
    <3> QED BY <1>1, <1>2, <3>1 DEF WritesInv, IndInv, TablesConsistent, PendingExcludesFriendship
  <2>2. call[t].op = "block" /\ ~b => PendingBetween(key[t]) = {}
    <3> SUFFICES ASSUME call[t].op = "block", ~b, NEW r \in PendingBetween(key[t]) PROVE FALSE
      OBVIOUS
    <3>1. key[t] = Pair(call[t].viewer, call[t].other)
      BY <1>2 DEF CallInv, PairKey, ByRequest
    <3>2. r \in DOMAIN requests /\ IsPending(r) /\ PairOf(r) = key[t]
      BY DEF PendingBetween
    <3> QED
      BY <3>1, <3>2
         DEF IndInv, TablesConsistent, NoPendingAcrossBlock, BlockedEitherWay, PairOf, Pair
  <2> QED BY <2>1, <2>2
<1> HIDE DEF l, b
<1>4. /\ w \in Writes /\ tx'[t] = w
      /\ w.link = l /\ w.block = b /\ w.opened = tx[t].opened /\ w.rows = tx[t].rows
  BY <1>1, <1>3 DEF IndInv, TypeOK, Writes
<1> HIDE DEF w
<1>5. TaskInv(t)'
  BY <1>1, <1>2, <1>3, <1>4, TablesSame
     DEF TaskInv, CallInv, WritesInv, CreateInv, AnswerInv, StatementsOf, NamesAnother,
         ByRequest
<1> QED
  BY <1>1, <1>4, <1>5, Advances DEF Write, At, Statement, InTx, Locked

\* The sweep of accept and block takes hold of every open request of the pair.
LEMMA SweepStep ==
    ASSUME IndInv, NEW t \in Task, Sweep(t)
    PROVE  IndInv'
<1> DEFINE w == [tx[t] EXCEPT !.rows = @ \cup PendingBetween(key[t])]
<1>1. /\ pc[t] = "sweep" /\ call' = call /\ key' = key /\ UNCHANGED graph
      /\ pc'[t] = "commit"
      /\ tx' = [tx EXCEPT ![t] = w]
  BY DEF Sweep, Withdrawn, At, GoTo, IndInv, TypeOK
<1>2. CallInv(t) /\ WritesInv(t) /\ call[t].op \in {"accept", "block"}
  BY <1>1 DEF IndInv, TaskInv, CallInv, StatementsOf
<1>3. /\ w \in Writes /\ tx'[t] = w
      /\ w.link = tx[t].link /\ w.block = tx[t].block /\ w.opened = tx[t].opened
      /\ w.rows = tx[t].rows \cup PendingBetween(key[t])
  BY <1>1 DEF IndInv, TypeOK, GraphTypeOK, Writes, PendingBetween
<1> HIDE DEF w
<1>4. \A r \in w.rows : r \in DOMAIN requests /\ PairOf(r) = key[t] /\ IsPending(r)
  BY <1>1, <1>2, <1>3 DEF WritesInv, PendingBetween
<1>5. WritesInv(t)'
  BY <1>1, <1>2, <1>3, <1>4, TablesSame DEF WritesInv, ByRequest
<1>6. TaskInv(t)'
  BY <1>1, <1>2, <1>5, TablesSame
     DEF TaskInv, CallInv, CreateInv, AnswerInv, StatementsOf, NamesAnother
<1> QED
  BY <1>1, <1>3, <1>6, Advances DEF Sweep, At, Statement, InTx, Locked

\* block_user: the lookup of its target keeps the invariant.
LEMMA TargetStep ==
    ASSUME IndInv, NEW t \in Task, Target(t)
    PROVE  IndInv'
<1>1. CASE Finish(t)
  BY <1>1, Finishes DEF Target
<1>2. CASE call[t].other \in Account /\ GoTo(t, "begin") /\ tx' = tx
  <2>1. /\ pc[t] = "target" /\ pc'[t] = "begin" /\ UNCHANGED graph
        /\ call' = call /\ key' = key
    BY <1>2 DEF Target, At, GoTo, IndInv, TypeOK
  <2>2. CallInv(t) /\ WritesInv(t) /\ call[t].op = "block"
    BY <2>1 DEF IndInv, TaskInv, CallInv, StatementsOf
  <2>3. TaskInv(t)'
    BY <1>2, <2>1, <2>2, TablesSame
       DEF TaskInv, CallInv, WritesInv, CreateInv, AnswerInv, StatementsOf, NamesAnother,
           ByRequest
  <2> QED
    BY <1>2, <2>1, <2>3, Advances DEF Target, IndInv, TypeOK, Statement, InTx, Locked
<1> QED BY <1>1, <1>2 DEF Target

\* lock_request_pair: the pair it reads is the pair of the request for good.
LEMMA FindPairStep ==
    ASSUME IndInv, NEW t \in Task, FindPair(t)
    PROVE  IndInv'
<1> DEFINE r == call[t].req
<1>1. CASE Finish(t)
  BY <1>1, Finishes DEF FindPair
<1>2. CASE /\ r \in DOMAIN requests
           /\ pc' = [pc EXCEPT ![t] = "lock"]
           /\ key' = [key EXCEPT ![t] = PairKey(requests[r].sender, requests[r].recipient)]
           /\ call' = call /\ tx' = tx
  <2>1. /\ pc[t] = "find" /\ pc'[t] = "lock" /\ UNCHANGED graph
        /\ key'[t] = PairOf(r) /\ call'[t] = call[t] /\ tx'[t] = tx[t]
        /\ found' = found
        /\ r \in DOMAIN requests
    BY <1>2 DEF FindPair, At, IndInv, TypeOK, PairKey, PairOf
  <2>2. CallInv(t) /\ WritesInv(t) /\ call[t].op \in ByRequest
    BY <2>1 DEF IndInv, TaskInv, CallInv, StatementsOf, ByRequest
  <2>3. TaskInv(t)'
    <3>1. CallInv(t)'
      BY <2>1, <2>2, TablesSame DEF CallInv, StatementsOf, NamesAnother, ByRequest
    <3>2. WritesInv(t)'
      BY <2>1, <2>2, TablesSame DEF WritesInv, NoWrites
    <3>3. CreateInv(t)' /\ AnswerInv(t)'
      BY <2>1, <2>2 DEF CreateInv, AnswerInv, ByRequest
    <3> QED BY <2>1, <3>1, <3>2, <3>3 DEF TaskInv
  <2>4. PairOf(r) \subseteq Named
    BY <1>2 DEF IndInv, TypeOK, GraphTypeOK, Row, PairOf, Pair, Named
  <2>5. TypeOK'
    BY <1>2, <2>1, <2>4
       DEF FindPair, IndInv, TypeOK, graph, GraphTypeOK, Statement, InTx
  <2>6. OthersUntouched(t) /\ EntersSafely(t)
    BY <1>2, <2>1, <2>2
       DEF OthersUntouched, EntersSafely, IndInv, TypeOK, Locked, ByRequest
  <2> QED BY <2>1, <2>3, <2>5, <2>6, QuietStep
<1> QED BY <1>1, <1>2 DEF FindPair

\* Reading the answer keeps the invariant.
LEMMA ViewStep ==
    ASSUME IndInv, NEW t \in Task, View(t)
    PROVE  IndInv'
<1>1. CASE Finish(t)
  BY <1>1, Finishes DEF View
<1>2. CASE call[t].op # "create" /\ GoTo(t, "notify") /\ tx' = tx
  <2>1. /\ pc[t] = "view" /\ pc'[t] = "notify" /\ UNCHANGED graph
        /\ call' = call /\ key' = key
    BY <1>2 DEF View, At, GoTo, IndInv, TypeOK
  <2>2. CallInv(t) /\ WritesInv(t)
    BY <2>1 DEF IndInv, TaskInv
  <2>3. TaskInv(t)'
    BY <1>2, <2>1, <2>2, TablesSame
       DEF TaskInv, CallInv, WritesInv, CreateInv, AnswerInv, StatementsOf, NamesAnother,
           ByRequest
  <2> QED
    BY <1>2, <2>1, <2>3, Advances DEF View, IndInv, TypeOK, Statement, InTx, Locked
<1> QED BY <1>1, <1>2 DEF View

\* Announcing a change keeps the invariant.
LEMMA NotifyStep ==
    ASSUME IndInv, NEW t \in Task, Notify(t)
    PROVE  IndInv'
<1>1. CASE Finish(t)
  BY <1>1, Finishes DEF Notify
<1>2. CASE call[t].op = "create" /\ GoTo(t, "view") /\ tx' = tx
  <2>1. /\ pc[t] = "notify" /\ pc'[t] = "view" /\ UNCHANGED graph
        /\ call' = call /\ key' = key /\ found' = found
    BY <1>2 DEF Notify, At, GoTo, IndInv, TypeOK
  <2>2. CallInv(t) /\ WritesInv(t) /\ AnswerInv(t)
    BY <2>1 DEF IndInv, TaskInv
  <2>3. TaskInv(t)'
    BY <1>2, <2>1, <2>2, TablesSame
       DEF TaskInv, CallInv, WritesInv, CreateInv, AnswerInv, StatementsOf, NamesAnother,
           ByRequest
  <2> QED
    BY <1>2, <2>1, <2>3, Advances DEF Notify, IndInv, TypeOK, Statement, InTx, Locked
<1> QED BY <1>1, <1>2 DEF Notify

\* A failing statement keeps the invariant.
LEMMA FailStep ==
    ASSUME IndInv, NEW t \in Task, Fail(t)
    PROVE  IndInv'
<1>1. CASE Finish(t)
  BY <1>1, Finishes DEF Fail
<1>2. CASE pc[t] \in Locked \ {"rollback"} /\ GoTo(t, "rollback") /\ tx' = tx
  <2>1. /\ pc[t] \in Locked /\ pc'[t] = "rollback" /\ UNCHANGED graph
        /\ call' = call /\ key' = key
    BY <1>2 DEF Fail, GoTo, IndInv, TypeOK
  <2>2. CallInv(t) /\ WritesInv(t) /\ CreateInv(t)
    BY <2>1 DEF IndInv, TaskInv, Locked
  <2>3. TaskInv(t)'
    BY <1>2, <2>1, <2>2, TablesSame
       DEF TaskInv, CallInv, WritesInv, CreateInv, AnswerInv, StatementsOf, NamesAnother,
           ByRequest, Locked
  <2> QED
    BY <1>2, <2>1, <2>3, Advances DEF Fail, IndInv, TypeOK, Statement, InTx, Locked
<1> QED BY <1>1, <1>2 DEF Fail

\* Taking up a call keeps the invariant.
LEMMA StartStep ==
    ASSUME IndInv, NEW t \in Task, Start(t)
    PROVE  IndInv'
<1>1. PICK c \in Call :
        /\ NamesAnother(c)
        /\ c.op = "create" => Fresh(c.req)
        /\ pc' = [pc EXCEPT ![t] = CASE c.op = "block" -> "target"
                                      [] c.op = "unblock" -> "delete"
                                      [] OTHER -> "begin"]
        /\ call' = [call EXCEPT ![t] = c]
        /\ key' = [key EXCEPT ![t] = IF c.op \in ByRequest THEN None
                                     ELSE PairKey(c.viewer, c.other)]
  BY DEF Start
<1>2. /\ pc[t] = "idle" /\ UNCHANGED graph /\ tx' = tx /\ found' = found
      /\ refusing' = refusing /\ owed' = owed
  BY DEF Start, At, graph
<1>3. /\ pc'[t] = IF c.op = "block" THEN "target"
                  ELSE IF c.op = "unblock" THEN "delete" ELSE "begin"
      /\ call'[t] = c
      /\ key'[t] = IF c.op \in ByRequest THEN None ELSE PairKey(c.viewer, c.other)
  BY <1>1 DEF IndInv, TypeOK
<1>4. key'[t] \in (SUBSET Named) \cup {None}
  BY <1>3 DEF Call, PairKey, Pair, Named, ByRequest, ByUser
<1>5. TypeOK'
  BY <1>1, <1>2, <1>3, <1>4 DEF IndInv, TypeOK, graph, GraphTypeOK, Statement
<1>6. OthersUntouched(t) BY <1>1, <1>2 DEF OthersUntouched, IndInv, TypeOK
<1>7. EntersSafely(t) BY <1>1, <1>3 DEF EntersSafely, Locked
<1>8. tx'[t] = NoWrites BY <1>2 DEF IndInv, TaskInv
<1>9. TaskInv(t)'
  BY <1>1, <1>2, <1>3, <1>8, TablesSame
     DEF TaskInv, CallInv, WritesInv, CreateInv, AnswerInv, StatementsOf, NamesAnother,
         ByRequest, ByUser, NoWrites, Fresh, Call
<1> QED BY <1>2, <1>5, <1>6, <1>7, <1>9, QuietStep

-----------------------------------------------------------------------------
(* Commits *)

\* What the commit of task t does to the tables: it only touches rows of its
\* own pair, closes the rows it holds and opens at most its own request.
LEMMA ApplyEffects ==
    ASSUME IndInv, NEW t \in Task, pc[t] = "commit", Apply(t)
    PROVE  /\ GraphTypeOK'
           /\ DOMAIN requests \subseteq DOMAIN requests'
           /\ \A r \in DOMAIN requests' :
                  \/ r \in DOMAIN requests
                  \/ (tx[t].opened /\ r = call[t].req /\ PairOf(r)' = key[t])
           /\ tx[t].opened => /\ call[t].req \in DOMAIN requests'
                              /\ requests'[call[t].req] = NewRow(call[t].viewer, call[t].other)
           /\ \A r \in DOMAIN requests : PairOf(r)' = PairOf(r)
           /\ \A r \in DOMAIN requests : /\ requests'[r].sender = requests[r].sender
                                        /\ requests'[r].recipient = requests[r].recipient
           /\ \A r \in DOMAIN requests :
                  r \notin tx[t].rows => requests'[r] = requests[r]
           /\ \A r \in DOMAIN requests' :
                  \/ ~IsPending(r)'
                  \/ (r \in DOMAIN requests /\ IsPending(r) /\ r \notin tx[t].rows)
                  \/ (tx[t].opened /\ r = call[t].req /\ PairOf(r)' = key[t])
           /\ call[t].op \in ByRequest =>
                  requests'[call[t].req].status = Outcome(call[t].op)
           /\ \A q : q # key[t] => (q \in friendships' <=> q \in friendships)
           /\ \A u, v : Pair(u, v) # key[t] => (<<u, v>> \in blocks' <=> <<u, v>> \in blocks)
           /\ friendships' # friendships /\ key[t] \in friendships' => call[t].op = "accept"
           /\ \A u, v : <<u, v>> \in blocks' /\ <<u, v>> \notin blocks =>
                  call[t].op = "block" /\ Pair(u, v) = key[t]
<1> DEFINE c == call[t]
           w == tx[t]
<1>1. /\ CallInv(t) /\ WritesInv(t) /\ CreateInv(t) /\ w \in Writes /\ c \in Call
      /\ GraphTypeOK /\ c.op # "unblock"
  BY DEF IndInv, TypeOK, TaskInv, CallInv, StatementsOf
<1>2. requests' = IF w.opened THEN Open(c.req, NewRow(c.viewer, c.other))
                  ELSE Close(w.rows, {c.req}, Outcome(c.op))
  BY DEF Apply
<1>3. CASE w.opened
  <2>1. /\ c.op = "create" /\ c.req \notin DOMAIN requests /\ w.rows = {}
        /\ c.viewer \in Account /\ c.other \in Account /\ c.viewer # c.other
        /\ c.req \in RequestId
        /\ key[t] = Pair(c.viewer, c.other)
    BY <1>1, <1>3 DEF CallInv, CreateInv, WritesInv, Call, NamesAnother, PairKey, ByRequest, ByUser
  <2>2. NewRow(c.viewer, c.other) \in Row BY <2>1 DEF NewRow, Row, Status
  <2>3. DOMAIN requests' = DOMAIN requests \cup {c.req} BY <1>2, <1>3 DEF Open
  <2>4. /\ requests'[c.req] = NewRow(c.viewer, c.other)
        /\ \A r \in DOMAIN requests : requests'[r] = requests[r]
    BY <1>2, <1>3, <2>1 DEF Open
  <2>5. /\ DOMAIN requests' \subseteq RequestId
        /\ requests' \in [DOMAIN requests' -> Row]
    BY <1>1, <1>2, <1>3, <2>1, <2>2, <2>3, <2>4 DEF Open, GraphTypeOK
  <2>6. friendships' = friendships /\ blocks' = blocks
    <3>1. w.link = "keep" /\ ~w.block BY <1>1, <2>1 DEF WritesInv, Writes
    <3>2. /\ friendships' = CASE w.link = "add" -> friendships \cup {key[t]}
                              [] w.link = "drop" -> friendships \ {key[t]}
                              [] OTHER -> friendships
          /\ blocks' = IF w.block THEN blocks \cup {<<c.viewer, c.other>>} ELSE blocks
      BY DEF Apply
    <3> QED BY <3>1, <3>2
  <2>7. Pair(requests'[c.req].sender, requests'[c.req].recipient) = key[t]
    BY <2>1, <2>4 DEF NewRow
  <2>8. GraphTypeOK' BY <1>1, <2>5, <2>6 DEF GraphTypeOK
  <2>9. \A r \in DOMAIN requests : PairOf(r)' = PairOf(r) BY <2>4 DEF PairOf
  <2>10. \A r \in DOMAIN requests : IsPending(r)' => IsPending(r) /\ r \notin w.rows
    BY <2>1, <2>4 DEF IsPending
  <2> QED
    BY <1>3, <2>1, <2>3, <2>4, <2>6, <2>7, <2>8, <2>9, <2>10 DEF ByRequest, IsPending, PairOf
<1>4. CASE ~w.opened
  <2>1. DOMAIN requests' = DOMAIN requests BY <1>2, <1>4 DEF Close
  <2>2. \A r \in DOMAIN requests :
           requests'[r] = IF r \in w.rows
                          THEN [requests[r] EXCEPT !.status =
                                   IF r = c.req THEN Outcome(c.op) ELSE "cancelled"]
                          ELSE requests[r]
    BY <1>2, <1>4 DEF Close
  <2>3. Outcome(c.op) \in Status /\ Outcome(c.op) # "pending" BY DEF Outcome, Status
  <2>4. \A r \in DOMAIN requests :
           /\ requests'[r] \in Row
           /\ requests'[r].sender = requests[r].sender
           /\ requests'[r].recipient = requests[r].recipient
           /\ r \in w.rows => requests'[r].status # "pending"
           /\ r \in w.rows /\ r = c.req => requests'[r].status = Outcome(c.op)
    <3> SUFFICES ASSUME NEW r \in DOMAIN requests
                 PROVE  /\ requests'[r] \in Row
                        /\ requests'[r].sender = requests[r].sender
                        /\ requests'[r].recipient = requests[r].recipient
                        /\ r \in w.rows => requests'[r].status # "pending"
                        /\ r \in w.rows /\ r = c.req => requests'[r].status = Outcome(c.op)
      OBVIOUS
    <3>1. requests[r] \in Row BY <1>1 DEF GraphTypeOK
    <3>2. CASE r \notin w.rows BY <2>2, <3>1, <3>2
    <3>3. CASE r \in w.rows
      <4> DEFINE s == IF r = c.req THEN Outcome(c.op) ELSE "cancelled"
      <4>1. s \in Status /\ s # "pending" BY <2>3 DEF Status
      <4>2. requests'[r] = [requests[r] EXCEPT !.status = s] BY <2>2, <3>3
      <4> HIDE DEF s
      <4>3. /\ requests'[r] \in Row /\ requests'[r].status = s
            /\ requests'[r].sender = requests[r].sender
            /\ requests'[r].recipient = requests[r].recipient
        BY <3>1, <4>1, <4>2 DEF Row
      <4> QED BY <4>1, <4>3 DEF s
    <3> QED BY <3>2, <3>3
  <2>5. requests' \in [DOMAIN requests' -> Row]
    BY <1>2, <1>4, <2>1, <2>4 DEF Close
  <2>6. c.op \in ByRequest => c.req \in DOMAIN requests /\ c.req \in w.rows
    BY <1>1 DEF CallInv, WritesInv
  <2>7. /\ friendships' = CASE w.link = "add" -> friendships \cup {key[t]}
                            [] w.link = "drop" -> friendships \ {key[t]}
                            [] OTHER -> friendships
        /\ blocks' = IF w.block THEN blocks \cup {<<c.viewer, c.other>>} ELSE blocks
    BY DEF Apply
  <2>8. w.link = "add" => key[t] \in Pairs /\ c.op = "accept"
    <3>1. c.op \in ByRequest => key[t] \in Pairs
      BY <1>1, <2>6 DEF CallInv, GraphTypeOK, Row, PairOf, Pairs, Pair
    <3> QED BY <1>1, <3>1 DEF WritesInv, ByRequest
  <2>9. w.block => /\ c.op = "block" /\ <<c.viewer, c.other>> \in Account \X Account
                   /\ c.viewer # c.other /\ Pair(c.viewer, c.other) = key[t]
    BY <1>1 DEF WritesInv, CallInv, Call, NamesAnother, PairKey, ByRequest, ByUser
  <2>10. friendships' \subseteq Pairs /\ blocks' \subseteq {b \in Account \X Account : b[1] # b[2]}
    BY <1>1, <2>7, <2>8, <2>9 DEF GraphTypeOK, Writes
  <2>11. \A r \in DOMAIN requests : PairOf(r)' = PairOf(r) BY <2>4 DEF PairOf
  <2>12. \A r \in DOMAIN requests : IsPending(r)' => IsPending(r) /\ r \notin w.rows
    BY <2>1, <2>2, <2>4 DEF IsPending
  <2> QED
    <3>1. GraphTypeOK' BY <1>1, <2>1, <2>5, <2>10 DEF GraphTypeOK
    <3>2. \A q : q # key[t] => (q \in friendships' <=> q \in friendships)
      BY <1>1, <2>7 DEF Writes
    <3>3. friendships' # friendships /\ key[t] \in friendships' => c.op = "accept"
      BY <1>1, <2>7, <2>8 DEF Writes
    <3>4. \A u, v : <<u, v>> \in blocks' /\ <<u, v>> \notin blocks =>
             c.op = "block" /\ Pair(u, v) = key[t]
      BY <2>7, <2>9
    <3>5. \A b : b \in blocks => b \in blocks' BY <2>7
    <3>6. \A r \in DOMAIN requests : r \notin w.rows => requests'[r] = requests[r] BY <2>2
    <3>7. c.op \in ByRequest => requests'[c.req].status = Outcome(c.op) BY <2>4, <2>6
    <3>8. \A u, v : Pair(u, v) # key[t] => (<<u, v>> \in blocks' <=> <<u, v>> \in blocks)
      BY <3>4, <3>5
    <3> QED
      BY <1>4, <2>1, <2>4, <2>11, <2>12, <3>1, <3>2, <3>3, <3>4, <3>6, <3>7, <3>8
         DEF IsPending, PairOf
<1> QED BY <1>3, <1>4

\* What other tasks have found out survives the commit of task t: a task that
\* holds a lock speaks of another pair, the rest rely on rows that never change.
LEMMA OthersKeepFaith ==
    ASSUME IndInv, NEW t \in Task, pc[t] = "commit", Apply(t), OthersUntouched(t),
           NEW x \in Task \ {t}
    PROVE  TaskInv(x)'
<1>1. /\ pc'[x] = pc[x] /\ call'[x] = call[x] /\ key'[x] = key[x] /\ tx'[x] = tx[x]
      /\ found'[x] = found[x]
      /\ TaskInv(x) /\ pc[t] # "idle" /\ pc[t] # "rollback"
      /\ CallInv(t) /\ WritesInv(t) /\ CreateInv(t)
  BY DEF OthersUntouched, IndInv, TaskInv
<1>2. pc[x] \in Locked => key[x] # key[t]
  BY DEF IndInv, PairLockExcludes, Locked
<1>3. CASE pc[x] = "idle" BY <1>1, <1>3 DEF TaskInv
<1>4. CASE pc[x] # "idle"
  <2>1. CallInv(x) /\ WritesInv(x) /\ CreateInv(x) /\ AnswerInv(x) BY <1>1, <1>4 DEF TaskInv
  <2>2. /\ \A r \in DOMAIN requests : r \in DOMAIN requests' /\ PairOf(r)' = PairOf(r)
        /\ \A r \in DOMAIN requests : r \notin tx[t].rows => requests'[r] = requests[r]
    BY ApplyEffects
  <2>3. CallInv(x)'
    <3>1. call[x].op \in ByRequest /\ pc[x] \notin {"begin", "find"} =>
             /\ call[x].req \in DOMAIN requests'
             /\ key[x] = Pair(requests'[call[x].req].sender, requests'[call[x].req].recipient)
      BY <2>1, <2>2 DEF CallInv, PairOf
    <3> QED
      BY <1>1, <2>1, <3>1 DEF CallInv, StatementsOf, NamesAnother, PairOf
  <2>4. \A r \in DOMAIN requests :
           PairOf(r) # key[t] => IsPending(r)' = IsPending(r) /\ PairOf(r)' = PairOf(r)
    BY <1>1, <2>2 DEF WritesInv, IsPending
  <2>5. ASSUME NEW q, q # key[t] PROVE PendingBetween(q)' = PendingBetween(q)
    <3>1. ASSUME NEW r PROVE r \in PendingBetween(q)' <=> r \in PendingBetween(q)
      BY <2>2, <2>4, <2>5, ApplyEffects DEF PendingBetween, IsPending, PairOf
    <3> QED BY <3>1
  <2>6. ASSUME NEW u, NEW v, Pair(u, v) # key[t] PROVE PendingFrom(u, v)' = PendingFrom(u, v)
    <3>1. \A r \in DOMAIN requests' : PairOf(r)' # key[t] =>
              r \in DOMAIN requests /\ PairOf(r) # key[t]
      BY <1>1, <2>2, ApplyEffects DEF PairOf, CreateInv
    <3>2. \A r \in DOMAIN requests : PairOf(r) # key[t] => requests'[r] = requests[r]
      BY <1>1, <2>2 DEF WritesInv
    <3>3. ASSUME NEW r PROVE r \in PendingFrom(u, v)' <=> r \in PendingFrom(u, v)
      BY <2>2, <2>6, <3>1, <3>2 DEF PendingFrom, IsPending, PairOf, Pair
    <3> QED BY <3>3
  <2>7. WritesInv(x)'
    <3>1. CASE pc[x] \in {"write", "sweep", "commit", "rollback"}
      <4>1. key[x] # key[t] BY <1>2, <3>1 DEF Locked
      <4>2. \A r \in tx[x].rows :
               /\ r \in DOMAIN requests' /\ PairOf(r)' = key[x]
               /\ pc[x] # "rollback" => IsPending(r)'
        BY <2>1, <2>2, <2>4, <4>1 DEF WritesInv
      <4>3. PendingBetween(key[x])' = PendingBetween(key[x]) BY <1>1, <2>5, <4>1
      <4> QED BY <1>1, <2>1, <4>2, <4>3 DEF WritesInv, PairOf
    <3>2. CASE pc[x] \notin {"write", "sweep", "commit", "rollback"}
      BY <1>1, <2>1, <3>2 DEF WritesInv, NoWrites
    <3> QED BY <3>1, <3>2
  <2>8. CreateInv(x)'
    <3> DEFINE u == call[x].viewer
               v == call[x].other
    <3> SUFFICES ASSUME call[x].op = "create" PROVE CreateInv(x)'
      BY <1>1 DEF CreateInv
    <3>1. pc[x] \notin {"notify", "view"} => call[x].req \notin DOMAIN requests'
      <4>1. call[t].op = "create" => call[t].req # call[x].req
        BY <1>1, <1>4 DEF IndInv, IdsDistinct
      <4> QED BY <1>1, <2>1, <4>1, ApplyEffects DEF CreateInv, WritesInv
    <3>2. CASE pc[x] \in {"blocked", "policy", "friends", "existing", "repeat", "reverse",
                          "insert", "commit"}
      <4>1. Pair(u, v) # key[t] /\ Pair(v, u) # key[t] /\ key[x] = Pair(u, v)
        BY <1>2, <2>1, <3>2 DEF Locked, CallInv, PairKey, Pair, ByRequest
      <4>2. BlockedEitherWay(u, v)' <=> BlockedEitherWay(u, v)
        BY <1>1, <4>1, ApplyEffects DEF BlockedEitherWay
      <4>3. Pair(u, v) \in friendships' <=> Pair(u, v) \in friendships
        BY <4>1, ApplyEffects
      <4>4. /\ PendingFrom(u, v)' = PendingFrom(u, v)
            /\ PendingFrom(v, u)' = PendingFrom(v, u)
            /\ PendingBetween(Pair(u, v))' = PendingBetween(Pair(u, v))
        BY <1>1, <2>5, <2>6, <4>1
      <4> QED BY <1>1, <2>1, <3>1, <4>2, <4>3, <4>4 DEF CreateInv
    <3>3. CASE pc[x] \notin {"blocked", "policy", "friends", "existing", "repeat", "reverse",
                             "insert", "commit"}
      BY <1>1, <2>1, <3>1, <3>3 DEF CreateInv
    <3> QED BY <3>2, <3>3
  <2>9. AnswerInv(x)'
    <3>1. ASSUME pc[x] = "view", call[x].op \in ByRequest
          PROVE  requests'[call[x].req].status = Outcome(call[x].op)
      <4>1. /\ call[x].req \in DOMAIN requests
            /\ requests[call[x].req].status = Outcome(call[x].op)
        BY <2>1, <3>1 DEF CallInv, AnswerInv
      <4>2. ~IsPending(call[x].req) BY <4>1 DEF IsPending, Outcome
      <4>3. call[x].req \notin tx[t].rows BY <1>1, <4>2 DEF WritesInv
      <4> QED BY <2>2, <4>1, <4>3
    <3>2. ASSUME pc[x] \in {"notify", "view"}, call[x].op = "create"
          PROVE  /\ found[x] \in DOMAIN requests'
                 /\ requests'[found[x]].sender = call[x].viewer
                 /\ requests'[found[x]].recipient = call[x].other
      BY <2>1, <3>2, ApplyEffects DEF AnswerInv
    <3> QED BY <1>1, <3>1, <3>2 DEF AnswerInv
  <2> QED BY <1>1, <1>4, <2>3, <2>7, <2>8, <2>9 DEF TaskInv
<1> QED BY <1>3, <1>4

\* A commit keeps the tables consistent.
LEMMA ApplyKeepsTables ==
    ASSUME IndInv, NEW t \in Task, pc[t] = "commit", Apply(t)
    PROVE  TablesConsistent'
<1>1. /\ CallInv(t) /\ WritesInv(t) /\ CreateInv(t)
      /\ AtMostOnePendingPerPair /\ PendingExcludesFriendship /\ NoPendingAcrossBlock
  BY DEF IndInv, TaskInv, TablesConsistent
<1>2. \A r \in DOMAIN requests' : IsPending(r)' =>
         \/ (/\ r \in DOMAIN requests /\ IsPending(r) /\ r \notin tx[t].rows
             /\ requests'[r] = requests[r])
         \/ (/\ tx[t].opened /\ r = call[t].req /\ PairOf(r)' = key[t])
  BY ApplyEffects
<1>3. tx[t].opened => /\ PendingBetween(key[t]) = {} /\ key[t] \notin friendships
                      /\ call[t].op = "create"
                      /\ ~BlockedEitherWay(call[t].viewer, call[t].other)
                      /\ key[t] = Pair(call[t].viewer, call[t].other)
  BY <1>1 DEF CallInv, WritesInv, CreateInv, PairKey, ByRequest
<1>4. call[t].op \in {"accept", "block"} => PendingBetween(key[t]) \subseteq tx[t].rows
  BY <1>1 DEF WritesInv
<1>5. AtMostOnePendingPerPair'
  BY <1>1, <1>2, <1>3 DEF AtMostOnePendingPerPair, PendingBetween, IsPending, PairOf
<1>6. PendingExcludesFriendship'
  <2> SUFFICES ASSUME NEW r \in DOMAIN requests', IsPending(r)'
               PROVE  PairOf(r)' \notin friendships'
    BY DEF PendingExcludesFriendship
  <2>1. CASE PairOf(r)' # key[t]
    BY <1>1, <1>2, <2>1, ApplyEffects DEF PendingExcludesFriendship, PairOf
  <2>2. CASE PairOf(r)' = key[t]
    <3>1. CASE tx[t].opened
      BY <1>3, <2>2, <3>1, ApplyEffects
    <3>2. CASE ~tx[t].opened
      <4>1. /\ r \in PendingBetween(key[t]) /\ r \notin tx[t].rows
            /\ key[t] \notin friendships
        BY <1>1, <1>2, <2>2, <3>2 DEF PendingBetween, PendingExcludesFriendship, PairOf
      <4> QED BY <1>4, <2>2, <4>1, ApplyEffects
    <3> QED BY <3>1, <3>2
  <2> QED BY <2>1, <2>2
<1>7. NoPendingAcrossBlock'
  <2> SUFFICES ASSUME NEW r \in DOMAIN requests', IsPending(r)',
                      NEW u, NEW v, <<u, v>> \in blocks',
                      Pair(u, v) = PairOf(r)'
               PROVE  FALSE
    BY DEF NoPendingAcrossBlock, BlockedEitherWay, PairOf, Pair
  <2>1. CASE tx[t].opened /\ r = call[t].req /\ PairOf(r)' = key[t]
    <3>1. <<u, v>> \notin blocks BY <1>3, <2>1 DEF BlockedEitherWay, Pair
    <3> QED BY <1>3, <2>1, <3>1, ApplyEffects
  <2>2. CASE /\ r \in DOMAIN requests /\ IsPending(r) /\ r \notin tx[t].rows
             /\ requests'[r] = requests[r]
    <3>1. PairOf(r) = Pair(u, v) BY <2>2 DEF PairOf
    <3>2. <<u, v>> \notin blocks
      BY <1>1, <2>2, <3>1 DEF NoPendingAcrossBlock, BlockedEitherWay, PairOf, Pair
    <3>3. call[t].op = "block" /\ PairOf(r) = key[t] BY <3>1, <3>2, ApplyEffects
    <3> QED BY <1>4, <2>2, <3>3 DEF PendingBetween
  <2> QED BY <1>2, <2>1, <2>2
<1> QED BY <1>5, <1>6, <1>7 DEF TablesConsistent

\* A commit, acknowledged or not, keeps the invariant.
LEMMA CommitsKeepInv ==
    ASSUME IndInv, NEW t \in Task, pc[t] = "commit", Apply(t), refusing' = refusing,
           \/ Finish(t)
           \/ /\ tx' = [tx EXCEPT ![t] = NoWrites]
              /\ \/ GoTo(t, "view") /\ call[t].op \in {"accept", "reject"}
                 \/ GoTo(t, "notify") /\ call[t].op # "unblock"
    PROVE  IndInv'
<1>1. OthersUntouched(t) BY DEF OthersUntouched, Finish, GoTo, IndInv, TypeOK
<1>2. CallInv(t) /\ WritesInv(t) /\ key[t] \in SUBSET Named
  <2>1. CallInv(t) /\ WritesInv(t) BY DEF IndInv, TaskInv
  <2>2. CASE call[t].op \in ByRequest
    BY <2>1, <2>2 DEF CallInv, PairOf, Pair, Named, IndInv, TypeOK, GraphTypeOK, Row
  <2>3. CASE call[t].op \notin ByRequest
    BY <2>1, <2>3 DEF CallInv, Call, PairKey, Pair, Named
  <2> QED BY <2>1, <2>2, <2>3
<1>3. TypeOK'
  <2>1. GraphTypeOK' BY ApplyEffects
  <2>2. NoWrites \in Writes BY DEF NoWrites, Writes
  <2>3. owed' \subseteq Watching \X SUBSET Named
    BY <1>2 DEF Apply, Audience, IndInv, TypeOK
  <2> QED
    BY <2>1, <2>2, <2>3 DEF Finish, GoTo, IndInv, TypeOK, Statement, InTx, Locked
<1>4. TaskInv(t)'
  <2>1. CASE Finish(t) BY <2>1 DEF Finish, TaskInv, IndInv, TypeOK
  <2>2. CASE ~Finish(t)
    <3>1. /\ call'[t] = call[t] /\ key'[t] = key[t] /\ tx'[t] = NoWrites
          /\ found'[t] = found[t]
          /\ \/ pc'[t] = "view" /\ call[t].op \in {"accept", "reject"}
             \/ pc'[t] = "notify" /\ call[t].op # "unblock"
      BY <2>2 DEF GoTo, IndInv, TypeOK
    <3>2. call[t].op \in ByRequest =>
             /\ call[t].req \in DOMAIN requests'
             /\ key[t] = Pair(requests'[call[t].req].sender, requests'[call[t].req].recipient)
             /\ requests'[call[t].req].status = Outcome(call[t].op)
      BY <1>2, ApplyEffects DEF CallInv, PairOf
    <3>3. CallInv(t)'
      BY <1>2, <3>1, <3>2 DEF CallInv, StatementsOf, NamesAnother, PairOf, Call, ByRequest, ByUser
    <3>4. WritesInv(t)' BY <3>1 DEF WritesInv, NoWrites
    <3>5. CreateInv(t)' BY <3>1 DEF CreateInv
    <3>6. AnswerInv(t)'
      <4>1. call[t].op = "create" => /\ found[t] \in DOMAIN requests'
                                     /\ requests'[found[t]] = NewRow(call[t].viewer, call[t].other)
        <5>1. CreateInv(t) BY DEF IndInv, TaskInv
        <5>2. call[t].op = "create" => tx[t].opened /\ found[t] = call[t].req
          BY <5>1 DEF CreateInv
        <5> QED BY <5>2, ApplyEffects
      <4>2. \A u, v : NewRow(u, v).sender = u /\ NewRow(u, v).recipient = v BY DEF NewRow
      <4> QED BY <3>1, <3>2, <4>1, <4>2 DEF AnswerInv, ByRequest
    <3> QED BY <3>1, <3>3, <3>4, <3>5, <3>6 DEF TaskInv
  <2> QED BY <2>1, <2>2
<1>5. PairLockExcludes'
  BY <1>1 DEF Finish, GoTo, IndInv, TypeOK, PairLockExcludes, OthersUntouched, Locked
<1>6. IdsDistinct'
  BY <1>1 DEF Finish, GoTo, IndInv, TypeOK, IdsDistinct, OthersUntouched
<1>7. \A x \in Task \ {t} : TaskInv(x)' BY <1>1, OthersKeepFaith
<1> QED BY <1>3, <1>4, <1>5, <1>6, <1>7, ApplyKeepsTables DEF IndInv

\* unblock_user, which takes no lock, keeps the invariant: it only removes a block.
LEMMA DeleteBlockStep ==
    ASSUME IndInv, NEW t \in Task, DeleteBlock(t)
    PROVE  IndInv'
<1>1. /\ pc[t] = "delete" /\ pc'[t] = "notify" /\ call' = call /\ key' = key /\ tx' = tx
      /\ found' = found
      /\ friendships' = friendships /\ requests' = requests /\ blocks' \subseteq blocks
      /\ refusing' = refusing /\ OthersUntouched(t)
  BY DEF DeleteBlock, At, GoTo, IndInv, TypeOK, OthersUntouched
<1>2. /\ CallInv(t) /\ WritesInv(t) /\ call[t].op = "unblock"
      /\ key[t] \in SUBSET Named
  <2>1. CallInv(t) /\ WritesInv(t) BY <1>1 DEF IndInv, TaskInv
  <2>2. call[t].op = "unblock"
    BY <1>1, <2>1 DEF CallInv, StatementsOf, Call, ByRequest, ByUser
  <2>3. key[t] \in SUBSET Named
    BY <2>1, <2>2 DEF CallInv, Call, ByRequest, PairKey, Pair, Named
  <2> QED BY <2>1, <2>2, <2>3
<1>3. TypeOK'
  <2>1. owed' \subseteq Watching \X SUBSET Named
    BY <1>2 DEF DeleteBlock, Audience, IndInv, TypeOK
  <2>2. pc' \in [Task -> Statement]
    BY DEF DeleteBlock, GoTo, IndInv, TypeOK, Statement
  <2> QED BY <1>1, <2>1, <2>2 DEF IndInv, TypeOK, GraphTypeOK
<1>4. \A u, v : BlockedEitherWay(u, v)' => BlockedEitherWay(u, v)
  BY <1>1 DEF BlockedEitherWay
<1>5. TablesConsistent'
  BY <1>1, <1>4 DEF IndInv, TablesConsistent, AtMostOnePendingPerPair, PendingExcludesFriendship,
     NoPendingAcrossBlock, IsPending, PairOf
<1>6. PairLockExcludes'
  BY <1>1 DEF IndInv, PairLockExcludes, OthersUntouched, Locked
<1>7. IdsDistinct'
  BY <1>1, <1>2 DEF IndInv, IdsDistinct, OthersUntouched
<1>8. ASSUME NEW x \in Task PROVE TaskInv(x)'
  <2>1. /\ PendingFrom(call[x].viewer, call[x].other)' = PendingFrom(call[x].viewer, call[x].other)
        /\ PendingFrom(call[x].other, call[x].viewer)' = PendingFrom(call[x].other, call[x].viewer)
        /\ \A p : PendingBetween(p)' = PendingBetween(p)
        /\ \A r : IsPending(r)' = IsPending(r) /\ PairOf(r)' = PairOf(r)
    BY <1>1 DEF PendingFrom, PendingBetween, IsPending, PairOf
  <2>2. CASE x = t
    BY <1>1, <1>2, <2>1, <2>2
       DEF TaskInv, CallInv, WritesInv, CreateInv, AnswerInv, StatementsOf, NamesAnother,
           ByRequest, PairOf
  <2>3. CASE x # t
    <3>1. TaskInv(x) /\ pc'[x] = pc[x] BY <1>1, <2>3 DEF IndInv, OthersUntouched
    <3> QED
      BY <1>1, <1>4, <2>1, <3>1
         DEF TaskInv, CallInv, WritesInv, CreateInv, AnswerInv, NamesAnother, PairOf
  <2> QED BY <2>2, <2>3
<1> QED BY <1>3, <1>5, <1>6, <1>7, <1>8 DEF IndInv

-----------------------------------------------------------------------------
(* The theorems *)

\* The invariant holds initially: empty tables, idle tasks.
LEMMA InitIndInv == Init => IndInv
<1> SUFFICES ASSUME Init PROVE IndInv
  OBVIOUS
<1>1. NoWrites \in Writes BY DEF NoWrites, Writes
<1>2. TypeOK
  BY <1>1 DEF Init, TypeOK, GraphTypeOK, Statement
<1> QED
  BY <1>2 DEF Init, IndInv, TablesConsistent, AtMostOnePendingPerPair, PendingExcludesFriendship,
     NoPendingAcrossBlock, PairLockExcludes, IdsDistinct, TaskInv, Locked

\* Every step of every task, and every change of preferences, preserves it.
LEMMA NextIndInv == IndInv /\ [Next]_vars => IndInv'
<1> SUFFICES ASSUME IndInv, [Next]_vars PROVE IndInv'
  OBVIOUS
<1>1. ASSUME UNCHANGED <<graph, tasks, owed>>, refusing' \subseteq Account PROVE IndInv'
  <2>1. /\ pc' = pc /\ call' = call /\ key' = key /\ tx' = tx /\ owed' = owed
        /\ found' = found
    BY <1>1 DEF tasks
  <2>2. TypeOK' BY <1>1, <2>1 DEF IndInv, TypeOK, graph, GraphTypeOK
  <2>3. TablesConsistent'
    BY <1>1 DEF IndInv, graph, TablesConsistent, AtMostOnePendingPerPair, PendingExcludesFriendship,
       NoPendingAcrossBlock, IsPending, PairOf, BlockedEitherWay
  <2>4. PairLockExcludes' /\ IdsDistinct' BY <2>1 DEF IndInv, PairLockExcludes, IdsDistinct
  <2>5. ASSUME NEW t \in Task PROVE TaskInv(t)'
    BY <1>1, <2>1, TablesSame
       DEF IndInv, TaskInv, CallInv, WritesInv, CreateInv, AnswerInv, NamesAnother
  <2> QED BY <2>2, <2>3, <2>4, <2>5 DEF IndInv
<1>2. CASE UNCHANGED vars \/ \E u \in Account : SetFriendRequestPolicy(u)
  BY <1>1, <1>2 DEF vars, SetFriendRequestPolicy, IndInv, TypeOK
<1>3. ASSUME NEW t \in Task, Start(t) \/ Work(t) \/ Fail(t) \/ FailView(t) \/ LoseCommit(t)
      PROVE  IndInv'
  <2>1. CASE Start(t) BY <2>1, StartStep
  <2>2. CASE Target(t) BY <2>2, TargetStep
  <2>3. CASE Begin(t) BY <2>3, BeginStep
  <2>4. CASE FindPair(t) BY <2>4, FindPairStep
  <2>5. CASE LockPair(t) BY <2>5, LockPairStep
  <2>6. CASE CheckRecipient(t) BY <2>6, CheckRecipientStep
  <2>7. CASE CheckBlocks(t) BY <2>7, CheckBlocksStep
  <2>8. CASE CheckPolicy(t) BY <2>8, CheckPolicyStep
  <2>9. CASE CheckFriends(t) BY <2>9, CheckFriendsStep
  <2>10. CASE FindExisting(t) BY <2>10, FindExistingStep
  <2>11. CASE CheckReverse(t) BY <2>11, CheckReverseStep
  <2>12. CASE InsertRequest(t) BY <2>12, InsertRequestStep
  <2>13. CASE LockRow(t) BY <2>13, LockRowStep
  <2>14. CASE Write(t) BY <2>14, WriteStep
  <2>15. CASE Sweep(t) BY <2>15, SweepStep
  <2>16. CASE Commit(t)
    <3>1. \/ GoTo(t, "view") /\ call[t].op \in {"accept", "reject"}
          \/ GoTo(t, "notify")
      BY <2>16 DEF Commit
    <3>2. call[t].op # "unblock"
      BY <2>16 DEF Commit, At, IndInv, TaskInv, CallInv, StatementsOf
    <3> QED BY <2>16, <3>1, <3>2, CommitsKeepInv DEF Commit, At
  <2>17. CASE LoseCommit(t) BY <2>17, CommitsKeepInv DEF LoseCommit, At
  <2>18. CASE Rollback(t) BY <2>18, Finishes DEF Rollback
  <2>19. CASE DeleteBlock(t) BY <2>19, DeleteBlockStep
  <2>20. CASE View(t) BY <2>20, ViewStep
  <2>21. CASE Notify(t) BY <2>21, NotifyStep
  <2>22. CASE Fail(t) BY <2>22, FailStep
  <2>23. CASE FailView(t) BY <2>23, Finishes DEF FailView
  <2>24. CASE CommitRepeat(t) BY <2>24, CommitRepeatStep
  <2> QED
    BY <1>3, <2>1, <2>2, <2>3, <2>4, <2>5, <2>6, <2>7, <2>8, <2>9, <2>10, <2>11, <2>12,
       <2>13, <2>14, <2>15, <2>16, <2>17, <2>18, <2>19, <2>20, <2>21, <2>22, <2>23, <2>24
       DEF Work
<1> QED BY <1>2, <1>3 DEF Next

\* Every reachable state satisfies the inductive invariant.
THEOREM InvariantHolds == Spec => []IndInv
BY InitIndInv, NextIndInv, PTL DEF Spec

\* The tables and the tasks keep their shape: two-user friendships, no one
\* blocks or asks himself, a transaction writes rows that exist.
THEOREM TypeCorrect == Spec => []TypeOK
<1>1. IndInv => TypeOK BY DEF IndInv
<1> QED BY <1>1, InvariantHolds, PTL

\* At any instant the committed relations of every pair are consistent: at most
\* one open request, none between friends, none across a block.
THEOREM TablesStayConsistent == Spec => []TablesConsistent
<1>1. IndInv => TablesConsistent BY DEF IndInv
<1> QED BY <1>1, InvariantHolds, PTL

\* The advisory lock of lock_pair serialises the transactions of a pair.
THEOREM LockExcludes == Spec => []PairLockExcludes
<1>1. IndInv => PairLockExcludes BY DEF IndInv
<1> QED BY <1>1, InvariantHolds, PTL

\* The order of lock_request_pair works: no transaction ever waits for a row or
\* an index entry, so row locks add no waiting, let alone a cycle of it.
THEOREM RowsFreeOfContention == Spec => []RowsNeverContended
<1>1. IndInv => RowsNeverContended
  <2> SUFFICES ASSUME IndInv, NEW t \in Task, NEW x \in Task \ {t}, pc[t] \in Locked
               PROVE  /\ At(t, "row") => tx[x].rows \cap {call[t].req} = {}
                      /\ At(t, "sweep") => tx[x].rows \cap Withdrawn(t) = {}
                      /\ At(t, "insert") =>
                           /\ tx[x].opened => \/ call[x].viewer # call[t].viewer
                                              \/ call[x].other # call[t].other
                           /\ PendingFrom(call[t].viewer, call[t].other) \cap tx[x].rows = {}
    BY DEF RowsNeverContended, RowsFree, IndexSettled, At, Locked
  <2>1. TaskInv(t) /\ TaskInv(x) /\ pc[t] # "idle" BY DEF IndInv, Locked
  <2>2. CASE pc[x] \in {"write", "sweep", "commit", "rollback"}
    <3>1. key[x] # key[t] /\ pc[x] # "idle" BY <2>2 DEF IndInv, PairLockExcludes, Locked
    <3>2. \A r \in tx[x].rows : PairOf(r) # key[t]
      BY <2>1, <3>1 DEF TaskInv, WritesInv
    <3>3. At(t, "row") => PairOf(call[t].req) = key[t]
      BY <2>1 DEF At, TaskInv, CallInv, StatementsOf, ByRequest
    <3>4. At(t, "insert") => key[t] = Pair(call[t].viewer, call[t].other)
      BY <2>1 DEF At, TaskInv, CallInv, StatementsOf, ByRequest, PairKey
    <3>5. tx[x].opened => key[x] = Pair(call[x].viewer, call[x].other)
      BY <2>1, <3>1 DEF TaskInv, CallInv, WritesInv, ByRequest, PairKey
    <3> QED
      BY <3>1, <3>2, <3>3, <3>4, <3>5 DEF Withdrawn, PendingBetween, PendingFrom, PairOf
  <2>3. CASE pc[x] \notin {"write", "sweep", "commit", "rollback"}
    <3>1. tx[x] = NoWrites BY <2>1, <2>3 DEF TaskInv, WritesInv
    <3> QED BY <3>1 DEF NoWrites
  <2> QED BY <2>2, <2>3
<1> QED BY <1>1, InvariantHolds, PTL

\* What the handlers answer after their commit: accept and reject what they
\* did, create the sender's own request to that user.
THEOREM AnswersAreTrue == Spec => []AnswerShowsOutcome
<1>1. IndInv => AnswerShowsOutcome
  <2> SUFFICES ASSUME IndInv, NEW t \in Task, pc[t] = "view"
               PROVE  IF call[t].op = "create"
                      THEN /\ requests[found[t]].sender = call[t].viewer
                           /\ requests[found[t]].recipient = call[t].other
                      ELSE requests[call[t].req].status = Outcome(call[t].op)
    BY DEF AnswerShowsOutcome, At
  <2>1. CallInv(t) /\ AnswerInv(t) BY DEF IndInv, TaskInv
  <2>2. call[t].op \in {"create"} \cup ByRequest
    BY <2>1 DEF CallInv, StatementsOf, Call, ByRequest, ByUser
  <2> QED BY <2>1, <2>2 DEF AnswerInv, ByRequest
<1> QED BY <1>1, InvariantHolds, PTL

-----------------------------------------------------------------------------
(* Steps *)

\* Only commits and the unlocked delete change the tables.
LEMMA TableSteps ==
    ASSUME [Next]_vars
    PROVE  \/ UNCHANGED graph
           \/ \E t \in Task : At(t, "commit") /\ Apply(t)
           \/ \E t \in Task : DeleteBlock(t)
<1>1. CASE UNCHANGED vars BY <1>1 DEF vars
<1>2. CASE \E u \in Account : SetFriendRequestPolicy(u) BY <1>2 DEF SetFriendRequestPolicy
<1>3. ASSUME NEW t \in Task, Start(t) \/ Work(t) \/ Fail(t) \/ FailView(t) \/ LoseCommit(t)
      PROVE  UNCHANGED graph \/ (At(t, "commit") /\ Apply(t)) \/ DeleteBlock(t)
  BY <1>3
     DEF Work, Start, Target, Begin, FindPair, LockPair, Check, CheckRecipient, CheckBlocks,
         CheckPolicy, CheckFriends, FindExisting, CommitRepeat, CheckReverse, InsertRequest,
         LockRow, Write,
         Sweep, Commit, LoseCommit, Rollback, View, Notify, Fail, FailView
<1> QED BY <1>1, <1>2, <1>3 DEF Next

\* A handler that was about to commit and goes on to tell or to answer has
\* committed.
LEMMA CommitSteps ==
    ASSUME IndInv, Next, NEW t \in Task,
           pc[t] \in {"commit", "repeat"}, pc'[t] \in {"notify", "view"}
    PROVE  Commit(t) \/ CommitRepeat(t)
<1>1. ~\E u \in Account : SetFriendRequestPolicy(u)
  BY DEF SetFriendRequestPolicy, tasks
<1>2. PICK x \in Task : Start(x) \/ Work(x) \/ Fail(x) \/ FailView(x) \/ LoseCommit(x)
  BY <1>1 DEF Next
<1>3. CASE x = t
  BY <1>2, <1>3
     DEF Work, Start, Target, Begin, FindPair, LockPair, Check, CheckRecipient, CheckBlocks,
         CheckPolicy, CheckFriends, FindExisting, CheckReverse, InsertRequest, LockRow, Write,
         Sweep, LoseCommit, Rollback, DeleteBlock, View, Notify, Fail, FailView, At, GoTo,
         Finish, Locked, IndInv, TypeOK
<1>4. CASE x # t
  <2>1. pc'[t] = pc[t]
    BY <1>2, <1>4
       DEF Work, Start, Target, Begin, FindPair, LockPair, Check, CheckRecipient, CheckBlocks,
           CheckPolicy, CheckFriends, FindExisting, CommitRepeat, CheckReverse, InsertRequest,
           LockRow, Write, Sweep, Commit, LoseCommit, Rollback, DeleteBlock, View, Notify, Fail,
           FailView, GoTo, Remember, Finish, IndInv, TypeOK
  <2> QED BY <2>1
<1> QED BY <1>3, <1>4

\* A handled request keeps its status, and no request disappears.
THEOREM HandledStaysHandled == Spec => HandledIsFinal
<1> DEFINE A == \A r \in DOMAIN requests :
                  /\ r \in DOMAIN requests'
                  /\ requests'[r].sender = requests[r].sender
                  /\ requests'[r].recipient = requests[r].recipient
                  /\ ~IsPending(r) => requests'[r] = requests[r]
<1>1. IndInv /\ [Next]_vars => [A]_graph
  <2> SUFFICES ASSUME IndInv, [Next]_vars PROVE A \/ UNCHANGED graph
    OBVIOUS
  <2>1. ASSUME NEW t \in Task, At(t, "commit"), Apply(t) PROVE A
    <3>1. \A r \in tx[t].rows : IsPending(r)
      BY <2>1 DEF IndInv, TaskInv, WritesInv, At
    <3> QED BY <2>1, <3>1, ApplyEffects DEF At
  <2>2. ASSUME NEW t \in Task, DeleteBlock(t) PROVE A BY <2>2 DEF DeleteBlock
  <2> QED BY <2>1, <2>2, TableSteps
<1> QED BY <1>1, InvariantHolds, PTL DEF Spec, HandledIsFinal

\* A friendship only comes from the acceptance of an open request of that pair,
\* and never while one of the two blocks the other.
THEOREM FriendshipIsAccepted == Spec => FriendshipNeedsAcceptance
<1> DEFINE A == \A p \in friendships' \ friendships :
                  \E r \in DOMAIN requests :
                      /\ IsPending(r) /\ PairOf(r) = p
                      /\ requests'[r].status = "accepted"
                      /\ ~BlockedEitherWay(requests[r].sender, requests[r].recipient)
<1>1. IndInv /\ [Next]_vars => [A]_graph
  <2> SUFFICES ASSUME IndInv, [Next]_vars PROVE A \/ UNCHANGED graph
    OBVIOUS
  <2>1. ASSUME NEW t \in Task, At(t, "commit"), Apply(t) PROVE A
    <3> SUFFICES ASSUME NEW p \in friendships' \ friendships
                 PROVE  \E r \in DOMAIN requests :
                          /\ IsPending(r) /\ PairOf(r) = p
                          /\ requests'[r].status = "accepted"
                          /\ ~BlockedEitherWay(requests[r].sender, requests[r].recipient)
      OBVIOUS
    <3>1. p = key[t] /\ call[t].op = "accept" BY <2>1, ApplyEffects DEF At
    <3>2. /\ call[t].req \in DOMAIN requests /\ IsPending(call[t].req)
          /\ PairOf(call[t].req) = p
      BY <2>1, <3>1 DEF IndInv, TaskInv, WritesInv, At, ByRequest
    <3>3. requests'[call[t].req].status = "accepted"
      BY <2>1, <3>1, ApplyEffects DEF At, Outcome, ByRequest
    <3> QED BY <3>2, <3>3 DEF IndInv, TablesConsistent, NoPendingAcrossBlock
  <2>2. ASSUME NEW t \in Task, DeleteBlock(t) PROVE A BY <2>2 DEF DeleteBlock
  <2> QED BY <2>1, <2>2, TableSteps
<1> QED BY <1>1, InvariantHolds, PTL DEF Spec, FriendshipNeedsAcceptance

\* When create_request commits, the request it will answer with is the only
\* open one between the two users and the sender's own; they are not friends
\* and neither blocks the other.
THEOREM CreatesAnswerOpenRequest == Spec => CreateAnswersOpenRequest
<1> DEFINE A == \A t \in Task :
          /\ pc[t] \in {"commit", "repeat"} /\ pc'[t] \in {"notify", "view"}
          /\ call[t].op = "create"
          => /\ PendingBetween(key[t])' = {found'[t]}
             /\ requests'[found'[t]].sender = call[t].viewer
             /\ key[t] \notin friendships'
             /\ ~BlockedEitherWay(call[t].viewer, call[t].other)'
<1>1. IndInv /\ [Next]_vars => [A]_vars
  <2> SUFFICES ASSUME IndInv, Next, NEW t \in Task,
                      pc[t] \in {"commit", "repeat"}, pc'[t] \in {"notify", "view"},
                      call[t].op = "create"
               PROVE  /\ PendingBetween(key[t])' = {found'[t]}
                      /\ requests'[found'[t]].sender = call[t].viewer
                      /\ key[t] \notin friendships'
                      /\ ~BlockedEitherWay(call[t].viewer, call[t].other)'
    OBVIOUS
  <2> DEFINE u == call[t].viewer
             v == call[t].other
  <2>1. /\ CallInv(t) /\ WritesInv(t) /\ CreateInv(t) /\ TablesConsistent
        /\ key[t] = Pair(u, v)
    BY DEF IndInv, TaskInv, CallInv, PairKey, ByRequest
  <2>2. /\ ~BlockedEitherWay(u, v) /\ key[t] \notin friendships
    BY <2>1 DEF CreateInv
  <2>3. \/ Commit(t)
        \/ CommitRepeat(t)
    BY CommitSteps
  <2>4. /\ key' = key /\ call' = call /\ found' = found
    BY <2>3 DEF Commit, CommitRepeat, GoTo
  <2>5. IndInv' BY NextIndInv
  <2>6. TablesConsistent' BY <2>5 DEF IndInv
  <2>7. ASSUME NEW r \in DOMAIN requests', r = found'[t], requests'[r] = NewRow(u, v)
        PROVE  /\ PendingBetween(key[t])' = {found'[t]}
               /\ requests'[found'[t]].sender = u
    <3>1. requests'[r].sender = u /\ requests'[r].recipient = v
          /\ requests'[r].status = "pending"
      BY <2>7 DEF NewRow
    <3>2. r \in PendingBetween(key[t])'
      BY <2>1, <2>4, <2>7, <3>1 DEF PendingBetween, IsPending, PairOf
    <3>3. \A x \in PendingBetween(key[t])' : x = r
      BY <2>6, <3>2 DEF TablesConsistent, AtMostOnePendingPerPair, PendingBetween
    <3> QED BY <2>7, <3>1, <3>2, <3>3
  <2>8. CASE Commit(t)
    <3>1. At(t, "commit") /\ pc[t] = "commit" /\ Apply(t) BY <2>8 DEF Commit, At
    <3>2. tx[t].opened /\ found[t] = call[t].req BY <2>1, <3>1 DEF CreateInv
    <3>3. PendingBetween(key[t])' = {found'[t]} /\ requests'[found'[t]].sender = u
      BY <2>4, <2>7, <3>1, <3>2, ApplyEffects
    <3>4. friendships' = friendships /\ blocks' = blocks
      <4>1. tx[t].link = "keep" /\ ~tx[t].block
        BY <2>1 DEF WritesInv, IndInv, TypeOK, Writes
      <4>2. /\ friendships' = CASE tx[t].link = "add" -> friendships \cup {key[t]}
                                [] tx[t].link = "drop" -> friendships \ {key[t]}
                                [] OTHER -> friendships
            /\ blocks' = IF tx[t].block THEN blocks \cup {<<u, v>>} ELSE blocks
        BY <3>1 DEF Apply
      <4> QED BY <4>1, <4>2
    <3> QED BY <2>2, <2>4, <3>3, <3>4 DEF BlockedEitherWay
  <2>9. CASE CommitRepeat(t)
    <3>1. pc[t] = "repeat" /\ UNCHANGED graph BY <2>9 DEF CommitRepeat, At
    <3>2. found[t] \in PendingFrom(u, v) BY <2>1, <3>1 DEF CreateInv
    <3>3. /\ found[t] \in PendingBetween(key[t])
          /\ requests[found[t]].sender = u
      BY <2>1, <3>2 DEF PendingFrom, PendingBetween, PairOf, Pair
    <3>4. PendingBetween(key[t]) = {found[t]}
      BY <2>1, <3>3 DEF TablesConsistent, AtMostOnePendingPerPair, PendingBetween
    <3>5. PendingBetween(key[t])' = PendingBetween(key[t]) /\ requests' = requests
      BY <2>4, <3>1, TablesSame
    <3> QED BY <2>2, <2>4, <3>1, <3>3, <3>4, <3>5, TablesSame DEF graph, BlockedEitherWay
  <2> QED BY <2>3, <2>8, <2>9
<1> QED BY <1>1, InvariantHolds, PTL DEF Spec, CreateAnswersOpenRequest

-----------------------------------------------------------------------------
(* Refinement *)

\* SocialGraph reads the tables as SocialRelations does.
LEMMA SameQueries ==
    /\ \A u, v : Graph!Pair(u, v) = Pair(u, v)
    /\ \A r : (Graph!IsPending(r) <=> IsPending(r)) /\ Graph!PairOf(r) = PairOf(r)
    /\ \A p : Graph!PendingBetween(p) = PendingBetween(p)
    /\ \A u, v : Graph!BlockedEitherWay(u, v) <=> BlockedEitherWay(u, v)
    /\ \A R, A, s : Graph!Close(R, A, s) = Close(R, A, s)
    /\ \A r, q : Graph!Open(r, q) = Open(r, q)
    /\ \A u, v : Graph!NewRow(u, v) = NewRow(u, v)
BY DEF Graph!Pair, Pair, Graph!IsPending, IsPending, Graph!PairOf, PairOf,
       Graph!PendingBetween, PendingBetween, Graph!BlockedEitherWay, BlockedEitherWay,
       Graph!Close, Close, Graph!Open, Open, Graph!NewRow, NewRow

\* A commit is one operation of SocialGraph, or changes nothing.
LEMMA CommitIsOneOperation ==
    ASSUME IndInv, NEW t \in Task, At(t, "commit"), Apply(t)
    PROVE  Graph!GraphNext \/ UNCHANGED graph
<1> DEFINE c == call[t]
           w == tx[t]
<1>1. /\ CallInv(t) /\ WritesInv(t) /\ CreateInv(t) /\ c \in Call /\ w \in Writes
      /\ GraphTypeOK /\ pc[t] = "commit" /\ c.viewer \in Account
      /\ AtMostOnePendingPerPair /\ NoPendingAcrossBlock
  BY DEF IndInv, TablesConsistent, TypeOK, TaskInv, CallInv, Call, At
<1>2. /\ friendships' = CASE w.link = "add" -> friendships \cup {key[t]}
                          [] w.link = "drop" -> friendships \ {key[t]}
                          [] OTHER -> friendships
      /\ blocks' = IF w.block THEN blocks \cup {<<c.viewer, c.other>>} ELSE blocks
      /\ requests' = IF w.opened THEN Open(c.req, NewRow(c.viewer, c.other))
                     ELSE Close(w.rows, {c.req}, Outcome(c.op))
  BY DEF Apply
<1>3. c.op \in {"create", "accept", "reject", "cancel", "remove", "block"}
  BY <1>1 DEF CallInv, Call, StatementsOf, ByRequest, ByUser
<1>4. \A s, A : Close({}, A, s) = requests BY <1>1 DEF Close, GraphTypeOK
<1>5. CASE c.op = "create"
  <2>1. /\ w.link = "keep" /\ ~w.block /\ w.rows = {}
        /\ key[t] = Pair(c.viewer, c.other) /\ c.other \in Account /\ c.viewer # c.other
        /\ c.req \in RequestId /\ c.req \notin DOMAIN requests
    BY <1>1, <1>5
       DEF CallInv, WritesInv, CreateInv, Writes, Call, ByRequest, ByUser, PairKey, NamesAnother
  <2>2. friendships' = friendships /\ blocks' = blocks BY <1>2, <2>1
  <2>3. CASE w.opened
    <3>1. Graph!Ask(c.viewer, c.other, c.req)
      BY <1>1, <1>2, <1>5, <2>1, <2>2, <2>3, SameQueries DEF Graph!Ask, CreateInv
    <3> QED BY <1>1, <2>1, <3>1 DEF Graph!GraphNext
  <2>4. CASE ~w.opened
    BY <1>2, <1>4, <2>1, <2>2, <2>4 DEF graph
  <2> QED BY <2>3, <2>4
<1>6. CASE c.op = "accept"
  <2>1. /\ w.link = "add" /\ ~w.block /\ ~w.opened
        /\ c.req \in DOMAIN requests /\ key[t] = PairOf(c.req)
        /\ c.req \in w.rows /\ IsPending(c.req)
    BY <1>1, <1>6 DEF CallInv, WritesInv, ByRequest
  <2>2. w.rows = PendingBetween(key[t])
    BY <1>1, <1>6 DEF WritesInv, PendingBetween
  <2>3. Graph!Accept(c.req)
    BY <1>1, <1>2, <1>6, <2>1, <2>2, SameQueries DEF Graph!Accept, Outcome, NoPendingAcrossBlock
  <2>4. c.req \in RequestId BY <1>1, <2>1 DEF GraphTypeOK
  <2> QED BY <2>3, <2>4 DEF Graph!GraphNext
<1>7. CASE c.op \in {"reject", "cancel"}
  <2>1. /\ w.link = "keep" /\ ~w.block /\ ~w.opened
        /\ c.req \in DOMAIN requests /\ key[t] = PairOf(c.req)
        /\ c.req \in w.rows /\ IsPending(c.req)
    BY <1>1, <1>7 DEF CallInv, WritesInv, ByRequest, Writes
  <2>2. w.rows = {c.req}
    BY <1>1, <2>1 DEF WritesInv, AtMostOnePendingPerPair
  <2>3. Outcome(c.op) \in {"rejected", "cancelled"} BY <1>7 DEF Outcome
  <2>4. Graph!Decline(c.req, Outcome(c.op))
    BY <1>2, <2>1, <2>2, <2>3, SameQueries DEF Graph!Decline
  <2>5. c.req \in RequestId /\ Outcome(c.op) \in Graph!Status
    BY <1>1, <2>1, <2>3 DEF GraphTypeOK, Graph!Status
  <2> QED BY <2>4, <2>5 DEF Graph!GraphNext
<1>8. CASE c.op = "remove"
  <2>1. w.link \in {"keep", "drop"} /\ ~w.block /\ ~w.opened /\ w.rows = {}
    BY <1>1, <1>8 DEF WritesInv, ByRequest, Writes
  <2>2. requests' = requests /\ blocks' = blocks BY <1>2, <1>4, <2>1
  <2>3. CASE w.link = "drop" /\ key[t] \in friendships
    <3>1. key[t] \in Graph!Pairs BY <1>1, <2>3 DEF GraphTypeOK, Pairs, Graph!Pairs, Pair, Graph!Pair
    <3>2. Graph!Unfriend(key[t]) BY <1>2, <2>2, <2>3 DEF Graph!Unfriend
    <3> QED BY <3>1, <3>2 DEF Graph!GraphNext
  <2>4. CASE w.link = "keep" \/ key[t] \notin friendships
    <3>1. friendships' = friendships BY <1>2, <2>1, <2>4
    <3> QED BY <2>2, <3>1 DEF graph
  <2> QED BY <2>1, <2>3, <2>4
<1>9. CASE c.op = "block"
  <2>1. /\ w.link = "keep" /\ ~w.opened
        /\ c.other \in Account /\ c.viewer # c.other /\ key[t] = Pair(c.viewer, c.other)
        /\ c.req = None
    BY <1>1, <1>9
       DEF CallInv, WritesInv, Writes, Call, ByRequest, ByUser, PairKey, NamesAnother
  <2>2. w.rows = PendingBetween(key[t])
    BY <1>1, <1>9 DEF WritesInv, PendingBetween
  <2>3. c.req \notin w.rows BY <1>1, <2>1, DataAssumption DEF WritesInv, GraphTypeOK
  <2>4. friendships' = friendships BY <1>2, <2>1
  <2>5. CASE w.block
    <3>1. requests' = Close(w.rows, {}, "cancelled")
      <4>1. Close(w.rows, {c.req}, Outcome(c.op)) = Close(w.rows, {}, "cancelled")
        BY <2>3 DEF Close
      <4> QED BY <1>2, <2>1, <4>1
    <3>2. Graph!Block(c.viewer, c.other)
      BY <1>2, <2>1, <2>2, <2>4, <2>5, <3>1, SameQueries DEF Graph!Block
    <3> QED BY <1>1, <2>1, <3>2 DEF Graph!GraphNext
  <2>6. CASE ~w.block
    <3>1. w.rows = {} BY <1>1, <1>9, <2>2, <2>6 DEF WritesInv
    <3> QED BY <1>2, <1>4, <2>1, <2>4, <2>6, <3>1 DEF graph
  <2> QED BY <2>5, <2>6
<1> QED BY <1>3, <1>5, <1>6, <1>7, <1>8, <1>9

\* The concurrent handlers implement the atomic relations of SocialGraph.
THEOREM HandlersImplementGraph == Spec => ImplementsGraph
<1>1. Init => Graph!GraphInit BY DEF Init, Graph!GraphInit
<1>2. IndInv /\ [Next]_vars => [Graph!GraphNext]_(Graph!graph)
  <2> SUFFICES ASSUME IndInv, [Next]_vars PROVE Graph!GraphNext \/ UNCHANGED graph
    BY DEF Graph!graph, graph
  <2>1. ASSUME NEW t \in Task, At(t, "commit"), Apply(t)
        PROVE  Graph!GraphNext \/ UNCHANGED graph
    BY <2>1, CommitIsOneOperation
  <2>2. ASSUME NEW t \in Task, DeleteBlock(t) PROVE Graph!GraphNext \/ UNCHANGED graph
    <3>1. /\ call[t].viewer \in Account
          /\ blocks' = blocks \ {<<call[t].viewer, call[t].other>>}
          /\ friendships' = friendships /\ requests' = requests
      BY <2>2 DEF DeleteBlock, At, IndInv, TaskInv, CallInv, Call
    <3>2. CASE call[t].other \in Account
      <4>1. Graph!Unblock(call[t].viewer, call[t].other) BY <3>1 DEF Graph!Unblock
      <4> QED BY <3>1, <3>2, <4>1 DEF Graph!GraphNext
    <3>3. CASE call[t].other \notin Account
      <4>1. <<call[t].viewer, call[t].other>> \notin blocks
        BY <3>3 DEF IndInv, TypeOK, GraphTypeOK
      <4> QED BY <3>1, <4>1 DEF graph
    <3> QED BY <3>2, <3>3
  <2> QED BY <2>1, <2>2, TableSteps
<1> QED BY <1>1, <1>2, InvariantHolds, PTL DEF Spec, ImplementsGraph, Graph!GraphSpec
=============================================================================
