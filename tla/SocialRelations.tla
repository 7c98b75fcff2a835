-------------------------- MODULE SocialRelations --------------------------
(***************************************************************************)
(* The handlers of src/src/social/relationships.rs that change relations,  *)
(* run by concurrent tasks against one PostgreSQL database.  A task walks  *)
(* through its handler one SQL statement at a time; a statement reads the  *)
(* committed tables (READ COMMITTED), what a transaction writes is kept in *)
(* tx[t] until it commits, the advisory lock on the pair of users and the  *)
(* row locks are held until the transaction ends, and each transaction     *)
(* occupies a connection of the bounded pool.                              *)
(***************************************************************************)
EXTENDS SocialTables, Naturals, FiniteSets

CONSTANTS Task,         \* handler invocations that may be in flight
          Stranger,     \* ids a client may name that belong to nobody
          Connections,  \* size of the connection pool (5 in database.rs)
          Ops,          \* operations clients ask for: a bound of the instances
          Watching,     \* users with a client that shows relations
          Faults,       \* what may fail: "statement", "commit", "answer"
          None

ASSUME DataAssumption ==
    /\ None \notin RequestId \cup Account \cup Stranger
    /\ Account \cap Stranger = {}
    /\ Watching \subseteq Account

VARIABLES refusing,     \* users whose friend_request_policy is 'nobody'
          pc,           \* task -> the next statement of its handler
          call,         \* task -> the request it serves
          key,          \* task -> the pair whose advisory lock it asks for
          found,        \* task -> the id create_request will answer with
          tx,           \* task -> uncommitted writes and row locks
          owed          \* <<user, pair>>: committed change not yet announced

tasks == <<pc, call, key, found, tx>>
vars == <<graph, refusing, tasks, owed>>

ByRequest == {"accept", "reject", "cancel"}
ByUser == {"remove", "block", "unblock"}
Named == Account \cup Stranger
Call ==
    [op : {"create"}, viewer : Account, other : Named, req : RequestId]
    \cup [op : ByRequest, viewer : Account, other : {None}, req : RequestId]
    \cup [op : ByUser, viewer : Account, other : Named, req : {None}]

\* Statements that run while the pair lock is held, and inside a transaction.
Locked == {"exists", "blocked", "policy", "friends", "existing", "reverse",
           "insert", "repeat", "row", "write", "sweep", "commit", "rollback"}
InTx == {"find", "lock"} \cup Locked
Statement == {"idle", "target", "begin", "delete", "view", "notify"} \cup InTx

NoWrites == [link |-> "keep", block |-> FALSE, opened |-> FALSE, rows |-> {}]
Writes == [link : {"keep", "add", "drop"}, block : BOOLEAN, opened : BOOLEAN,
           rows : SUBSET RequestId]

TypeOK ==
    /\ GraphTypeOK
    /\ refusing \subseteq Account
    /\ pc \in [Task -> Statement]
    /\ call \in [Task -> Call \cup {None}]
    /\ key \in [Task -> (SUBSET Named) \cup {None}]
    /\ found \in [Task -> RequestId \cup {None}]
    /\ tx \in [Task -> Writes]
    /\ owed \subseteq Watching \X SUBSET Named

Init ==
    /\ friendships = {} /\ blocks = {} /\ requests = << >>
    /\ refusing = {}
    /\ pc = [t \in Task |-> "idle"]
    /\ call = [t \in Task |-> None]
    /\ key = [t \in Task |-> None]
    /\ found = [t \in Task |-> None]
    /\ tx = [t \in Task |-> NoWrites]
    /\ owed = {}

-----------------------------------------------------------------------------
(* Locks and connections *)

\* lock_pair orders the two ids, so both directions ask for the same lock.
PairKey(u, v) == Pair(u, v)

\* Altered forms, which the runs must tell from the code, stand right before the
\* definition they alter: here, no lock at all, and accept, reject and cancel
\* relying on their row lock alone.
LockIgnored(t) == TRUE
RowLockSuffices(t) ==
    \/ call[t].op \in ByRequest
    \/ \A x \in Task \ {t} : pc[x] \in Locked => key[x] # key[t]
LockFree(t) == \A x \in Task \ {t} : pc[x] \in Locked => key[x] # key[t]
RowsFree(t, R) == \A x \in Task \ {t} : tx[x].rows \cap R = {}

\* Altered: the answer is read before the transaction gives its connection back.
ConnectionsKept ==
    Cardinality({t \in Task : pc[t] \in InTx \cup {"view", "notify"}}) < Connections
FreeConnection == Cardinality({t \in Task : pc[t] \in InTx}) < Connections

\* An id the sequence has not handed out.  A create call draws its id when it
\* starts: nobody can see it before the insert commits.
Fresh(r) ==
    /\ r \notin DOMAIN requests
    /\ \A t \in Task : pc[t] # "idle" => ~(call[t].op = "create" /\ call[t].req = r)

-----------------------------------------------------------------------------
(* Control *)

At(t, statement) == pc[t] = statement
GoTo(t, statement) ==
    /\ pc' = [pc EXCEPT ![t] = statement]
    /\ UNCHANGED <<call, key, found>>
Remember(t, r, statement) ==
    /\ found' = [found EXCEPT ![t] = r]
    /\ pc' = [pc EXCEPT ![t] = statement]
    /\ UNCHANGED <<call, key>>
Finish(t) ==
    /\ pc' = [pc EXCEPT ![t] = "idle"]
    /\ call' = [call EXCEPT ![t] = None]
    /\ key' = [key EXCEPT ![t] = None]
    /\ found' = [found EXCEPT ![t] = None]
    /\ tx' = [tx EXCEPT ![t] = NoWrites]

\* positive_id has passed; nobody may name himself.
NamesAnother(c) == c.other # c.viewer

\* A request arrives; identity, ids and message have been validated.  The
\* query of require_viewer, made while nothing is held, is no step of its own.
Start(t) ==
    /\ At(t, "idle")
    /\ \E c \in Call :
        /\ c.op \in Ops /\ NamesAnother(c)
        /\ c.op = "create" => Fresh(c.req)
        /\ pc' = [pc EXCEPT ![t] = CASE c.op = "block" -> "target"
                                      [] c.op = "unblock" -> "delete"
                                      [] OTHER -> "begin"]
        /\ call' = [call EXCEPT ![t] = c]
        /\ key' = [key EXCEPT ![t] = IF c.op \in ByRequest THEN None
                                     ELSE PairKey(c.viewer, c.other)]
    /\ UNCHANGED <<graph, refusing, found, tx, owed>>

\* block_user looks its target up before it begins a transaction.
Target(t) ==
    /\ At(t, "target") /\ FreeConnection
    /\ IF call[t].other \in Account THEN GoTo(t, "begin") /\ UNCHANGED tx
                                    ELSE Finish(t)
    /\ UNCHANGED <<graph, refusing, owed>>

Begin(t) ==
    /\ At(t, "begin") /\ FreeConnection
    /\ GoTo(t, IF call[t].op \in ByRequest THEN "find" ELSE "lock")
    /\ UNCHANGED <<graph, refusing, tx, owed>>

\* lock_request_pair reads the pair of the request without locking its row.
FindPair(t) ==
    /\ At(t, "find")
    /\ LET r == call[t].req
       IN  IF r \in DOMAIN requests
           THEN /\ pc' = [pc EXCEPT ![t] = "lock"]
                /\ key' = [key EXCEPT ![t] =
                       PairKey(requests[r].sender, requests[r].recipient)]
                /\ UNCHANGED <<call, found, tx>>
           ELSE Finish(t)
    /\ UNCHANGED <<graph, refusing, owed>>

LockPair(t) ==
    /\ At(t, "lock") /\ LockFree(t)
    /\ GoTo(t, CASE call[t].op = "create" -> "exists"
                 [] call[t].op \in ByRequest -> "row"
                 [] OTHER -> "write")
    /\ UNCHANGED <<graph, refusing, tx, owed>>

-----------------------------------------------------------------------------
(* create_request: one check per statement, each with its early return *)

Check(t, here, refused, there) ==
    /\ At(t, here)
    /\ GoTo(t, IF refused THEN "rollback" ELSE there)
    /\ UNCHANGED <<graph, refusing, tx, owed>>

CheckRecipient(t) == Check(t, "exists", call[t].other \notin Account, "blocked")

\* Altered: only the block the sender made counts.
CheckOwnBlocks(t) ==
    Check(t, "blocked", <<call[t].viewer, call[t].other>> \in blocks, "policy")
CheckBlocks(t) ==
    Check(t, "blocked", BlockedEitherWay(call[t].viewer, call[t].other), "policy")
CheckPolicy(t) == Check(t, "policy", call[t].other \in refusing, "friends")

\* Altered: friends may be asked again.
FriendsUnchecked(t) == Check(t, "friends", FALSE, "existing")
CheckFriends(t) ==
    Check(t, "friends", Pair(call[t].viewer, call[t].other) \in friendships, "existing")

PendingFrom(u, v) ==
    {r \in DOMAIN requests : /\ IsPending(r)
                             /\ requests[r].sender = u /\ requests[r].recipient = v}

\* A repeated request commits and answers with the one that is already open.
FindExisting(t) ==
    /\ At(t, "existing")
    /\ LET mine == PendingFrom(call[t].viewer, call[t].other)
       IN  \/ mine = {} /\ GoTo(t, "reverse")
           \/ \E r \in mine : Remember(t, r, "repeat")
    /\ UNCHANGED <<graph, refusing, tx, owed>>

\* Nothing was written and nobody is told.
CommitRepeat(t) ==
    /\ At(t, "repeat")
    /\ GoTo(t, "view")
    /\ UNCHANGED <<graph, refusing, tx, owed>>

CheckReverse(t) ==
    Check(t, "reverse", PendingFrom(call[t].other, call[t].viewer) # {}, "insert")

\* The insert waits while another transaction writes a row of the same unique
\* index entry; on conflict the handler goes on with the open request it met,
\* but under the pair lock it meets none (CreateInv).
IndexSettled(t) ==
    \A x \in Task \ {t} :
        /\ tx[x].opened => \/ call[x].viewer # call[t].viewer
                           \/ call[x].other # call[t].other
        /\ PendingFrom(call[t].viewer, call[t].other) \cap tx[x].rows = {}

InsertRequest(t) ==
    /\ At(t, "insert") /\ IndexSettled(t)
    /\ LET mine == PendingFrom(call[t].viewer, call[t].other)
       IN  /\ tx' = [tx EXCEPT ![t].opened = mine = {}]
           /\ \E r \in IF mine = {} THEN {call[t].req} ELSE mine : Remember(t, r, "commit")
    /\ UNCHANGED <<graph, refusing, owed>>

-----------------------------------------------------------------------------
(* accept_request, reject_request, cancel_request *)

Entitled(t) ==
    LET q == requests[call[t].req]
    IN  call[t].viewer = IF call[t].op = "cancel" THEN q.sender ELSE q.recipient

\* Altered: the status of the request is not looked at.
HandleableAnyStatus(t) == Entitled(t)
Handleable(t) == Entitled(t) /\ IsPending(call[t].req)

\* SELECT ... FOR UPDATE, then the actor and status checks.
LockRow(t) ==
    /\ At(t, "row") /\ RowsFree(t, {call[t].req})
    /\ tx' = [tx EXCEPT ![t].rows = {call[t].req}]
    /\ GoTo(t, IF Handleable(t) THEN "write" ELSE "rollback")
    /\ UNCHANGED <<graph, refusing, owed>>

\* The first write of the handler: accept inserts the friendship and marks its
\* request, reject and cancel only mark it, remove deletes the friendship,
\* block inserts the block.  The inserts do nothing when the row exists.  The two
\* statements of accept are one step: neither shows before the commit.
Write(t) ==
    /\ At(t, "write")
    /\ LET c == call[t]
           p == key[t]
       IN  tx' = [tx EXCEPT
               ![t].link = CASE c.op = "accept" /\ p \notin friendships -> "add"
                             [] c.op = "remove" /\ p \in friendships -> "drop"
                             [] OTHER -> "keep",
               ![t].block = c.op = "block" /\ <<c.viewer, c.other>> \notin blocks]
    /\ GoTo(t, IF call[t].op \in {"accept", "block"} THEN "sweep" ELSE "commit")
    /\ UNCHANGED <<graph, refusing, owed>>

\* Altered: the update forgets status = 'pending'.
WithdrawsHandled(t) == {r \in DOMAIN requests : PairOf(r) = key[t]}
\* accept and block withdraw every other open request of the pair.
Withdrawn(t) == PendingBetween(key[t])

Sweep(t) ==
    /\ At(t, "sweep") /\ RowsFree(t, Withdrawn(t))
    /\ tx' = [tx EXCEPT ![t].rows = @ \cup Withdrawn(t)]
    /\ GoTo(t, "commit")
    /\ UNCHANGED <<graph, refusing, owed>>

-----------------------------------------------------------------------------
(* The end of a transaction, and what follows it *)

Outcome(op) == CASE op = "accept" -> "accepted"
                 [] op = "reject" -> "rejected"
                 [] OTHER -> "cancelled"

\* The users an operation will send events to.
Audience(t) ==
    Watching \cap IF call[t].op = "create" THEN {call[t].other} ELSE key[t]

Apply(t) ==
    LET c == call[t]
        w == tx[t]
    IN  /\ friendships' = CASE w.link = "add" -> friendships \cup {key[t]}
                            [] w.link = "drop" -> friendships \ {key[t]}
                            [] OTHER -> friendships
        /\ blocks' = IF w.block THEN blocks \cup {<<c.viewer, c.other>>} ELSE blocks
        /\ requests' = IF w.opened THEN Open(c.req, NewRow(c.viewer, c.other))
                       ELSE Close(w.rows, {c.req}, Outcome(c.op))
        /\ owed' = owed \cup (Audience(t) \X {key[t]})

\* accept and reject read their answer before they announce the change, create
\* announces it first, the others have no answer to read.
Commit(t) ==
    /\ At(t, "commit")
    /\ Apply(t)
    /\ tx' = [tx EXCEPT ![t] = NoWrites]
    /\ GoTo(t, IF call[t].op \in {"accept", "reject"} THEN "view" ELSE "notify")
    /\ UNCHANGED refusing

\* Altered: the statements ran on the pool, so what was written stays.
KeepWrites(t) == At(t, "rollback") /\ Apply(t) /\ Finish(t) /\ UNCHANGED refusing
Rollback(t) ==
    /\ At(t, "rollback")
    /\ Finish(t)
    /\ UNCHANGED <<graph, refusing, owed>>

\* unblock_user: one statement outside any transaction, without the pair lock.
DeleteBlock(t) ==
    /\ At(t, "delete") /\ FreeConnection
    /\ blocks' = blocks \ {<<call[t].viewer, call[t].other>>}
    /\ owed' = owed \cup (Audience(t) \X {key[t]})
    /\ GoTo(t, "notify")
    /\ UNCHANGED <<friendships, requests, refusing, tx>>

\* current_friend_request_view, for the answer.
View(t) ==
    /\ At(t, "view") /\ FreeConnection
    /\ IF call[t].op = "create" THEN Finish(t) ELSE GoTo(t, "notify") /\ UNCHANGED tx
    /\ UNCHANGED <<graph, refusing, owed>>

\* Altered: whoever made the change is not told on his other devices.
ToldTheOther(t) ==
    IF call[t].op = "create" THEN {call[t].other} ELSE key[t] \ {call[t].viewer}
Told(t) == IF call[t].op = "create" THEN {call[t].other} ELSE key[t]

\* A client that is told of a change reads the relations again.
Notify(t) ==
    /\ At(t, "notify")
    /\ owed' = owed \ (Told(t) \X {key[t]})
    /\ IF call[t].op = "create" THEN GoTo(t, "view") /\ UNCHANGED tx ELSE Finish(t)
    /\ UNCHANGED <<graph, refusing>>

\* update_preferences: one upsert, outside any lock.
SetFriendRequestPolicy(u) ==
    /\ "preferences" \in Ops
    /\ refusing' \in {refusing \cup {u}, refusing \ {u}} \ {refusing}
    /\ UNCHANGED <<graph, tasks, owed>>

-----------------------------------------------------------------------------
(* Failures: a statement errs or times out, or the client hangs up and the *)
(* handler is dropped; the transaction is rolled back.                      *)

Fail(t) ==
    /\ "statement" \in Faults
    /\ \/ pc[t] \in Locked \ {"rollback"} /\ GoTo(t, "rollback") /\ UNCHANGED tx
       \/ pc[t] \in {"target", "begin", "find", "lock", "delete"} /\ Finish(t)
    /\ UNCHANGED <<graph, refusing, owed>>

\* The change is committed but the answer cannot be read.
FailView(t) ==
    /\ "answer" \in Faults
    /\ At(t, "view") /\ Finish(t)
    /\ UNCHANGED <<graph, refusing, owed>>

\* The commit takes effect but the handler never learns it.
LoseCommit(t) ==
    /\ "commit" \in Faults
    /\ At(t, "commit") /\ Apply(t)
    /\ Finish(t)
    /\ UNCHANGED refusing

Work(t) ==
    \/ Target(t) \/ Begin(t) \/ FindPair(t) \/ LockPair(t)
    \/ CheckRecipient(t) \/ CheckBlocks(t) \/ CheckPolicy(t) \/ CheckFriends(t)
    \/ FindExisting(t) \/ CommitRepeat(t) \/ CheckReverse(t) \/ InsertRequest(t)
    \/ LockRow(t) \/ Write(t) \/ Sweep(t)
    \/ Commit(t) \/ Rollback(t) \/ DeleteBlock(t) \/ View(t) \/ Notify(t)

Next ==
    \/ \E t \in Task : Start(t) \/ Work(t) \/ Fail(t) \/ FailView(t) \/ LoseCommit(t)
    \/ \E u \in Account : SetFriendRequestPolicy(u)

\* The pool hands connections out, and PostgreSQL its locks, first come first
\* served: a task that waits for one of them again and again gets it.
Fairness == \A t \in Task : SF_vars(Work(t))

Spec == Init /\ [][Next]_vars
FairSpec == Spec /\ Fairness

-----------------------------------------------------------------------------
(* Properties *)

Graph == INSTANCE SocialGraph WITH
            Account <- Account, RequestId <- RequestId,
            friendships <- friendships, blocks <- blocks, requests <- requests

\* Whatever the interleaving, what commits is a sequence of whole operations:
\* the transactions, the unlocked unblock and the lost answers implement the
\* atomic relations of SocialGraph.
ImplementsGraph == Graph!GraphSpec

\* "Two opposite friend requests, an accept and a block cannot interleave"
\* (lock_pair): tasks inside a transaction on the same pair are the same task.
PairLockExcludes ==
    \A t, x \in Task :
        pc[t] \in Locked /\ pc[x] \in Locked /\ key[t] = key[x] => t = x

\* lock_request_pair: "accepting must never hold the request row while waiting
\* for the pair lock".  No transaction ever waits for a row or an index entry of
\* the requests, since whoever could hold it would hold the pair lock.
RowsNeverContended ==
    \A t \in Task :
        /\ At(t, "row") => RowsFree(t, {call[t].req})
        /\ At(t, "sweep") => RowsFree(t, Withdrawn(t))
        /\ At(t, "insert") => IndexSettled(t)

\* Answers are read after the pair lock is gone.  Those of accept and reject
\* still show the status the handler set, which nobody can have changed since.
\* That of create shows the sender's own request to that user, by then perhaps
\* handled.
AnswerShowsOutcome ==
    \A t \in Task : At(t, "view") =>
        IF call[t].op = "create"
        THEN /\ requests[found[t]].sender = call[t].viewer
             /\ requests[found[t]].recipient = call[t].other
        ELSE requests[call[t].req].status = Outcome(call[t].op)

\* When create_request commits, a new request or the one it found, exactly one
\* request is open between the two users: the sender's own, whose id the
\* handler will answer with.  The users are not friends and neither blocks the
\* other, though all that was looked up several statements earlier.
CreateAnswersOpenRequest ==
    [][\A t \in Task :
          /\ pc[t] \in {"commit", "repeat"} /\ pc'[t] \in {"notify", "view"}
          /\ call[t].op = "create"
          => /\ PendingBetween(key[t])' = {found'[t]}
             /\ requests'[found'[t]].sender = call[t].viewer
             /\ key[t] \notin friendships'
             /\ ~BlockedEitherWay(call[t].viewer, call[t].other)']_vars

\* Whatever waits for locks and connections, every handler ends, and so every
\* answer is sent: no cycle of waiting tasks, even when the pool is exhausted.
EveryCallEnds == \A t \in Task : ~At(t, "idle") ~> At(t, "idle")

\* Events are cache invalidations (SOCIAL-API-V2.md:153): when nothing fails,
\* whoever must learn of a committed change is told after the commit.
EveryChangeAnnounced ==
    \A u \in Account, p \in Pairs : <<u, p>> \in owed ~> <<u, p>> \notin owed

-----------------------------------------------------------------------------
(* The inductive invariant: what a task has established so far, and that it *)
(* stays true while the task holds the lock of the pair it speaks of.       *)

StatementsOf(op) ==
    CASE op = "create" -> {"begin", "lock", "exists", "blocked", "policy", "friends",
                           "existing", "repeat", "reverse", "insert", "commit",
                           "rollback", "notify", "view"}
      [] op = "accept" -> {"begin", "find", "lock", "row", "write", "sweep", "commit",
                           "rollback", "view", "notify"}
      [] op = "reject" -> {"begin", "find", "lock", "row", "write", "commit",
                           "rollback", "view", "notify"}
      [] op = "cancel" -> {"begin", "find", "lock", "row", "write", "commit",
                           "rollback", "notify"}
      [] op = "remove" -> {"begin", "lock", "write", "commit", "rollback", "notify"}
      [] op = "block" -> {"target", "begin", "lock", "write", "sweep", "commit",
                          "rollback", "notify"}
      [] OTHER -> {"delete", "notify"}

CallInv(t) ==
    /\ call[t] \in Call /\ NamesAnother(call[t])
    /\ pc[t] \in StatementsOf(call[t].op)
    /\ call[t].op \notin ByRequest => key[t] = PairKey(call[t].viewer, call[t].other)
    /\ call[t].op \in ByRequest /\ pc[t] \notin {"begin", "find"} =>
          call[t].req \in DOMAIN requests /\ key[t] = PairOf(call[t].req)
    /\ call[t].op = "block" /\ pc[t] # "target" => call[t].other \in Account

WritesInv(t) ==
    LET op == call[t].op
        w == tx[t]
    IN  /\ pc[t] \notin {"write", "sweep", "commit", "rollback"} => w = NoWrites
        /\ w.link = "add" => op = "accept"
        /\ w.link = "drop" => op = "remove"
        /\ w.block => op = "block"
        /\ w.opened => op = "create"
        /\ w.rows # {} => op \in ByRequest \cup {"block"}
        /\ \A r \in w.rows :
              /\ r \in DOMAIN requests /\ PairOf(r) = key[t]
              /\ pc[t] # "rollback" => IsPending(r)
        /\ op \in ByRequest /\ pc[t] \in {"write", "sweep", "commit"} => call[t].req \in w.rows
        /\ op \in {"accept", "block"} /\ pc[t] = "commit" => PendingBetween(key[t]) \subseteq w.rows
        /\ op = "accept" /\ pc[t] \in {"sweep", "commit"} => w.link = "add"
        /\ op = "block" /\ pc[t] \in {"sweep", "commit"} /\ ~w.block =>
              PendingBetween(key[t]) = {}

CreateInv(t) ==
    LET u == call[t].viewer
        v == call[t].other
        checked == {"blocked", "policy", "friends", "existing", "repeat", "reverse",
                    "insert", "commit"}
    IN  call[t].op = "create" =>
        /\ pc[t] \notin {"notify", "view"} => call[t].req \notin DOMAIN requests
        /\ pc[t] \in checked => v \in Account
        /\ pc[t] \in checked \ {"blocked"} => ~BlockedEitherWay(u, v)
        /\ pc[t] \in checked \ {"blocked", "policy", "friends"} => Pair(u, v) \notin friendships
        /\ pc[t] \in {"reverse", "insert"} => PendingFrom(u, v) = {}
        /\ pc[t] = "insert" => PendingFrom(v, u) = {}
        /\ pc[t] = "repeat" => found[t] \in PendingFrom(u, v)
        /\ pc[t] = "commit" => /\ tx[t].opened /\ found[t] = call[t].req
                               /\ PendingBetween(Pair(u, v)) = {}

AnswerInv(t) ==
    /\ pc[t] = "view" /\ call[t].op \in ByRequest =>
          requests[call[t].req].status = Outcome(call[t].op)
    /\ pc[t] \in {"notify", "view"} /\ call[t].op = "create" =>
          /\ found[t] \in DOMAIN requests
          /\ requests[found[t]].sender = call[t].viewer
          /\ requests[found[t]].recipient = call[t].other

TaskInv(t) ==
    IF pc[t] = "idle" THEN /\ call[t] = None /\ key[t] = None
                           /\ found[t] = None /\ tx[t] = NoWrites
                      ELSE CallInv(t) /\ WritesInv(t) /\ CreateInv(t) /\ AnswerInv(t)

\* No two running create calls have drawn the same id.
IdsDistinct ==
    \A t, x \in Task :
        /\ pc[t] # "idle" /\ pc[x] # "idle"
        /\ call[t].op = "create" /\ call[x].op = "create"
        /\ call[t].req = call[x].req
        => t = x

\* What every reachable state satisfies and every step preserves: the tables
\* are consistent, the pair lock excludes, and each task's earlier findings
\* about its pair still hold.
IndInv ==
    /\ TypeOK
    /\ TablesConsistent
    /\ PairLockExcludes
    /\ IdsDistinct
    /\ \A t \in Task : TaskInv(t)
=============================================================================
