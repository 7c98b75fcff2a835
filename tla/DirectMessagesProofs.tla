------------------------ MODULE DirectMessagesProofs ------------------------
(***************************************************************************)
(* What sends, clears and read marks keep although each is several         *)
(* statements without a transaction, proved for any users, requests and    *)
(* handlers, any number of messages and any mix of operations; and what    *)
(* the abstract relations promise, beside messages or alone.               *)
(***************************************************************************)
EXTENDS DirectMessages, WellFoundedInduction, TLAPS

\* The messages of the conversation that were there when t began its clear.
OldOnes(t) == began[t] \cap Between(call[t].viewer, call[t].other)

OpAt(statement) ==
    CASE statement \in {"permission", "insert", "commit"} -> {"send"}
      [] statement \in {"max", "upsert"} -> {"clear"}
      [] statement = "mark" -> {"read", "read_all"}
      [] OTHER -> {"send", "clear"}

\* What a handler relies on between its statements.
TaskInv(t) ==
    /\ pc[t] # "idle" => /\ call[t] \in Call /\ call[t].op \in OpAt(pc[t])
                         /\ call[t].viewer # call[t].other
    /\ began[t] \subseteq DOMAIN messages
    /\ pc[t] = "commit" => mark[t] \in Ids /\ mark[t] < nextId /\ mark[t] \notin DOMAIN messages
    /\ pc[t] = "upsert" => \A i \in OldOnes(t) : i <= mark[t]
    /\ pc[t] = "notify" /\ call[t].op = "clear" =>
          \A i \in OldOnes(t) : i <= cleared[<<call[t].viewer, call[t].other>>]

\* The ids drawn and not yet committed are distinct.
DrawnOnce ==
    \A t, x \in Task : pc[t] = "commit" /\ pc[x] = "commit" /\ mark[t] = mark[x] => t = x

IndInv == TypeOK /\ DrawnOnce /\ \A t \in Task : TaskInv(t)

\* What a statement of t may do to what the other handlers rely on: rows stay
\* with their two users, a new row has the id that t has drawn, marks rise.
Careful(t) ==
    /\ UNCHANGED <<graph, messagePolicy>>
    /\ \A x \in Task \ {t} :
          /\ pc'[x] = pc[x] /\ call'[x] = call[x] /\ mark'[x] = mark[x]
          /\ began'[x] = began[x]
    /\ \A i \in DOMAIN messages :
          /\ i \in DOMAIN messages'
          /\ messages'[i].sender = messages[i].sender
          /\ messages'[i].recipient = messages[i].recipient
    /\ \A i \in DOMAIN messages' \ DOMAIN messages : pc[t] = "commit" /\ i = mark[t]
    /\ nextId' >= nextId
    /\ \A p \in Account \X Account : cleared'[p] >= cleared[p]
    /\ pc'[t] = "commit" => mark'[t] = nextId /\ nextId' = nextId + 1

-----------------------------------------------------------------------------
\* A set of numbers that is not empty has a least one.
LEMMA LeastNumber ==
  ASSUME NEW T \in SUBSET Nat, T # {}
  PROVE  \E m \in T : \A n \in T : m <= n
<1> DEFINE R == {p \in Nat \X Nat : p[1] < p[2]}
<1>1. OpToRel(<, Nat) = R BY DEF OpToRel
<1>2. IsWellFoundedOn(R, Nat) BY <1>1, NatLessThanWellFounded
<1>3. PICK m \in T : \A n \in T : <<n, m>> \notin R
  BY <1>2, WFMin
<1>4. \A n \in T : ~(n < m) BY <1>3
<1> QED BY <1>4

\* A set of ids has a greatest one, which Greatest picks.
LEMMA GreatestBounds ==
  ASSUME NEW S \in SUBSET Ids
  PROVE  Greatest(S) \in 0 .. LastId /\ \A i \in S : i <= Greatest(S)
<1>1. CASE S = {} BY <1>1, MessagesAssumption DEF Greatest
<1>2. CASE S # {}
  <2> DEFINE T == {n \in Nat : LastId - n \in S}
  <2>1. PICK s \in S : TRUE BY <1>2
  <2>2. s \in 1 .. LastId BY DEF Ids
  <2>3. LastId - s \in T BY <2>2, MessagesAssumption
  <2>4. PICK m \in T : \A n \in T : m <= n BY <2>3, LeastNumber
  <2>5. LastId - m \in S BY <2>4
  <2>6. ASSUME NEW i \in S PROVE i <= LastId - m
    <3>1. i \in 1 .. LastId BY DEF Ids
    <3>2. LastId - i \in T BY <3>1, MessagesAssumption
    <3> QED BY <2>4, <3>1, <3>2, MessagesAssumption
  <2>7. Greatest(S) \in S /\ \A i \in S : i <= Greatest(S)
    BY <1>2, <2>5, <2>6 DEF Greatest
  <2>8. Greatest(S) \in 1 .. LastId BY <2>7 DEF Ids
  <2>9. Greatest(S) \in 0 .. LastId
    <3> HIDE <2>7
    <3> QED BY <2>8, MessagesAssumption
  <2> QED BY <2>7, <2>9
<1> QED BY <1>1, <1>2

\* Operations on the relations keep their tables well formed.
LEMMA GraphStaysTyped ==
  ASSUME GraphTypeOK, GraphNext
  PROVE  GraphTypeOK'
<1> USE DEF GraphTypeOK
<1>1. ASSUME NEW R, NEW A, NEW s \in Status, requests' = Close(R, A, s)
      PROVE  DOMAIN requests' \subseteq RequestId /\ requests' \in [DOMAIN requests' -> Row]
  <2>1. DOMAIN requests' = DOMAIN requests BY <1>1 DEF Close
  <2>2. ASSUME NEW x \in DOMAIN requests PROVE requests'[x] \in Row
    <3>1. requests[x] \in Row OBVIOUS
    <3>2. \/ requests'[x] = requests[x]
          \/ \E y \in Status : requests'[x] = [requests[x] EXCEPT !.status = y]
      BY <1>1 DEF Close, Status
    <3> QED BY <3>1, <3>2 DEF Row
  <2>3. requests' = [x \in DOMAIN requests' |-> requests'[x]] BY <1>1 DEF Close
  <2> QED BY <2>1, <2>2, <2>3
<1>2. ASSUME NEW u \in Account, NEW v \in Account, NEW r \in RequestId, Ask(u, v, r)
      PROVE  GraphTypeOK'
  <2>1. NewRow(u, v) \in Row BY <1>2 DEF Ask, NewRow, Row, Status
  <2> QED BY <1>2, <2>1 DEF Ask, Open
<1>3. ASSUME NEW r \in RequestId, Accept(r) PROVE GraphTypeOK'
  <2>1. PairOf(r) \in Pairs BY <1>3 DEF Accept, IsPending, PairOf, Pairs, Pair, Row
  <2>2. "accepted" \in Status BY DEF Status
  <2> QED BY <1>1, <1>3, <2>1, <2>2 DEF Accept
<1>4. ASSUME NEW r \in RequestId, NEW s \in Status, Decline(r, s) PROVE GraphTypeOK'
  BY <1>1, <1>4 DEF Decline
<1>5. ASSUME NEW p \in Pairs, Unfriend(p) PROVE GraphTypeOK' BY <1>5 DEF Unfriend
<1>6. ASSUME NEW u \in Account, NEW v \in Account, Block(u, v) PROVE GraphTypeOK'
  <2>1. "cancelled" \in Status BY DEF Status
  <2> QED BY <1>1, <1>6, <2>1 DEF Block
<1>7. ASSUME NEW u \in Account, NEW v \in Account, Unblock(u, v) PROVE GraphTypeOK'
  BY <1>7 DEF Unblock
<1> QED BY <1>2, <1>3, <1>4, <1>5, <1>6, <1>7 DEF GraphNext

\* What closing requests does to each of them: who is closed ends up as s or as
\* withdrawn, all others stay as they are.
LEMMA CloseKeeps ==
  ASSUME GraphTypeOK, NEW R, NEW A, NEW s \in Status \ {"pending"}, requests' = Close(R, A, s),
         NEW r \in DOMAIN requests
  PROVE  /\ DOMAIN requests' = DOMAIN requests
         /\ requests'[r].sender = requests[r].sender
         /\ requests'[r].recipient = requests[r].recipient
         /\ r \notin R => requests'[r] = requests[r]
         /\ r \in R => requests'[r].status = IF r \in A THEN s ELSE "cancelled"
         /\ IsPending(r)' <=> r \notin R /\ IsPending(r)
<1>1. DOMAIN requests' = DOMAIN requests BY DEF Close
<1>2. requests[r] \in Row BY DEF GraphTypeOK
<1>3. CASE r \in R
  <2>1. requests'[r] = [requests[r] EXCEPT !.status = IF r \in A THEN s ELSE "cancelled"]
    BY <1>3 DEF Close
  <2> QED BY <1>1, <1>2, <1>3, <2>1 DEF Row, IsPending, Status
<1>4. CASE r \notin R BY <1>1, <1>4 DEF Close, IsPending
<1> QED BY <1>1, <1>3, <1>4

\* An operation closes requests, opens one, or leaves them alone.
LEMMA GraphHandles ==
  ASSUME GraphTypeOK, GraphNext, NEW r \in DOMAIN requests
  PROVE  /\ r \in DOMAIN requests'
         /\ requests'[r].sender = requests[r].sender
         /\ requests'[r].recipient = requests[r].recipient
         /\ ~IsPending(r) => requests'[r] = requests[r]
         /\ IsPending(r)' => IsPending(r)
<1>1. ASSUME NEW u \in Account, NEW v \in Account, NEW x \in RequestId, Ask(u, v, x)
      PROVE  r \in DOMAIN requests' /\ requests'[r] = requests[r]
  BY <1>1 DEF Ask, Open
<1>2. ASSUME NEW x \in RequestId, Accept(x)
      PROVE  requests' = Close(PendingBetween(PairOf(x)), {x}, "accepted")
  BY <1>2 DEF Accept
<1>3. ASSUME NEW x \in RequestId, NEW s \in Status, Decline(x, s)
      PROVE  IsPending(x) /\ s \in Status \ {"pending"} /\ requests' = Close({x}, {x}, s)
  BY <1>3 DEF Decline
<1>4. ASSUME NEW u \in Account, NEW v \in Account, Block(u, v)
      PROVE  requests' = Close(PendingBetween(Pair(u, v)), {}, "cancelled")
  BY <1>4 DEF Block
<1>5. "accepted" \in Status \ {"pending"} /\ "cancelled" \in Status \ {"pending"} BY DEF Status
<1>6. \A p : r \in PendingBetween(p) => IsPending(r) BY DEF PendingBetween
<1>7. CASE UNCHANGED requests BY <1>7 DEF IsPending
<1>8. CASE \E u, v \in Account, x \in RequestId : Ask(u, v, x) BY <1>1, <1>8 DEF IsPending
<1>9. CASE \E x \in RequestId : Accept(x)
  <2>1. PICK x \in RequestId : Accept(x) BY <1>9
  <2>2. requests' = Close(PendingBetween(PairOf(x)), {x}, "accepted") BY <1>2, <2>1
  <2> QED BY <1>5, <1>6, <2>2, CloseKeeps
<1>10. CASE \E x \in RequestId, s \in Status : Decline(x, s)
  <2>1. PICK x \in RequestId, s \in Status : Decline(x, s) BY <1>10
  <2>2. IsPending(x) /\ s \in Status \ {"pending"} /\ requests' = Close({x}, {x}, s)
    BY <1>3, <2>1
  <2> QED BY <2>2, CloseKeeps
<1>11. CASE \E u, v \in Account : Block(u, v)
  <2>1. PICK u \in Account, v \in Account : Block(u, v) BY <1>11
  <2>2. requests' = Close(PendingBetween(Pair(u, v)), {}, "cancelled") BY <1>4, <2>1
  <2> QED BY <1>5, <1>6, <2>2, CloseKeeps
<1> QED BY <1>7, <1>8, <1>9, <1>10, <1>11 DEF GraphNext, Unfriend, Unblock

\* A request that is open after an operation was open before, between the same
\* two, or has just been asked.
LEMMA OpenBefore ==
  ASSUME GraphTypeOK, GraphNext, NEW r \in DOMAIN requests, IsPending(r)'
  PROVE  IsPending(r) /\ PairOf(r)' = PairOf(r)
BY GraphHandles DEF PairOf, Pair

\* Whole operations never make the tables contradict each other.
LEMMA GraphStaysConsistent ==
  ASSUME GraphTypeOK, TablesConsistent, GraphNext
  PROVE  TablesConsistent'
<1> DEFINE Free(r) == /\ PairOf(r) \notin friendships
                      /\ ~BlockedEitherWay(requests[r].sender, requests[r].recipient)
<1>1. \A r \in DOMAIN requests : IsPending(r) => Free(r)
  BY DEF TablesConsistent, PendingExcludesFriendship, NoPendingAcrossBlock
<1>2. CASE \E u, v \in Account, x \in RequestId : Ask(u, v, x)
  <2>1. PICK u \in Account, v \in Account, x \in RequestId : Ask(u, v, x) BY <1>2
  <2>2. /\ x \notin DOMAIN requests /\ DOMAIN requests' = DOMAIN requests \cup {x}
        /\ requests'[x].sender = u /\ requests'[x].recipient = v
        /\ ~BlockedEitherWay(u, v) /\ Pair(u, v) \notin friendships
        /\ PendingBetween(Pair(u, v)) = {} /\ UNCHANGED <<friendships, blocks>>
    BY <2>1 DEF Ask, Open, NewRow
  <2>3. PairOf(x)' = Pair(u, v) BY <2>2 DEF PairOf, Pair
  <2>4. \A r \in DOMAIN requests : IsPending(r)' => PairOf(r)' # Pair(u, v)
    BY <2>2, OpenBefore DEF PendingBetween
  <2>5. AtMostOnePendingPerPair'
    <3> SUFFICES ASSUME NEW r \in DOMAIN requests', NEW s \in DOMAIN requests',
                        IsPending(r)', IsPending(s)', PairOf(r)' = PairOf(s)'
                 PROVE  r = s
      BY DEF AtMostOnePendingPerPair
    <3>1. CASE r = x \/ s = x BY <2>2, <2>3, <2>4, <3>1
    <3>2. CASE r # x /\ s # x
      BY <2>2, <3>2, OpenBefore DEF TablesConsistent, AtMostOnePendingPerPair
    <3> QED BY <3>1, <3>2
  <2>6. \A r \in DOMAIN requests' : IsPending(r)' => Free(r)'
    <3> SUFFICES ASSUME NEW r \in DOMAIN requests', IsPending(r)' PROVE Free(r)' OBVIOUS
    <3>1. CASE r = x BY <2>2, <2>3, <3>1 DEF BlockedEitherWay
    <3>2. CASE r # x
      <4>1. IsPending(r) /\ PairOf(r)' = PairOf(r) /\ r \in DOMAIN requests
        BY <2>2, <3>2, OpenBefore
      <4> QED BY <1>1, <2>2, <4>1, GraphHandles DEF BlockedEitherWay
    <3> QED BY <3>1, <3>2
  <2> QED BY <2>5, <2>6 DEF TablesConsistent, PendingExcludesFriendship, NoPendingAcrossBlock
<1>3. CASE DOMAIN requests' = DOMAIN requests
  <2>1. AtMostOnePendingPerPair'
    BY <1>3, OpenBefore DEF TablesConsistent, AtMostOnePendingPerPair
  <2>2. ASSUME NEW r \in DOMAIN requests, IsPending(r)' PROVE Free(r)'
    <3>1. /\ IsPending(r) /\ PairOf(r)' = PairOf(r) /\ Free(r)
          /\ requests'[r].sender = requests[r].sender
          /\ requests'[r].recipient = requests[r].recipient
      BY <1>1, <2>2, OpenBefore, GraphHandles
    <3>2. CASE friendships' \subseteq friendships /\ blocks' \subseteq blocks
      BY <3>1, <3>2 DEF BlockedEitherWay
    <3>3. CASE \E x \in RequestId : Accept(x)
      <4>1. PICK x \in RequestId : Accept(x) BY <3>3
      <4>2. /\ requests' = Close(PendingBetween(PairOf(x)), {x}, "accepted")
            /\ friendships' = friendships \cup {PairOf(x)} /\ blocks' = blocks
        BY <4>1 DEF Accept
      <4>3. r \notin PendingBetween(PairOf(x)) BY <2>2, <4>2, CloseKeeps DEF Status
      <4>4. PairOf(r) # PairOf(x) BY <3>1, <4>3 DEF PendingBetween
      <4> QED BY <3>1, <4>2, <4>4 DEF BlockedEitherWay
    <3>4. CASE \E u, v \in Account : Block(u, v)
      <4>1. PICK u \in Account, v \in Account : Block(u, v) BY <3>4
      <4>2. /\ requests' = Close(PendingBetween(Pair(u, v)), {}, "cancelled")
            /\ friendships' = friendships /\ blocks' = blocks \cup {<<u, v>>}
        BY <4>1 DEF Block
      <4>3. r \notin PendingBetween(Pair(u, v)) BY <2>2, <4>2, CloseKeeps DEF Status
      <4>4. PairOf(r) # Pair(u, v) BY <3>1, <4>3 DEF PendingBetween
      <4>5. <<requests[r].sender, requests[r].recipient>> # <<u, v>>
            /\ <<requests[r].recipient, requests[r].sender>> # <<u, v>>
        BY <4>4 DEF PairOf, Pair
      <4> QED BY <3>1, <4>2, <4>5 DEF BlockedEitherWay
    <3>5. \/ friendships' \subseteq friendships /\ blocks' \subseteq blocks
          \/ \E x \in RequestId : Accept(x)
          \/ \E u, v \in Account : Block(u, v)
      BY DEF GraphNext, Ask, Decline, Unfriend, Unblock
    <3> QED BY <3>2, <3>3, <3>4, <3>5
  <2> QED BY <1>3, <2>1, <2>2
          DEF TablesConsistent, PendingExcludesFriendship, NoPendingAcrossBlock
<1>4. \/ \E u, v \in Account, x \in RequestId : Ask(u, v, x)
      \/ DOMAIN requests' = DOMAIN requests
  BY DEF GraphNext, Accept, Decline, Unfriend, Block, Unblock, Close
<1> QED BY <1>2, <1>3, <1>4

\* What whole operations on the relations keep.
GraphInv == GraphTypeOK /\ TablesConsistent

\* The tables stay well formed and consistent.
LEMMA GraphStaysSound == GraphSpec => []GraphInv
<1>1. GraphInit => GraphInv
  BY DEF GraphInit, GraphInv, GraphTypeOK, TablesConsistent, AtMostOnePendingPerPair,
         PendingExcludesFriendship, NoPendingAcrossBlock, IsPending
<1>2. GraphInv /\ [GraphNext]_graph => GraphInv'
  <2> SUFFICES ASSUME GraphInv, GraphNext \/ UNCHANGED graph PROVE GraphInv' OBVIOUS
  <2>1. CASE GraphNext BY <2>1, GraphStaysTyped, GraphStaysConsistent DEF GraphInv
  <2>2. CASE UNCHANGED graph
    BY <2>2 DEF graph, GraphInv, GraphTypeOK, TablesConsistent, AtMostOnePendingPerPair,
       PendingExcludesFriendship, NoPendingAcrossBlock, IsPending, PairOf, Pair, BlockedEitherWay
  <2> QED BY <2>1, <2>2
<1> QED BY <1>1, <1>2, PTL DEF GraphSpec

\* The abstract relations keep what the handlers keep: at most one open request
\* of a pair, none between friends, none across a block.
THEOREM GraphConsistent == GraphSpec => []TablesConsistent
<1>1. GraphInv => TablesConsistent BY DEF GraphInv
<1> QED BY <1>1, GraphStaysSound, PTL

\* In them, too, a handled request stays as it was handled.
THEOREM GraphHandledStays == GraphSpec => HandledIsFinal
<1> DEFINE A == \A r \in DOMAIN requests :
                  /\ r \in DOMAIN requests'
                  /\ requests'[r].sender = requests[r].sender
                  /\ requests'[r].recipient = requests[r].recipient
                  /\ ~IsPending(r) => requests'[r] = requests[r]
<1>1. GraphInv /\ [GraphNext]_graph => [A]_graph
  <2> SUFFICES ASSUME GraphInv, GraphNext PROVE A OBVIOUS
  <2> QED BY GraphHandles DEF GraphInv
<1>2. GraphSpec => [][A]_graph BY <1>1, GraphStaysSound, PTL DEF GraphSpec
<1> QED BY <1>2 DEF HandledIsFinal

\* And there is no friendship without the acceptance of an open request.
THEOREM GraphFriendsAccepted == GraphSpec => FriendshipNeedsAcceptance
<1> DEFINE A == \A p \in friendships' \ friendships :
                  \E r \in DOMAIN requests :
                      /\ IsPending(r) /\ PairOf(r) = p
                      /\ requests'[r].status = "accepted"
                      /\ ~BlockedEitherWay(requests[r].sender, requests[r].recipient)
<1>1. ASSUME GraphInv, NEW x \in RequestId, Accept(x) PROVE A
  <2>1. /\ x \in DOMAIN requests /\ IsPending(x) /\ friendships' = friendships \cup {PairOf(x)}
        /\ requests' = Close(PendingBetween(PairOf(x)), {x}, "accepted")
        /\ ~BlockedEitherWay(requests[x].sender, requests[x].recipient)
    BY <1>1 DEF Accept, IsPending
  <2>2. x \in PendingBetween(PairOf(x)) BY <2>1 DEF PendingBetween
  <2>3. "accepted" \in Status \ {"pending"} BY DEF Status
  <2>4. requests'[x].status = "accepted" BY <1>1, <2>1, <2>2, <2>3, CloseKeeps DEF GraphInv
  <2> QED BY <2>1, <2>4
<1>2. GraphInv /\ [GraphNext]_graph => [A]_graph
  <2> SUFFICES ASSUME GraphInv, GraphNext PROVE A OBVIOUS
  <2>1. (\E x \in RequestId : Accept(x)) \/ friendships' \subseteq friendships
    BY DEF GraphNext, Ask, Decline, Unfriend, Block, Unblock
  <2> QED BY <1>1, <2>1
<1>3. GraphSpec => [][A]_graph BY <1>2, GraphStaysSound, PTL DEF GraphSpec
<1> QED BY <1>3 DEF FriendshipNeedsAcceptance

\* A careful statement leaves the other handlers what they rely on.
LEMMA OthersKeep ==
  ASSUME IndInv, TypeOK', NEW t \in Task, Careful(t), NEW x \in Task \ {t}
  PROVE  TaskInv(x)'
<1>1. /\ pc'[x] = pc[x] /\ call'[x] = call[x] /\ mark'[x] = mark[x]
      /\ began'[x] = began[x] /\ TaskInv(x)
  BY DEF Careful, IndInv
<1>2. began[x] \subseteq DOMAIN messages' BY <1>1 DEF TaskInv, Careful
<1>3. OldOnes(x)' = OldOnes(x)
  BY <1>1, <1>2 DEF OldOnes, Between, Careful, TaskInv
<1>4. ASSUME pc[x] = "commit"
      PROVE  mark[x] \in Ids /\ mark[x] < nextId' /\ mark[x] \notin DOMAIN messages'
  <2>1. mark[x] \in Ids /\ mark[x] < nextId /\ mark[x] \notin DOMAIN messages
    BY <1>1, <1>4 DEF TaskInv
  <2>2. pc[t] = "commit" => mark[t] # mark[x] BY <1>4 DEF IndInv, DrawnOnce
  <2>3. mark[x] < nextId' BY <2>1 DEF Careful, IndInv, TypeOK, Ids
  <2>4. mark[x] \notin DOMAIN messages' BY <2>1, <2>2 DEF Careful
  <2> QED BY <2>1, <2>3, <2>4
<1>5. ASSUME pc[x] = "notify", call[x].op = "clear"
      PROVE  \A i \in OldOnes(x) : i <= cleared'[<<call[x].viewer, call[x].other>>]
  <2> DEFINE k == <<call[x].viewer, call[x].other>>
  <2>1. k \in Account \X Account BY <1>1, <1>5 DEF TaskInv, Call
  <2>2. cleared'[k] >= cleared[k] BY <2>1 DEF Careful
  <2>3. cleared'[k] \in Nat /\ cleared[k] \in Nat
    BY <2>1, MessagesAssumption DEF IndInv, TypeOK
  <2>4. \A i \in OldOnes(x) : i <= cleared[k] BY <1>1, <1>5 DEF TaskInv
  <2>5. \A i \in OldOnes(x) : i \in Nat
    BY MessagesAssumption DEF OldOnes, Between, IndInv, TypeOK, Ids
  <2>6. \A i \in OldOnes(x) : i <= cleared'[k]
    <3> HIDE DEF k
    <3> QED BY <2>2, <2>3, <2>4, <2>5
  <2> QED BY <2>6
<1> QED BY <1>1, <1>2, <1>3, <1>4, <1>5 DEF TaskInv

\* The ids in flight stay distinct: what is drawn is above all of them.
LEMMA DrawnStaysOnce ==
  ASSUME IndInv, NEW t \in Task, Careful(t),
         pc'[t] = "commit" => pc[t] # "commit"
  PROVE  DrawnOnce'
<1>1. ASSUME NEW x \in Task \ {t}, pc'[x] = "commit", pc'[t] = "commit"
      PROVE  mark'[x] # mark'[t]
  <2>1. mark'[x] = mark[x] /\ pc[x] = "commit" /\ mark'[t] = nextId BY <1>1 DEF Careful
  <2>2. mark[x] \in Ids /\ mark[x] < nextId BY <2>1 DEF IndInv, TaskInv
  <2> QED BY <2>1, <2>2 DEF IndInv, TypeOK, Ids
<1>2. ASSUME NEW x \in Task \ {t}, NEW y \in Task \ {t}, pc'[x] = "commit", pc'[y] = "commit",
             mark'[x] = mark'[y]
      PROVE  x = y
  BY <1>2 DEF Careful, IndInv, DrawnOnce
<1> QED BY <1>1, <1>2 DEF DrawnOnce

\* So a careful statement preserves the invariant if it does for its own task.
LEMMA Advances ==
  ASSUME IndInv, TypeOK', NEW t \in Task, Careful(t),
         pc'[t] = "commit" => pc[t] # "commit", TaskInv(t)'
  PROVE  IndInv'
BY OthersKeep, DrawnStaysOnce DEF IndInv

-----------------------------------------------------------------------------
\* The end of a handler, whatever its last statement did to the tables.
LEMMA FinishKeeps ==
  ASSUME IndInv, NEW t \in Task, Finish(t)
  PROVE  /\ pc' \in [Task -> Statement] /\ call' \in [Task -> Call \cup {None}]
         /\ mark' \in [Task -> 0 .. LastId] /\ began' \in [Task -> SUBSET Ids]
         /\ pc'[t] = "idle" /\ TaskInv(t)'
<1>1. /\ pc'[t] = "idle" /\ began'[t] = {}
      /\ pc' \in [Task -> Statement] /\ call' \in [Task -> Call \cup {None}]
      /\ mark' \in [Task -> 0 .. LastId] /\ began' \in [Task -> SUBSET Ids]
  BY MessagesAssumption DEF Finish, IndInv, TypeOK, Statement
<1> QED BY <1>1 DEF TaskInv

LEMMA StartKeeps ==
  ASSUME IndInv, NEW t \in Task, Start(t)
  PROVE  IndInv' /\ Careful(t)
<1>1. PICK c \in Call :
        /\ c.op \in Ops /\ c.viewer # c.other
        /\ call' = [call EXCEPT ![t] = c]
        /\ began' = [began EXCEPT ![t] = IF c.op = "clear" THEN DOMAIN messages ELSE {}]
        /\ pc' = [pc EXCEPT ![t] = CASE c.op = "send" -> "permission"
                                      [] c.op = "clear" -> "max"
                                      [] OTHER -> "mark"]
  BY DEF Start
<1>2. UNCHANGED <<graph, messagePolicy, tables, mark>> /\ pc[t] = "idle" BY DEF Start
<1>3. c.op \in {"send", "clear", "read", "read_all"} BY DEF Call
<1>4. /\ call'[t] = c
      /\ began'[t] = IF c.op = "clear" THEN DOMAIN messages ELSE {}
      /\ pc'[t] = CASE c.op = "send" -> "permission"
                     [] c.op = "clear" -> "max"
                     [] OTHER -> "mark"
  BY <1>1 DEF IndInv, TypeOK
<1>5. /\ c.op = "send" => pc'[t] = "permission"
      /\ c.op = "clear" => pc'[t] = "max"
      /\ c.op \in {"read", "read_all"} => pc'[t] = "mark"
  BY <1>4
<1>6. TypeOK'
  <2>1. pc' \in [Task -> Statement] BY <1>1, <1>3 DEF IndInv, TypeOK, Statement
  <2>2. began' \in [Task -> SUBSET Ids] BY <1>1 DEF IndInv, TypeOK
  <2>3. call' \in [Task -> Call \cup {None}] BY <1>1 DEF IndInv, TypeOK
  <2> QED BY <1>2, <2>1, <2>2, <2>3 DEF IndInv, TypeOK, tables, graph, GraphTypeOK
<1>7. Careful(t)
  BY <1>1, <1>2, <1>3, <1>5 DEF Careful, IndInv, TypeOK, tables, graph, Ids
<1>8. TaskInv(t)'
  <2>1. c.op \in OpAt(pc'[t]) BY <1>3, <1>5 DEF OpAt
  <2>2. began'[t] \subseteq DOMAIN messages' BY <1>2, <1>4 DEF tables
  <2>3. pc'[t] \in {"permission", "max", "mark"} BY <1>3, <1>5
  <2> QED BY <1>1, <1>4, <2>1, <2>2, <2>3 DEF TaskInv
<1> QED BY <1>3, <1>5, <1>6, <1>7, <1>8, Advances

LEMMA CheckPermissionKeeps ==
  ASSUME IndInv, NEW t \in Task, CheckPermission(t)
  PROVE  IndInv' /\ Careful(t)
<1> USE DEF CheckPermission
<1>1. CASE MessagePermission(call[t].viewer, call[t].other) # "allowed"
  <2>1. Finish(t) /\ UNCHANGED <<graph, messagePolicy, tables>> BY <1>1
  <2>2. TypeOK' BY <2>1, FinishKeeps DEF IndInv, TypeOK, tables, graph, GraphTypeOK
  <2>3. Careful(t)
    BY <2>1, FinishKeeps DEF Careful, Finish, IndInv, TypeOK, tables, Ids
  <2> QED BY <2>1, <2>2, <2>3, FinishKeeps, Advances
<1>2. CASE MessagePermission(call[t].viewer, call[t].other) = "allowed"
  <2>1. GoTo(t, "insert") /\ UNCHANGED <<graph, messagePolicy, tables, mark>>
    BY <1>2
  <2>2. TypeOK' BY <2>1 DEF GoTo, IndInv, TypeOK, Statement, tables, graph, GraphTypeOK
  <2>3. pc'[t] = "insert" BY <2>1 DEF GoTo, IndInv, TypeOK
  <2>4. Careful(t) BY <2>1, <2>3 DEF GoTo, Careful, IndInv, TypeOK, tables, Ids
  <2>5. TaskInv(t)' BY <1>2, <2>1, <2>3 DEF GoTo, TaskInv, IndInv, OpAt, tables
  <2> QED BY <2>2, <2>3, <2>4, <2>5, Advances
<1> QED BY <1>1, <1>2

LEMMA InsertKeeps ==
  ASSUME IndInv, NEW t \in Task, Insert(t)
  PROVE  IndInv' /\ Careful(t)
<1> USE DEF Insert
<1>1. /\ pc'[t] = "commit" /\ pc[t] = "insert" /\ mark'[t] = nextId
      /\ nextId \in 1 .. LastId /\ nextId' = nextId + 1
      /\ UNCHANGED <<graph, messagePolicy, messages, cleared, call, began>>
  BY DEF GoTo, IndInv, TypeOK, Ids
<1>2. nextId' \in 1 .. LastId + 1 /\ nextId \in 0 .. LastId /\ nextId < nextId'
  BY <1>1, MessagesAssumption
<1>3. mark' \in [Task -> 0 .. LastId] BY <1>2 DEF IndInv, TypeOK
<1>4. pc' \in [Task -> Statement] BY DEF GoTo, IndInv, TypeOK, Statement
<1>5. \A i \in DOMAIN messages : i < nextId /\ i < nextId'
  BY <1>1, MessagesAssumption DEF IndInv, TypeOK, Ids
<1>6. TypeOK' BY <1>1, <1>2, <1>3, <1>4, <1>5 DEF IndInv, TypeOK, graph, GraphTypeOK
<1>7. Careful(t) BY <1>1, <1>2 DEF GoTo, Careful, IndInv, TypeOK, Ids
<1>8. nextId \notin DOMAIN messages BY <1>1, <1>5
<1>9. TaskInv(t)' BY <1>1, <1>2, <1>8 DEF TaskInv, IndInv, OpAt, Ids
<1> QED BY <1>1, <1>6, <1>7, <1>9, Advances

LEMMA CommitKeeps ==
  ASSUME IndInv, NEW t \in Task, Commit(t)
  PROVE  IndInv' /\ Careful(t)
<1> USE DEF Commit
<1>1. /\ mark[t] \in Ids /\ mark[t] < nextId /\ mark[t] \notin DOMAIN messages
      /\ call[t] \in Call /\ call[t].op = "send" /\ call[t].viewer # call[t].other
      /\ began[t] \subseteq DOMAIN messages
  BY DEF IndInv, TaskInv, OpAt
<1>2. /\ pc'[t] = "notify"
      /\ UNCHANGED <<graph, messagePolicy, nextId, cleared, call, began>>
  BY DEF GoTo, IndInv, TypeOK
<1>3. Sent(t) \in Message /\ Sent(t).sender # Sent(t).recipient
  BY <1>1 DEF Sent, Message, Call
<1>4. DOMAIN messages' = DOMAIN messages \cup {mark[t]} OBVIOUS
<1>5. \A i \in DOMAIN messages : messages'[i] = messages[i] BY <1>1
<1>6. messages'[mark[t]] = Sent(t) OBVIOUS
<1>7. mark' \in [Task -> 0 .. LastId] BY MessagesAssumption DEF IndInv, TypeOK
<1>8. pc' \in [Task -> Statement] BY DEF GoTo, IndInv, TypeOK, Statement
<1>9. TypeOK'
  BY <1>1, <1>2, <1>3, <1>4, <1>5, <1>6, <1>7, <1>8 DEF IndInv, TypeOK, graph, GraphTypeOK
<1>10. Careful(t) BY <1>2, <1>4, <1>5 DEF GoTo, Careful, IndInv, TypeOK, Ids
<1>11. TaskInv(t)' BY <1>1, <1>2, <1>4 DEF TaskInv, OpAt
<1> QED BY <1>2, <1>9, <1>10, <1>11, Advances

LEMMA ReadMaxKeeps ==
  ASSUME IndInv, NEW t \in Task, ReadMax(t)
  PROVE  IndInv' /\ Careful(t)
<1> USE DEF ReadMax
<1> DEFINE G == Greatest(Between(call[t].viewer, call[t].other))
<1>1. Between(call[t].viewer, call[t].other) \in SUBSET Ids BY DEF Between, IndInv, TypeOK
<1>2. G \in 0 .. LastId /\ \A i \in Between(call[t].viewer, call[t].other) : i <= G
  BY <1>1, GreatestBounds
<1>3. /\ pc'[t] = "upsert" /\ mark'[t] = G
      /\ UNCHANGED <<graph, messagePolicy, tables, call, began>>
  BY DEF GoTo, IndInv, TypeOK
<1>4. mark' \in [Task -> 0 .. LastId] BY <1>2 DEF IndInv, TypeOK
<1>5. TypeOK'
  BY <1>3, <1>4 DEF GoTo, IndInv, TypeOK, Statement, tables, graph, GraphTypeOK
<1>6. Careful(t) BY <1>3 DEF GoTo, Careful, IndInv, TypeOK, tables, Ids
<1>7. \A i \in OldOnes(t)' : i <= mark'[t]
  BY <1>2, <1>3 DEF OldOnes, Between, tables
<1>8. TaskInv(t)' BY <1>3, <1>7 DEF TaskInv, IndInv, OpAt, tables
<1> QED BY <1>3, <1>5, <1>6, <1>8, Advances

LEMMA UpsertKeeps ==
  ASSUME IndInv, NEW t \in Task, Upsert(t)
  PROVE  IndInv' /\ Careful(t)
<1> USE DEF Upsert
<1> DEFINE k == <<call[t].viewer, call[t].other>>
<1>1. /\ call[t] \in Call /\ call[t].op = "clear" /\ call[t].viewer # call[t].other
      /\ began[t] \subseteq DOMAIN messages
      /\ \A i \in OldOnes(t) : i <= mark[t]
  BY DEF IndInv, TaskInv, OpAt
<1>2. k \in Account \X Account BY <1>1 DEF Call
<1>3. /\ pc'[t] = "notify" /\ cleared'[k] = Raised(cleared[k], mark[t])
      /\ UNCHANGED <<graph, messagePolicy, messages, nextId, call, began>>
  BY <1>2 DEF GoTo, IndInv, TypeOK, ClearedBy
<1>4. cleared[k] \in 0 .. LastId /\ mark[t] \in 0 .. LastId BY <1>2 DEF IndInv, TypeOK
<1>5. /\ Raised(cleared[k], mark[t]) \in 0 .. LastId
      /\ Raised(cleared[k], mark[t]) >= cleared[k] /\ Raised(cleared[k], mark[t]) >= mark[t]
  <2> HIDE DEF k
  <2> QED BY <1>4, MessagesAssumption DEF Raised
<1>6. cleared' = [cleared EXCEPT ![k] = Raised(cleared[k], mark[t])]
  BY <1>2 DEF ClearedBy, IndInv, TypeOK
<1>7. cleared' \in [Account \X Account -> 0 .. LastId]
  BY <1>2, <1>5, <1>6 DEF IndInv, TypeOK
<1>8. mark' \in [Task -> 0 .. LastId] BY MessagesAssumption DEF IndInv, TypeOK
<1>9. TypeOK'
  BY <1>3, <1>7, <1>8 DEF GoTo, IndInv, TypeOK, Statement, graph, GraphTypeOK
<1>10. \A p \in Account \X Account : cleared'[p] >= cleared[p]
  <2>1. ASSUME NEW p \in Account \X Account PROVE cleared'[p] >= cleared[p]
    <3> HIDE DEF k
    <3>1. cleared[p] \in 0 .. LastId BY DEF IndInv, TypeOK
    <3>2. CASE p = k BY <1>3, <1>5, <3>2
    <3>3. CASE p # k
      <4>1. cleared'[p] = cleared[p] BY <1>6, <3>3 DEF IndInv, TypeOK
      <4> QED BY <3>1, <4>1
    <3> QED BY <3>2, <3>3
  <2> QED BY <2>1
<1>11. Careful(t) BY <1>3, <1>10 DEF GoTo, Careful, IndInv, TypeOK, Ids
<1>12. \A i \in OldOnes(t) : i <= cleared'[k]
  <2>1. \A i \in OldOnes(t) : i \in Nat
    BY MessagesAssumption DEF OldOnes, Between, IndInv, TypeOK, Ids
  <2> HIDE DEF k
  <2> QED BY <1>1, <1>3, <1>4, <1>5, <2>1
<1>13. OldOnes(t)' = OldOnes(t) BY <1>3 DEF OldOnes, Between
<1>14. TaskInv(t)' BY <1>1, <1>3, <1>12, <1>13 DEF TaskInv, OpAt
<1> QED BY <1>3, <1>9, <1>11, <1>14, Advances

LEMMA MarkReadKeeps ==
  ASSUME IndInv, NEW t \in Task, MarkRead(t)
  PROVE  IndInv' /\ Careful(t)
<1> USE DEF MarkRead
<1>1. Finish(t) /\ UNCHANGED <<graph, messagePolicy, nextId, cleared>> OBVIOUS
<1>2. DOMAIN messages' = DOMAIN messages OBVIOUS
<1>3. ASSUME NEW i \in DOMAIN messages
      PROVE  /\ messages'[i] \in Message /\ messages'[i].sender = messages[i].sender
             /\ messages'[i].recipient = messages[i].recipient
  <2>1. messages[i] \in Message BY DEF IndInv, TypeOK
  <2>2. messages'[i] = [messages[i] EXCEPT !.read = TRUE] \/ messages'[i] = messages[i] OBVIOUS
  <2> QED BY <2>1, <2>2 DEF Message
<1>4. TypeOK' BY <1>1, <1>2, <1>3, FinishKeeps DEF IndInv, TypeOK, graph, GraphTypeOK
<1>5. Careful(t)
  BY <1>1, <1>2, <1>3, FinishKeeps DEF Careful, Finish, IndInv, TypeOK, Ids
<1> QED BY <1>1, <1>4, <1>5, FinishKeeps, Advances

LEMMA NotifyKeeps ==
  ASSUME IndInv, NEW t \in Task, Notify(t)
  PROVE  IndInv' /\ Careful(t)
<1>1. Finish(t) /\ UNCHANGED <<graph, messagePolicy, tables>> BY DEF Notify
<1>2. TypeOK' BY <1>1, FinishKeeps DEF IndInv, TypeOK, tables, graph, GraphTypeOK
<1>3. Careful(t)
  BY <1>1, FinishKeeps DEF Careful, Finish, IndInv, TypeOK, tables, Ids
<1> QED BY <1>1, <1>2, <1>3, FinishKeeps, Advances

\* What changes the relations or a policy leaves the handlers where they are.
LEMMA ChangesKeep ==
  ASSUME IndInv, Change \/ ChangePolicy
  PROVE  IndInv'
<1>1. UNCHANGED <<tables, tasks>> BY DEF Change, ChangePolicy
<1>2. GraphTypeOK'
  BY GraphStaysTyped DEF Change, ChangePolicy, IndInv, TypeOK, graph, GraphTypeOK
<1>3. messagePolicy' \in [Account -> Policy]
  BY DEF Change, ChangePolicy, IndInv, TypeOK
<1>4. TypeOK' BY <1>1, <1>2, <1>3 DEF IndInv, TypeOK, tables, tasks
<1>5. ASSUME NEW t \in Task PROVE TaskInv(t)'
  <2>1. OldOnes(t)' = OldOnes(t) BY <1>1 DEF OldOnes, Between, tables, tasks
  <2>2. TaskInv(t) BY DEF IndInv
  <2> QED BY <1>1, <2>1, <2>2 DEF TaskInv, tables, tasks
<1>6. DrawnOnce' BY <1>1 DEF IndInv, DrawnOnce, tasks
<1> QED BY <1>4, <1>5, <1>6 DEF IndInv

\* A step leaves the tables of messages to one careful statement, or alone.
LEMMA NextKeeps ==
  ASSUME IndInv, Next
  PROVE  /\ IndInv'
         /\ \/ \E t \in Task : (Start(t) \/ Work(t)) /\ Careful(t)
            \/ UNCHANGED <<tables, tasks>>
<1>1. ASSUME NEW t \in Task, Start(t) \/ Work(t) PROVE IndInv' /\ Careful(t)
  BY <1>1, StartKeeps, CheckPermissionKeeps, InsertKeeps, CommitKeeps, ReadMaxKeeps,
     UpsertKeeps, MarkReadKeeps, NotifyKeeps DEF Work
<1>2. ASSUME Change \/ ChangePolicy PROVE IndInv' /\ UNCHANGED <<tables, tasks>>
  <2>1. IndInv' BY <1>2, ChangesKeep
  <2> QED BY <1>2, <2>1 DEF Change, ChangePolicy
<1> QED BY <1>1, <1>2 DEF Next

LEMMA InitHolds == Init => IndInv
<1> SUFFICES ASSUME Init PROVE IndInv OBVIOUS
<1> USE DEF Init
<1>1. DOMAIN messages = {} OBVIOUS
<1>2. GraphTypeOK BY DEF GraphInit, GraphTypeOK
<1>3. messagePolicy \in [Account -> Policy] BY DEF Policy
<1>4. nextId \in 1 .. LastId + 1 BY MessagesAssumption
<1>5. TypeOK BY <1>1, <1>2, <1>3, <1>4, MessagesAssumption DEF TypeOK, Statement
<1>6. \A t \in Task : TaskInv(t) BY DEF TaskInv
<1>7. DrawnOnce BY DEF DrawnOnce
<1> QED BY <1>5, <1>6, <1>7 DEF IndInv

LEMMA StutterKeeps == IndInv /\ UNCHANGED vars => IndInv'
<1> SUFFICES ASSUME IndInv, UNCHANGED vars PROVE IndInv' OBVIOUS
<1> USE DEF vars, tables, tasks, graph
<1>1. TypeOK' BY DEF IndInv, TypeOK, GraphTypeOK
<1>2. DrawnOnce' BY DEF IndInv, DrawnOnce
<1>3. ASSUME NEW t \in Task PROVE TaskInv(t)'
  <2>1. OldOnes(t)' = OldOnes(t) BY DEF OldOnes, Between
  <2>2. TaskInv(t) BY DEF IndInv
  <2> QED BY <2>1, <2>2 DEF TaskInv
<1> QED BY <1>1, <1>2, <1>3 DEF IndInv

\* At every moment each handler relies only on what is so.
THEOREM MessagesStaySound == Spec => []IndInv
<1>1. IndInv /\ [Next]_vars => IndInv' BY NextKeeps, StutterKeeps
<1> QED BY InitHolds, <1>1, PTL DEF Spec

\* Rows, marks and handlers stay well formed.
THEOREM WellFormed == Spec => []TypeOK
<1>1. IndInv => TypeOK BY DEF IndInv
<1> QED BY MessagesStaySound, <1>1, PTL

\* What was there when a clear began is hidden when it answers, however many
\* sends, clears and read marks ran beside it.
THEOREM ClearsHide == Spec => []ClearHidesTheOld
<1>1. IndInv => ClearHidesTheOld
  <2> SUFFICES ASSUME IndInv, NEW t \in Task, pc[t] = "notify", call[t].op = "clear",
                      NEW i \in OldOnes(t)
               PROVE  i \notin VisibleTo(call[t].viewer)
    BY DEF ClearHidesTheOld, OldOnes
  <2> DEFINE k == <<call[t].viewer, call[t].other>>
  <2>1. TaskInv(t) BY DEF IndInv
  <2>2. k \in Account \X Account /\ call[t].viewer # call[t].other
    BY <2>1 DEF TaskInv, Call
  <2>3. i <= cleared[k] BY <2>1 DEF TaskInv
  <2>4. i \in Nat /\ cleared[k] \in Nat
    BY <2>2, MessagesAssumption DEF OldOnes, Between, IndInv, TypeOK, Ids
  <2>5. ~(i > cleared[k])
    <3> HIDE DEF k
    <3> QED BY <2>3, <2>4
  <2>6. /\ i \in DOMAIN messages
        /\ {messages[i].sender, messages[i].recipient} = {call[t].viewer, call[t].other}
    BY DEF OldOnes, Between
  <2>7. (IF messages[i].sender = call[t].viewer THEN messages[i].recipient
                                               ELSE messages[i].sender) = call[t].other
    BY <2>2, <2>6
  <2> QED BY <2>5, <2>7 DEF VisibleTo
<1> QED BY MessagesStaySound, <1>1, PTL

\* Only a user's own clear takes messages from his list.
THEOREM OthersKeepTheirs == Spec => OnlyOwnClearHides
<1> DEFINE Clears(u) == \E t \in Task : /\ pc[t] = "upsert" /\ pc'[t] = "notify"
                                      /\ call[t].viewer = u
<1>1. ASSUME IndInv, NEW u \in Account, NEW t \in Task, Start(t) \/ Work(t), Careful(t),
             ~Clears(u)
      PROVE  VisibleTo(u) \subseteq VisibleTo(u)'
  <2>1. ASSUME NEW v \in Account PROVE cleared'[<<u, v>>] = cleared[<<u, v>>]
    <3>1. CASE Upsert(t)
      <4>1. call[t].viewer # u BY <1>1, <3>1 DEF Upsert, GoTo, IndInv, TypeOK
      <4> QED BY <3>1, <4>1 DEF Upsert, ClearedBy, IndInv, TypeOK
    <3>2. CASE ~Upsert(t)
      BY <1>1, <3>2 DEF Start, Work, CheckPermission, Insert, Commit, ReadMax, MarkRead,
                        Notify, tables
    <3> QED BY <3>1, <3>2
  <2>2. ASSUME NEW i \in VisibleTo(u) PROVE i \in VisibleTo(u)'
    <3> DEFINE other == IF messages[i].sender = u THEN messages[i].recipient
                                                  ELSE messages[i].sender
    <3>1. i \in DOMAIN messages /\ u \in {messages[i].sender, messages[i].recipient}
          /\ i > cleared[<<u, other>>]
      BY DEF VisibleTo
    <3>2. i \in DOMAIN messages' /\ messages'[i].sender = messages[i].sender
          /\ messages'[i].recipient = messages[i].recipient
      BY <1>1, <3>1 DEF Careful
    <3>3. other \in Account BY <1>1, <3>1 DEF IndInv, TypeOK, Message
    <3>4. i > cleared'[<<u, other>>]
      <4> HIDE DEF other
      <4> QED BY <2>1, <3>1, <3>3
    <3> QED BY <3>1, <3>2, <3>4 DEF VisibleTo
  <2> QED BY <2>2
<1>2. ASSUME NEW u \in Account, UNCHANGED tables
      PROVE  VisibleTo(u) \subseteq VisibleTo(u)'
  BY <1>2 DEF tables, VisibleTo
<1>3. IndInv /\ [Next]_vars =>
        [\A u \in Account :
            ~(VisibleTo(u) \subseteq VisibleTo(u)')
                => \E t \in Task : /\ pc[t] = "upsert" /\ pc'[t] = "notify"
                                   /\ call[t].viewer = u]_vars
  BY <1>1, <1>2, NextKeeps DEF vars, tables
<1> QED BY MessagesStaySound, <1>3, PTL DEF Spec, OnlyOwnClearHides

\* Handlers of messages take no part in the relations: beside them they are
\* those of SocialGraph, and as consistent.
THEOREM GraphBesideMessages == Spec => GraphSpec
<1>1. Init => GraphInit BY DEF Init
<1>2. [Next]_vars => [GraphNext]_graph
  BY DEF Next, vars, Start, Work, CheckPermission, Insert, Commit, ReadMax, Upsert, MarkRead,
         Notify, Change, ChangePolicy
<1> QED BY <1>1, <1>2, PTL DEF Spec, GraphSpec
=============================================================================
