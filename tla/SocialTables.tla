---------------------------- MODULE SocialTables ---------------------------
(***************************************************************************)
(* The committed rows of the three tables that hold the social relations   *)
(* (migrations/202610250001_social_v2.sql), the queries the handlers of    *)
(* src/src/social ask of them, and what must be true of them whichever     *)
(* handlers run.                                                           *)
(***************************************************************************)
CONSTANTS Account,      \* ids of registered users
          RequestId     \* ids the request sequence can hand out

VARIABLES friendships,  \* unordered pairs: rows of social_friendships
          blocks,       \* <<who, whom>>: rows of social_blocks
          requests      \* id -> row of social_friend_requests

graph == <<friendships, blocks, requests>>

Pair(u, v) == {u, v}
Pairs == {p \in SUBSET Account : \E u, v \in Account : u # v /\ p = Pair(u, v)}
Status == {"pending", "accepted", "rejected", "cancelled"}
Row == {q \in [sender : Account, recipient : Account, status : Status] :
            q.sender # q.recipient}

GraphTypeOK ==
    /\ friendships \subseteq Pairs
    /\ blocks \subseteq {b \in Account \X Account : b[1] # b[2]}
    /\ DOMAIN requests \subseteq RequestId
    /\ requests \in [DOMAIN requests -> Row]

-----------------------------------------------------------------------------
IsPending(r) == r \in DOMAIN requests /\ requests[r].status = "pending"
PairOf(r) == Pair(requests[r].sender, requests[r].recipient)
PendingBetween(p) == {r \in DOMAIN requests : IsPending(r) /\ PairOf(r) = p}
BlockedEitherWay(u, v) == <<u, v>> \in blocks \/ <<v, u>> \in blocks

\* The ledger once the requests of R are closed: those of acted with the status
\* s the handler gives its own request, the others as withdrawn.
Close(R, acted, s) ==
    [x \in DOMAIN requests |->
        IF x \in R
        THEN [requests[x] EXCEPT !.status = IF x \in acted THEN s ELSE "cancelled"]
        ELSE requests[x]]

NewRow(u, v) == [sender |-> u, recipient |-> v, status |-> "pending"]

\* The ledger with the new row q under the unused id r.
Open(r, q) ==
    [x \in DOMAIN requests \cup {r} |-> IF x = r THEN q ELSE requests[x]]

-----------------------------------------------------------------------------
\* A pair of users never has two open requests, in either direction
\* (create_request refuses a second one, accept and block close them all).
AtMostOnePendingPerPair ==
    \A r, s \in DOMAIN requests :
        IsPending(r) /\ IsPending(s) /\ PairOf(r) = PairOf(s) => r = s

\* An open request and a friendship of the same pair never coexist: accepting
\* one closes every other open request of the pair in the same commit.
PendingExcludesFriendship ==
    \A r \in DOMAIN requests : IsPending(r) => PairOf(r) \notin friendships

\* "Pending requests can never survive a block" (block_user), whichever of the
\* two blocked the other.
NoPendingAcrossBlock ==
    \A r \in DOMAIN requests :
        IsPending(r) => ~BlockedEitherWay(requests[r].sender, requests[r].recipient)

\* The three together: the tables never contradict each other about a pair.
TablesConsistent ==
    /\ AtMostOnePendingPerPair
    /\ PendingExcludesFriendship
    /\ NoPendingAcrossBlock

\* A friendship appears only in a step that accepts an open request of that
\* pair while neither user blocks the other.
FriendshipNeedsAcceptance ==
    [][\A p \in friendships' \ friendships :
          \E r \in DOMAIN requests :
              /\ IsPending(r) /\ PairOf(r) = p
              /\ requests'[r].status = "accepted"
              /\ ~BlockedEitherWay(requests[r].sender, requests[r].recipient)]_graph

\* A handled request stays as it was handled, and no request disappears or
\* changes its two users: the lookup before the pair lock relies on it.
HandledIsFinal ==
    [][\A r \in DOMAIN requests :
          /\ r \in DOMAIN requests'
          /\ requests'[r].sender = requests[r].sender
          /\ requests'[r].recipient = requests[r].recipient
          /\ ~IsPending(r) => requests'[r] = requests[r]]_graph
=============================================================================
