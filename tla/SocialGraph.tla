---------------------------- MODULE SocialGraph ----------------------------
(***************************************************************************)
(* What the social subsystem promises, free of transactions and locks: the *)
(* relations change one whole operation at a time.  SocialRelations shows  *)
(* that the concurrent handlers implement it, and modules about what other *)
(* code reads of the relations build on it.                                *)
(***************************************************************************)
EXTENDS SocialTables

GraphInit == friendships = {} /\ blocks = {} /\ requests = << >>

Ask(u, v, r) ==
    /\ u # v /\ r \notin DOMAIN requests
    /\ ~BlockedEitherWay(u, v)
    /\ Pair(u, v) \notin friendships
    /\ PendingBetween(Pair(u, v)) = {}
    /\ requests' = Open(r, NewRow(u, v))
    /\ UNCHANGED <<friendships, blocks>>

Accept(r) ==
    /\ IsPending(r)
    /\ ~BlockedEitherWay(requests[r].sender, requests[r].recipient)
    /\ friendships' = friendships \cup {PairOf(r)}
    /\ requests' = Close(PendingBetween(PairOf(r)), {r}, "accepted")
    /\ UNCHANGED blocks

Decline(r, s) ==
    /\ IsPending(r) /\ s \in {"rejected", "cancelled"}
    /\ requests' = Close({r}, {r}, s)
    /\ UNCHANGED <<friendships, blocks>>

Unfriend(p) ==
    /\ friendships' = friendships \ {p}
    /\ UNCHANGED <<blocks, requests>>

Block(u, v) ==
    /\ u # v
    /\ blocks' = blocks \cup {<<u, v>>}
    /\ requests' = Close(PendingBetween(Pair(u, v)), {}, "cancelled")
    /\ UNCHANGED friendships

Unblock(u, v) ==
    /\ blocks' = blocks \ {<<u, v>>}
    /\ UNCHANGED <<friendships, requests>>

GraphNext ==
    \/ \E u, v \in Account, r \in RequestId : Ask(u, v, r)
    \/ \E r \in RequestId : Accept(r)
    \/ \E r \in RequestId, s \in Status : Decline(r, s)
    \/ \E p \in Pairs : Unfriend(p)
    \/ \E u, v \in Account : Block(u, v) \/ Unblock(u, v)

GraphSpec == GraphInit /\ [][GraphNext]_graph
=============================================================================
