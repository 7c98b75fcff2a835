------------------------- MODULE SocialPermissions -------------------------
(***************************************************************************)
(* Who may write to whom, as the three places of the code that answer it   *)
(* compute it: message_permission for the send endpoint, the query of      *)
(* list_friends, and RelationshipContext for every other answer.           *)
(***************************************************************************)
EXTENDS SocialTables

VARIABLES messagePolicy     \* user -> message_policy, 'everyone' by default

Policy == {"everyone", "friends", "nobody"}
Permission == {"allowed", "blocked", "restricted"}

AreFriends(u, v) == Pair(u, v) \in friendships

\* message_permission: one statement reads blocks, policy and friendship.
MessagePermission(sender, recipient) ==
    IF sender = recipient THEN "restricted"
    ELSE IF BlockedEitherWay(sender, recipient) THEN "blocked"
    ELSE IF \/ messagePolicy[recipient] = "nobody"
            \/ messagePolicy[recipient] = "friends" /\ ~AreFriends(sender, recipient)
         THEN "restricted" ELSE "allowed"

\* list_friends: only friends are listed, so their policy only matters when it
\* is 'nobody'.
ListedCanMessage(viewer, friend) ==
    ~BlockedEitherWay(viewer, friend) /\ messagePolicy[friend] # "nobody"

ListedRelationship(viewer, friend) ==
    IF <<viewer, friend>> \in blocks THEN "blocked" ELSE "friends"

-----------------------------------------------------------------------------
(* RelationshipContext: what the viewer's four queries found about a target *)

NothingFound == [friend |-> FALSE, blockedByMe |-> FALSE, blockingMe |-> FALSE,
                 outgoing |-> {}, incoming |-> {}, policy |-> "everyone"]

\* Altered: the block is looked at after the friendship.
FriendsFirst(found) ==
    IF found.friend THEN "friends"
    ELSE IF found.blockedByMe THEN "blocked"
    ELSE IF found.outgoing # {} THEN "outgoing_pending"
    ELSE IF found.incoming # {} THEN "incoming_pending"
    ELSE "none"
Relationship(found) ==
    IF found.blockedByMe THEN "blocked"
    ELSE IF found.friend THEN "friends"
    ELSE IF found.outgoing # {} THEN "outgoing_pending"
    ELSE IF found.incoming # {} THEN "incoming_pending"
    ELSE "none"

\* Altered: only the viewer's own block counts.
CanMessageUnlessIBlock(found) ==
    /\ ~found.blockedByMe
    /\ found.policy = "everyone" \/ (found.policy = "friends" /\ found.friend)
CanMessage(found) ==
    /\ ~found.blockedByMe /\ ~found.blockingMe
    /\ found.policy = "everyone" \/ (found.policy = "friends" /\ found.friend)

\* What the four queries find when nothing changes between them.
WithFriends(found, u, v) == [found EXCEPT !.friend = AreFriends(u, v)]
WithBlocks(found, u, v) == [found EXCEPT !.blockedByMe = <<u, v>> \in blocks,
                                         !.blockingMe = <<v, u>> \in blocks]

Asked(u, v) == {r \in DOMAIN requests : /\ IsPending(r)
                                        /\ requests[r].sender = u /\ requests[r].recipient = v}
WithRequests(found, u, v) == [found EXCEPT !.outgoing = Asked(u, v), !.incoming = Asked(v, u)]
WithPolicy(found, v) == [found EXCEPT !.policy = messagePolicy[v]]
FoundAtOnce(u, v) ==
    WithPolicy(WithRequests(WithBlocks(WithFriends(NothingFound, u, v), u, v), u, v), v)
=============================================================================
