------------------------- MODULE RelationViewProofs -------------------------
(***************************************************************************)
(* What four queries without a transaction still show truly, proved for    *)
(* any users and requests, whatever commits between the queries.           *)
(***************************************************************************)
EXTENDS RelationView, TLAPS

\* Queries that have been answered when the reader is at a step.
FriendsRead == {"blocks", "requests", "policies", "answer"}
BlocksRead == {"requests", "policies", "answer"}
RequestsRead == {"policies", "answer"}

\* If the relationship has been R throughout, each query found what R implies.
FriendsFit(R) ==
    /\ R = "friends" => found.friend
    /\ R \notin {"friends", "blocked"} => ~found.friend
BlocksFit(R) == found.blockedByMe <=> R = "blocked"
RequestsFit(R) ==
    /\ R = "outgoing_pending" => found.outgoing # {}
    /\ R = "incoming_pending" => found.outgoing = {} /\ found.incoming # {}
    /\ R = "none" => found.outgoing = {} /\ found.incoming = {}
Fits(R) ==
    /\ step \in FriendsRead => FriendsFit(R)
    /\ step \in BlocksRead => BlocksFit(R)
    /\ step \in RequestsRead => RequestsFit(R)

Relationships == {"none", "outgoing_pending", "incoming_pending", "friends", "blocked"}

\* What there has been since the read began includes what there is now, and a
\* block that has stood since then is one that the second query has found.
IndInv ==
    /\ messagePolicy \in [Account -> Policy]
    /\ step \in Steps
    /\ DOMAIN found = DOMAIN NothingFound
    /\ step # "idle" => RelationshipNow \in relations
    /\ \A R \in Relationships : step # "idle" /\ relations = {R} => Fits(R)
    /\ step # "idle" /\ barred => BlockedEitherWay(Viewer, Target)
    /\ step \in BlocksRead /\ barred => found.blockedByMe \/ found.blockingMe

LEMMA NowIsOne == RelationshipNow \in Relationships
BY DEF RelationshipNow, Relationships

\* If there has been one relationship only, it was so before the step, too.
LEMMA OnlyOne ==
  ASSUME IndInv, Witness, step # "idle", step' # "idle", NEW R \in Relationships,
         relations' = {R}
  PROVE  relations = {R} /\ RelationshipNow = R /\ Fits(R)
<1>1. RelationshipNow \in relations /\ relations \subseteq relations' BY DEF IndInv, Witness
<1>2. relations = {R} /\ RelationshipNow = R BY <1>1
<1> QED BY <1>2 DEF IndInv

\* A query finds what the relationship of its moment implies.
LEMMA QueryKeeps ==
  ASSUME IndInv, Look \/ Read \/ Answer
  PROVE  IndInv'
<1>1. UNCHANGED <<graph, messagePolicy>> /\ Witness BY DEF Look, Read, Answer, Query, ReadFriends,
        ReadBlocks, ReadRequests, ReadPolicies
<1>2. RelationshipNow' = RelationshipNow
  BY <1>1 DEF graph, RelationshipNow, AreFriends, Asked, IsPending, Pair
<1>3. BlockedEitherWay(Viewer, Target)' <=> BlockedEitherWay(Viewer, Target)
  BY <1>1 DEF graph, BlockedEitherWay
<1>4. messagePolicy' \in [Account -> Policy] BY <1>1 DEF IndInv
<1>5. step' # "idle" => RelationshipNow' \in relations' BY <1>1 DEF Witness
<1>6. step' # "idle" /\ barred' => BlockedEitherWay(Viewer, Target)' BY <1>1 DEF Witness
<1>7. step # "idle" /\ step' # "idle" /\ barred' => barred BY <1>1 DEF Witness
<1>8. CASE Look \/ Answer
  BY <1>4, <1>5, <1>6, <1>8 DEF Look, Answer, Query, IndInv, Fits, FriendsRead, BlocksRead,
     RequestsRead, Steps
<1>9. CASE Read
  <2>1. step # "idle" /\ step' # "idle" /\ step' \in Steps
    BY <1>9 DEF Read, ReadFriends, ReadBlocks, ReadRequests, ReadPolicies, Query, Steps
  <2>2. DOMAIN found' = DOMAIN found
    BY <1>9 DEF Read, ReadFriends, ReadBlocks, ReadRequests, ReadPolicies, Query,
       WithFriends, WithBlocks, WithRequests, WithPolicy
  <2>3. ASSUME NEW R \in Relationships, relations' = {R} PROVE Fits(R)'
    <3>1. RelationshipNow = R /\ Fits(R) BY <1>1, <2>1, <2>3, OnlyOne
    <3>2. CASE ReadFriends
      <4>1. found'.friend = AreFriends(Viewer, Target) /\ step' = "blocks"
        BY <3>2 DEF ReadFriends, Query, WithFriends, IndInv, NothingFound
      <4> QED BY <3>1, <4>1 DEF Fits, FriendsFit, FriendsRead, BlocksRead, RequestsRead,
                  RelationshipNow
    <3>3. CASE ReadBlocks
      <4>1. /\ found'.blockedByMe = (<<Viewer, Target>> \in blocks) /\ found'.friend = found.friend
            /\ step = "blocks" /\ step' = "requests"
        BY <3>3 DEF ReadBlocks, Query, WithBlocks, IndInv, NothingFound
      <4> QED BY <3>1, <4>1 DEF Fits, FriendsFit, BlocksFit, FriendsRead, BlocksRead, RequestsRead,
                  RelationshipNow
    <3>4. CASE ReadRequests
      <4>1. /\ found'.outgoing = Asked(Viewer, Target) /\ found'.incoming = Asked(Target, Viewer)
            /\ found'.friend = found.friend /\ found'.blockedByMe = found.blockedByMe
            /\ step = "requests" /\ step' = "policies"
        BY <3>4 DEF ReadRequests, Query, WithRequests, IndInv, NothingFound
      <4> QED BY <3>1, <4>1 DEF Fits, FriendsFit, BlocksFit, RequestsFit, FriendsRead, BlocksRead,
                  RequestsRead, RelationshipNow
    <3>5. CASE ReadPolicies
      <4>1. /\ found'.outgoing = found.outgoing /\ found'.incoming = found.incoming
            /\ found'.friend = found.friend /\ found'.blockedByMe = found.blockedByMe
            /\ step = "policies" /\ step' = "answer"
        BY <3>5 DEF ReadPolicies, Query, WithPolicy, IndInv, NothingFound
      <4> QED BY <3>1, <4>1 DEF Fits, FriendsFit, BlocksFit, RequestsFit, FriendsRead, BlocksRead,
                  RequestsRead
    <3> QED BY <1>9, <3>2, <3>3, <3>4, <3>5 DEF Read
  <2>4. ASSUME step' \in BlocksRead, barred' PROVE found'.blockedByMe \/ found'.blockingMe
    <3>1. barred /\ BlockedEitherWay(Viewer, Target) BY <1>3, <1>6, <1>7, <2>1, <2>4
    <3>2. CASE ReadFriends BY <2>4, <3>2 DEF ReadFriends, Query, BlocksRead
    <3>3. CASE ReadBlocks
      <4>1. /\ found'.blockedByMe = (<<Viewer, Target>> \in blocks)
            /\ found'.blockingMe = (<<Target, Viewer>> \in blocks)
        BY <3>3 DEF ReadBlocks, Query, WithBlocks, IndInv, NothingFound
      <4> QED BY <3>1, <4>1 DEF BlockedEitherWay
    <3>4. CASE ReadRequests \/ ReadPolicies
      <4>1. /\ found'.blockedByMe = found.blockedByMe /\ found'.blockingMe = found.blockingMe
            /\ step \in BlocksRead
        BY <3>4 DEF ReadRequests, ReadPolicies, Query, WithRequests, WithPolicy, IndInv,
           NothingFound, BlocksRead
      <4> QED BY <3>1, <4>1 DEF IndInv
    <3> QED BY <1>9, <3>2, <3>3, <3>4 DEF Read
  <2> QED BY <1>4, <1>5, <1>6, <2>1, <2>2, <2>3, <2>4 DEF IndInv, NothingFound
<1> QED BY <1>8, <1>9

\* Whatever commits between two queries, what was found fits a relationship
\* that has stood throughout, or there has been more than one.
LEMMA ChangeKeeps ==
  ASSUME IndInv, Change \/ ChangePolicy
  PROVE  IndInv'
<1>1. UNCHANGED <<step, found>> /\ Witness BY DEF Change, ChangePolicy
<1>2. messagePolicy' \in [Account -> Policy] BY DEF Change, ChangePolicy, IndInv
<1>3. step' # "idle" => RelationshipNow' \in relations' BY <1>1 DEF Witness
<1>4. step' # "idle" /\ barred' => barred /\ BlockedEitherWay(Viewer, Target)'
  BY <1>1 DEF Witness
<1>5. ASSUME NEW R \in Relationships, step' # "idle", relations' = {R} PROVE Fits(R)'
  <2>1. Fits(R) BY <1>1, <1>5, OnlyOne
  <2> QED BY <1>1, <2>1 DEF Fits, FriendsFit, BlocksFit, RequestsFit
<1> QED BY <1>1, <1>2, <1>3, <1>4, <1>5 DEF IndInv, BlocksRead, NothingFound

LEMMA InitHolds == Init => IndInv
BY DEF Init, IndInv, Policy, Steps, BlocksRead, NothingFound

\* The reader's findings fit every moment since it began.
THEOREM FindingsFit == Spec => []IndInv
<1>1. IndInv /\ [Next]_vars => IndInv'
  <2> SUFFICES ASSUME IndInv, [Next]_vars PROVE IndInv' OBVIOUS
  <2>1. CASE UNCHANGED vars
    <3>1. RelationshipNow' = RelationshipNow
      BY <2>1 DEF vars, graph, RelationshipNow, AreFriends, Asked, IsPending, Pair
    <3>2. \A R : Fits(R)' <=> Fits(R)
      BY <2>1 DEF vars, reader, Fits, FriendsFit, BlocksFit, RequestsFit
    <3> QED BY <2>1, <3>1, <3>2 DEF IndInv, vars, reader, graph, BlockedEitherWay, NothingFound
  <2> QED BY <2>1, QueryKeeps, ChangeKeeps DEF Next
<1> QED BY InitHolds, <1>1, PTL DEF Spec

\* The three places that compute a permission agree, whatever the tables hold.
THEOREM PermissionsAgree == Spec => []AnswersAgree
<1>1. IndInv => AnswersAgree
  <2> SUFFICES ASSUME IndInv, NEW u \in Account, NEW v \in Account, u # v
               PROVE  LET together == FoundAtOnce(u, v)
                          allowed == MessagePermission(u, v) = "allowed"
                      IN  /\ CanMessage(together) = allowed
                          /\ AreFriends(u, v) =>
                                /\ ListedCanMessage(u, v) = allowed
                                /\ ListedRelationship(u, v) = Relationship(together)
    BY DEF AnswersAgree
  <2> DEFINE together == FoundAtOnce(u, v)
  <2>1. /\ together.friend = AreFriends(u, v)
        /\ together.blockedByMe = (<<u, v>> \in blocks)
        /\ together.blockingMe = (<<v, u>> \in blocks)
        /\ together.policy = messagePolicy[v]
    BY DEF FoundAtOnce, WithPolicy, WithRequests, WithBlocks, WithFriends, NothingFound
  <2>2. messagePolicy[v] \in {"everyone", "friends", "nobody"} BY DEF IndInv, Policy
  <2> HIDE DEF together
  <2>3. CanMessage(together) = (MessagePermission(u, v) = "allowed")
    BY <2>1, <2>2 DEF CanMessage, MessagePermission, BlockedEitherWay
  <2>4. AreFriends(u, v) => ListedCanMessage(u, v) = (MessagePermission(u, v) = "allowed")
    BY <2>2 DEF ListedCanMessage, MessagePermission, BlockedEitherWay
  <2>5. AreFriends(u, v) => ListedRelationship(u, v) = Relationship(together)
    BY <2>1 DEF ListedRelationship, Relationship
  <2> QED BY <2>3, <2>4, <2>5 DEF together
<1> QED BY FindingsFit, <1>1, PTL

\* What stays as it is while it is read is shown as it is.
THEOREM StableIsShown == Spec => []StableRelationshipShown
<1>1. IndInv => StableRelationshipShown
  <2> SUFFICES ASSUME IndInv, step = "answer", relations = {RelationshipNow}
               PROVE  Relationship(found) = RelationshipNow
    BY DEF StableRelationshipShown
  <2>1. PICK R \in Relationships : R = RelationshipNow BY NowIsOne
  <2>2. FriendsFit(R) /\ BlocksFit(R) /\ RequestsFit(R)
    BY <2>1 DEF IndInv, Fits, FriendsRead, BlocksRead, RequestsRead
  <2> QED BY <2>1, <2>2 DEF Relationships, Relationship, FriendsFit, BlocksFit, RequestsFit
<1> QED BY FindingsFit, <1>1, PTL

\* Through a block, or a chain of blocks without a gap, nobody may write.
THEOREM BlocksShow == Spec => []BlockAlwaysShows
<1>1. IndInv => BlockAlwaysShows BY DEF IndInv, BlockAlwaysShows, BlocksRead, CanMessage
<1> QED BY FindingsFit, <1>1, PTL

\* The reader takes no part in what he reads: beside him the relations are
\* those of SocialGraph, which the handlers implement.
THEOREM GraphBesideReader == Spec => GraphSpec
<1>1. Init => GraphInit BY DEF Init
<1>2. [Next]_vars => [GraphNext]_graph
  BY DEF Next, vars, Look, Read, ReadFriends, ReadBlocks, ReadRequests, ReadPolicies, Answer,
         Query, Change, ChangePolicy
<1> QED BY <1>1, <1>2, PTL DEF Spec, GraphSpec
=============================================================================
