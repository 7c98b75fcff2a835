---------------------------- MODULE RelationView ----------------------------
(***************************************************************************)
(* What a client is shown of a relation while others change it.            *)
(* RelationshipContext::load (src/src/social/mod.rs) asks four queries one *)
(* after the other, without a transaction, and between any two of them a   *)
(* whole operation of SocialGraph may commit.                              *)
(***************************************************************************)
EXTENDS SocialGraph, SocialPermissions

CONSTANTS Viewer, Target,   \* who looks at whom
          Choosers          \* users who change their policy: a bound

ASSUME ViewAssumption ==
    /\ Viewer \in Account /\ Target \in Account /\ Viewer # Target
    /\ Choosers \subseteq Account

VARIABLES step,         \* the query the reader asks next
          found,        \* its RelationshipContext, for the one target
          relations,    \* relationships there have been since it started
          barred        \* there has been a block at every moment since

reader == <<step, found, relations, barred>>
vars == <<graph, messagePolicy, reader>>

RelationshipNow ==
    CASE <<Viewer, Target>> \in blocks -> "blocked"
      [] <<Viewer, Target>> \notin blocks /\ AreFriends(Viewer, Target) -> "friends"
      [] OTHER -> IF Asked(Viewer, Target) # {} THEN "outgoing_pending"
                  ELSE IF Asked(Target, Viewer) # {} THEN "incoming_pending" ELSE "none"

Steps == {"idle", "friends", "blocks", "requests", "policies", "answer"}
Found == [friend : BOOLEAN, blockedByMe : BOOLEAN, blockingMe : BOOLEAN,
          outgoing : SUBSET RequestId, incoming : SUBSET RequestId, policy : Policy]

TypeOK ==
    /\ GraphTypeOK
    /\ messagePolicy \in [Account -> Policy]
    /\ step \in Steps
    /\ found \in Found
    /\ relations \subseteq {"none", "outgoing_pending", "incoming_pending", "friends", "blocked"}
    /\ barred \in BOOLEAN

Init ==
    /\ GraphInit
    /\ messagePolicy = [u \in Account |-> "everyone"]
    /\ step = "idle" /\ found = NothingFound
    /\ relations = {} /\ barred = TRUE

-----------------------------------------------------------------------------
\* Bookkeeping of the properties: what has been true since the read began.
Witness ==
    /\ relations' = IF step' = "idle" THEN {} ELSE relations \cup {RelationshipNow'}
    /\ barred' = (step' = "idle" \/ (barred /\ BlockedEitherWay(Viewer, Target)'))

Query(here, there, result) ==
    /\ step = here /\ step' = there
    /\ found' = result
    /\ UNCHANGED <<graph, messagePolicy>>
    /\ Witness

Look == Query("idle", "friends", NothingFound)
ReadFriends == Query("friends", "blocks", WithFriends(found, Viewer, Target))
ReadBlocks == Query("blocks", "requests", WithBlocks(found, Viewer, Target))
ReadRequests == Query("requests", "policies", WithRequests(found, Viewer, Target))
ReadPolicies == Query("policies", "answer", WithPolicy(found, Target))
Answer == Query("answer", "idle", NothingFound)

\* Somebody's operation commits, or somebody changes his preferences.
Change ==
    /\ GraphNext
    /\ UNCHANGED <<messagePolicy, step, found>>
    /\ Witness
ChangePolicy ==
    /\ \E u \in Choosers, p \in Policy : messagePolicy' = [messagePolicy EXCEPT ![u] = p]
    /\ UNCHANGED <<graph, step, found>>
    /\ Witness

Read == ReadFriends \/ ReadBlocks \/ ReadRequests \/ ReadPolicies
Next == Look \/ Read \/ Answer \/ Change \/ ChangePolicy

Spec == Init /\ [][Next]_vars

-----------------------------------------------------------------------------
(* Properties *)

\* canMessage is the final permission (SOCIAL-API-V2.md:72): the context, the
\* list of friends and the send endpoint agree, and so do the relationships of
\* the context and of the list, whatever the tables hold.
AnswersAgree ==
    \A u, v \in Account : u # v =>
        LET together == FoundAtOnce(u, v)
            allowed == MessagePermission(u, v) = "allowed"
        IN  /\ CanMessage(together) = allowed
            /\ AreFriends(u, v) => /\ ListedCanMessage(u, v) = allowed
                                   /\ ListedRelationship(u, v) = Relationship(together)

\* A relationship that does not change while it is read is shown as it is,
\* although the pieces it is made of are read at four different moments.
StableRelationshipShown ==
    step = "answer" /\ relations = {RelationshipNow} => Relationship(found) = RelationshipNow

\* While there is a block, whoever made it and even if one replaces another,
\* nobody is told that he may write (SOCIAL-API-V2.md:114).
BlockAlwaysShows ==
    step = "answer" /\ barred => ~CanMessage(found)
=============================================================================
