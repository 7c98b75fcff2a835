--------------------------- MODULE DirectMessages ---------------------------
(***************************************************************************)
(* Direct messages: send_message, the two read marks of src/src/forum.rs   *)
(* and clear_history of src/src/social/messages.rs, each one SQL statement *)
(* at a time against the relations of SocialGraph.  A message gets its id  *)
(* when its INSERT starts and can be seen when it commits.                 *)
(***************************************************************************)
EXTENDS SocialGraph, SocialPermissions, Naturals

CONSTANTS Task,         \* handler invocations that may be in flight
          Ops,          \* operations clients ask for: a bound
          LastId,       \* the id sequence ends here: a bound
          Choosers,     \* users who change their policy: a bound
          None

ASSUME MessagesAssumption ==
    LastId \in Nat /\ Choosers \subseteq Account /\ None \notin Account

VARIABLES messages,     \* id -> committed row of forum_messages
          nextId,       \* the sequence of forum_messages.id
          cleared,      \* <<user, partner>> -> cleared_through_id
          pc,           \* task -> the next statement of its handler
          call,         \* task -> the request it serves
          mark,         \* task -> the id it drew, or the greatest id it read
          began         \* task -> ids that were committed when it started

tables == <<messages, nextId, cleared>>
tasks == <<pc, call, mark, began>>
vars == <<graph, messagePolicy, tables, tasks>>

Ids == 1 .. LastId
Message == [sender : Account, recipient : Account, read : BOOLEAN]
Call == [op : {"send", "clear", "read", "read_all"}, viewer : Account, other : Account,
         id : 0 .. LastId]
Statement == {"idle", "permission", "insert", "commit", "max", "upsert", "mark", "notify"}

Between(u, v) ==
    {i \in DOMAIN messages : {messages[i].sender, messages[i].recipient} = {u, v}}

TypeOK ==
    /\ GraphTypeOK
    /\ messagePolicy \in [Account -> Policy]
    /\ DOMAIN messages \subseteq Ids
    /\ \A i \in DOMAIN messages :
          messages[i] \in Message /\ messages[i].sender # messages[i].recipient /\ i < nextId
    /\ nextId \in 1 .. LastId + 1
    /\ cleared \in [Account \X Account -> 0 .. LastId]
    /\ pc \in [Task -> Statement]
    /\ call \in [Task -> Call \cup {None}]
    /\ mark \in [Task -> 0 .. LastId]
    /\ began \in [Task -> SUBSET Ids]

Init ==
    /\ GraphInit
    /\ messagePolicy = [u \in Account |-> "everyone"]
    /\ messages = << >> /\ nextId = 1
    /\ cleared = [p \in Account \X Account |-> 0]
    /\ pc = [t \in Task |-> "idle"]
    /\ call = [t \in Task |-> None]
    /\ mark = [t \in Task |-> 0]
    /\ began = [t \in Task |-> {}]

-----------------------------------------------------------------------------
GoTo(t, statement) ==
    /\ pc' = [pc EXCEPT ![t] = statement]
    /\ UNCHANGED <<call, began>>
Finish(t) ==
    /\ pc' = [pc EXCEPT ![t] = "idle"]
    /\ call' = [call EXCEPT ![t] = None]
    /\ mark' = [mark EXCEPT ![t] = 0]
    /\ began' = [began EXCEPT ![t] = {}]

\* A request arrives; nobody writes to himself or clears such a conversation.
Start(t) ==
    /\ pc[t] = "idle"
    /\ \E c \in Call :
        /\ c.op \in Ops /\ c.viewer # c.other
        /\ c.op = "read" <=> c.id # 0
        /\ call' = [call EXCEPT ![t] = c]
        /\ began' = [began EXCEPT ![t] = IF c.op = "clear" THEN DOMAIN messages ELSE {}]
        /\ pc' = [pc EXCEPT ![t] = CASE c.op = "send" -> "permission"
                                      [] c.op = "clear" -> "max"
                                      [] OTHER -> "mark"]
    /\ UNCHANGED <<graph, messagePolicy, tables, mark>>

-----------------------------------------------------------------------------
(* send_message *)

\* One statement reads everything the answer depends on.
CheckPermission(t) ==
    /\ pc[t] = "permission"
    /\ IF MessagePermission(call[t].viewer, call[t].other) = "allowed"
       THEN GoTo(t, "insert") /\ UNCHANGED mark
       ELSE Finish(t)
    /\ UNCHANGED <<graph, messagePolicy, tables>>

\* The INSERT draws its id; its row appears when the statement commits.
Insert(t) ==
    /\ pc[t] = "insert" /\ nextId \in Ids
    /\ mark' = [mark EXCEPT ![t] = nextId]
    /\ nextId' = nextId + 1
    /\ GoTo(t, "commit")
    /\ UNCHANGED <<graph, messagePolicy, messages, cleared>>

Sent(t) == [sender |-> call[t].viewer, recipient |-> call[t].other, read |-> FALSE]
Commit(t) ==
    /\ pc[t] = "commit"
    /\ messages' = [i \in DOMAIN messages \cup {mark[t]} |->
                        IF i = mark[t] THEN Sent(t) ELSE messages[i]]
    /\ mark' = [mark EXCEPT ![t] = 0]
    /\ GoTo(t, "notify")
    /\ UNCHANGED <<graph, messagePolicy, nextId, cleared>>

-----------------------------------------------------------------------------
(* clear_history: two statements, no transaction *)

\* Altered: off by one.
OneMore(S) == IF S = {} THEN 0 ELSE 1 + CHOOSE i \in S : \A j \in S : j <= i
Greatest(S) == IF S = {} THEN 0 ELSE CHOOSE i \in S : \A j \in S : j <= i

ReadMax(t) ==
    /\ pc[t] = "max"
    /\ mark' = [mark EXCEPT ![t] = Greatest(Between(call[t].viewer, call[t].other))]
    /\ GoTo(t, "upsert")
    /\ UNCHANGED <<graph, messagePolicy, tables>>

\* Altered: the last clear to arrive wins.
Overwritten(old, new) == new
\* GREATEST of the stored and the new mark.
Raised(old, new) == IF new > old THEN new ELSE old

\* Altered: the two columns are swapped.
ClearedByPartner(t) == <<call[t].other, call[t].viewer>>
ClearedBy(t) == <<call[t].viewer, call[t].other>>

Upsert(t) ==
    /\ pc[t] = "upsert"
    /\ cleared' = [cleared EXCEPT ![ClearedBy(t)] = Raised(@, mark[t])]
    /\ mark' = [mark EXCEPT ![t] = 0]
    /\ GoTo(t, "notify")
    /\ UNCHANGED <<graph, messagePolicy, messages, nextId>>

-----------------------------------------------------------------------------
(* mark_message_read, mark_conversation_read: one statement each *)

Marked(t) ==
    {i \in DOMAIN messages :
        /\ messages[i].recipient = call[t].viewer
        /\ IF call[t].op = "read" THEN i = call[t].id ELSE messages[i].sender = call[t].other}

MarkRead(t) ==
    /\ pc[t] = "mark"
    /\ messages' = [i \in DOMAIN messages |->
                        IF i \in Marked(t) THEN [messages[i] EXCEPT !.read = TRUE] ELSE messages[i]]
    /\ Finish(t)
    /\ UNCHANGED <<graph, messagePolicy, nextId, cleared>>

\* The events are sent and the answer is given.
Notify(t) ==
    /\ pc[t] = "notify"
    /\ Finish(t)
    /\ UNCHANGED <<graph, messagePolicy, tables>>

Work(t) ==
    \/ CheckPermission(t) \/ Insert(t) \/ Commit(t)
    \/ ReadMax(t) \/ Upsert(t) \/ MarkRead(t) \/ Notify(t)

\* Somebody else's operation on the relations, or a changed preference.
Change ==
    /\ GraphNext
    /\ UNCHANGED <<messagePolicy, tables, tasks>>
ChangePolicy ==
    /\ \E u \in Choosers, p \in Policy : messagePolicy' = [messagePolicy EXCEPT ![u] = p]
    /\ UNCHANGED <<graph, tables, tasks>>

Next ==
    \/ \E t \in Task : Start(t) \/ Work(t)
    \/ "relations" \in Ops /\ (Change \/ ChangePolicy)

Spec == Init /\ [][Next]_vars

-----------------------------------------------------------------------------
(* Properties *)

\* fetch_messages_for_user: what the list of u shows.
VisibleTo(u) ==
    {i \in DOMAIN messages :
        /\ u \in {messages[i].sender, messages[i].recipient}
        /\ LET other == IF messages[i].sender = u THEN messages[i].recipient
                                                  ELSE messages[i].sender
           IN  i > cleared[<<u, other>>]}

\* When a clear has answered, the viewer no longer sees what was there before
\* he asked, even if other devices of his clear the same conversation.
ClearHidesTheOld ==
    \A t \in Task :
        pc[t] = "notify" /\ call[t].op = "clear" =>
            VisibleTo(call[t].viewer) \cap began[t]
                \cap Between(call[t].viewer, call[t].other) = {}

\* A message only ever disappears from the list of a user because that user
\* cleared the conversation: the partner keeps it (SOCIAL-API-V2.md:110).
OnlyOwnClearHides ==
    [][\A u \in Account :
          ~(VisibleTo(u) \subseteq VisibleTo(u)')
              => \E t \in Task : /\ pc[t] = "upsert" /\ pc'[t] = "notify"
                                 /\ call[t].viewer = u]_vars

\* "New messages are still delivered" after a clear (SOCIAL-API-V2.md:135): a
\* message that commits while its recipient is not clearing is in his list.
NewMessagesShow ==
    [][\A i \in DOMAIN messages' \ DOMAIN messages, u \in Account :
          /\ messages'[i].recipient = u
          /\ \A t \in Task : ~(pc[t] \in {"max", "upsert"} /\ call[t].viewer = u)
          => i \in VisibleTo(u)']_vars
=============================================================================
