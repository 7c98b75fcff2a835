------------------------------ MODULE Presence ------------------------------
(***************************************************************************)
(* The WebSocket registry of src/src/ws.rs: sockets that register, serve   *)
(* and leave, logouts that disconnect every socket of a user, pushes that  *)
(* run beside them, and the presence messages all connected clients get.   *)
(* A step is what one thread does under one lock: the presence mutex is    *)
(* held over several steps, the entry of a user over one.                  *)
(***************************************************************************)
EXTENDS Naturals, Sequences, FiniteSets

CONSTANTS User,
          Socket,       \* connections a client may open, each once
          Logout,       \* logout calls that may be in flight
          Owner,        \* socket -> the user its token identifies
          Capacity,     \* OUTBOUND_QUEUE_CAPACITY (64 in the code)
          Cookies,      \* sockets whose upgrade carries an identity
          Traffic,      \* which of "event", "reply", "auth_error" there are: a bound
          Unstable,     \* sockets whose client may vanish: a bound
          None

ASSUME PresenceAssumption ==
    /\ Owner \in [Socket -> User]
    /\ Socket \cap Logout = {} /\ None \notin Socket \cup Logout \cup User
    /\ None \notin [kind : {"online", "offline"}, about : User]
    /\ Capacity \in Nat \ {0}

VARIABLES connections,  \* user -> registered sockets; the entry may be empty
          holder,       \* who holds presence_transitions
          pc,           \* socket or logout -> where it is
          target,       \* logout -> the user it disconnects
          news,         \* socket or logout -> presence change it broadcasts
          todo,         \* socket or logout -> entries its broadcast still visits
          queue,        \* socket -> outbound messages
          receiving,    \* sockets whose forward task still takes messages
          kicked,       \* sockets whose disconnect flag is set
          broken,       \* sockets whose client is gone
          announced,    \* user -> the presence change last broadcast
          seen,         \* socket -> what its client last heard about each user
          missed        \* sockets that lost a message to a full queue

tasks == <<pc, target, news, todo>>
channels == <<queue, receiving, missed>>
clients == <<broken, seen>>
vars == <<connections, holder, tasks, channels, clients, kicked, announced>>

Presences == {"online", "offline"}
News == [kind : Presences, about : User]
Plain(kind) == [kind |-> kind, about |-> None]
Messages == News \cup {Plain(k) : k \in {"auth_ok", "auth_error", "event", "reply"}}
SocketStep == {"closed", "hello", "join", "greet", "arrival", "serving",
               "leave", "departure", "flush", "gone"}
LogoutStep == {"idle", "remove", "departure"}

TypeOK ==
    /\ DOMAIN connections \subseteq User
    /\ \A u \in DOMAIN connections : connections[u] \subseteq {s \in Socket : Owner[s] = u}
    /\ holder \in Socket \cup Logout \cup {None}
    /\ DOMAIN pc = Socket \cup Logout
    /\ \A s \in Socket : pc[s] \in SocketStep
    /\ \A l \in Logout : pc[l] \in LogoutStep
    /\ target \in [Logout -> User \cup {None}]
    /\ news \in [Socket \cup Logout -> News \cup {None}]
    /\ todo \in [Socket \cup Logout -> SUBSET User]
    /\ queue \in [Socket -> Seq(Messages)]
    /\ \A s \in Socket : Len(queue[s]) <= Capacity
    /\ receiving \subseteq Socket /\ kicked \subseteq Socket
    /\ broken \subseteq Socket /\ missed \subseteq Socket
    /\ announced \in [User -> Presences]
    /\ seen \in [Socket -> [User -> Presences \cup {"unheard"}]]

Init ==
    /\ connections = << >>
    /\ holder = None
    /\ pc = [p \in Socket \cup Logout |-> IF p \in Socket THEN "closed" ELSE "idle"]
    /\ target = [l \in Logout |-> None]
    /\ news = [p \in Socket \cup Logout |-> None]
    /\ todo = [p \in Socket \cup Logout |-> {}]
    /\ queue = [s \in Socket |-> << >>]
    /\ receiving = {} /\ kicked = {} /\ broken = {} /\ missed = {}
    /\ announced = [u \in User |-> "offline"]
    /\ seen = [s \in Socket |-> [u \in User |-> "unheard"]]

-----------------------------------------------------------------------------
(* The registry and the outbound queues *)

Members(u) == IF u \in DOMAIN connections THEN connections[u] ELSE {}
SetEntry(u, S) ==
    connections' = [v \in DOMAIN connections \cup {u} |->
                        IF v = u THEN S ELSE connections[v]]
DropEntry(u) ==
    connections' = [v \in DOMAIN connections \ {u} |-> connections[v]]

\* Altered: off by one.
HasRoomAtLimit(s) == Len(queue[s]) <= Capacity
HasRoom(s) == Len(queue[s]) < Capacity

\* enqueue: a full queue loses the message, a closed one takes none.
Send(S, m) ==
    /\ queue' = [s \in Socket |-> IF s \in S \cap receiving /\ HasRoom(s)
                                  THEN Append(queue[s], m) ELSE queue[s]]
    /\ missed' = missed \cup {s \in S \cap receiving : ~HasRoom(s)}
    /\ UNCHANGED receiving

\* Altered: a full queue counts as a closed one.
KeptWithRoom(S) == {s \in S \cap receiving : HasRoom(s)}

\* retain: what is left of S after a send: closed queues are pruned.
Kept(S) == S \cap receiving

\* Altered: transitions do not exclude each other.
AlwaysAvailable == TRUE
Available == holder = None

Go(p, step) == pc' = [pc EXCEPT ![p] = step]

-----------------------------------------------------------------------------
(* A socket: upgrade, authentication, registration *)

\* ws_handler and the start of handle_socket: a cookie identifies the client at
\* once, otherwise its first message must.
Accept(s) ==
    /\ pc[s] = "closed"
    /\ Go(s, IF s \in Cookies THEN "join" ELSE "hello")
    /\ receiving' = receiving \cup {s}
    /\ UNCHANGED <<connections, holder, target, news, todo, queue, missed, clients,
                   kicked, announced>>

Authenticate(s) ==
    /\ pc[s] = "hello"
    /\ Go(s, "join")
    /\ UNCHANGED <<connections, holder, target, news, todo, channels, clients,
                   kicked, announced>>

\* Deadline, invalid token or another first message; the client may also just
\* close.  Nothing was registered.
Refuse(s) ==
    /\ pc[s] = "hello"
    /\ \/ UNCHANGED channels
       \/ "auth_error" \in Traffic /\ Send({s}, Plain("auth_error"))
    /\ Go(s, "flush")
    /\ UNCHANGED <<connections, holder, target, news, todo, clients, kicked, announced>>

\* register_authenticated_connection up to WsState::register.
Register(s) ==
    LET u == Owner[s]
        cameOnline == Members(u) = {}
    IN  /\ pc[s] = "join" /\ Available
        /\ holder' = s
        /\ SetEntry(u, Members(u) \cup {s})
        /\ news' = [news EXCEPT ![s] = IF cameOnline THEN [kind |-> "online", about |-> u]
                                       ELSE None]
        /\ announced' = IF cameOnline THEN [announced EXCEPT ![u] = "online"] ELSE announced
        /\ Go(s, "greet")
        /\ UNCHANGED <<target, todo, channels, clients, kicked>>

\* auth_ok, then the broadcast if the user came online.
Greet(s) ==
    /\ pc[s] = "greet"
    /\ Send({s}, Plain("auth_ok"))
    /\ todo' = [todo EXCEPT ![s] = IF news[s] = None THEN {} ELSE DOMAIN connections]
    /\ Go(s, "arrival")
    /\ UNCHANGED <<connections, holder, target, news, clients, kicked, announced>>

-----------------------------------------------------------------------------
(* Broadcasts: one entry at a time, under the presence mutex *)

\* Altered: broadcast takes the mutex, which its callers hold, by itself.
VisitLocks(p) ==
    /\ Available
    /\ \E v \in todo[p] :
           /\ todo' = [todo EXCEPT ![p] = @ \ {v}]
           /\ Send(Members(v), news[p])
           /\ IF v \in DOMAIN connections THEN SetEntry(v, Kept(Members(v)))
                                          ELSE UNCHANGED connections
           /\ UNCHANGED <<holder, pc, target, news, clients, kicked, announced>>
Visit(p) ==
    \E v \in todo[p] :
        /\ todo' = [todo EXCEPT ![p] = @ \ {v}]
        /\ Send(Members(v), news[p])
        /\ IF v \in DOMAIN connections THEN SetEntry(v, Kept(Members(v)))
                                       ELSE UNCHANGED connections
        /\ UNCHANGED <<holder, pc, target, news, clients, kicked, announced>>

\* The mutex is released when its guard goes out of scope.
Release(p) ==
    /\ pc[p] \in {"arrival", "departure"} /\ todo[p] = {}
    /\ holder' = None
    /\ news' = [news EXCEPT ![p] = None]
    /\ Go(p, IF p \in Logout THEN "idle"
             ELSE IF pc[p] = "arrival" THEN "serving" ELSE "flush")
    /\ UNCHANGED <<connections, target, todo, channels, clients, kicked, announced>>

-----------------------------------------------------------------------------
(* A socket that serves, and its end *)

\* Pong, subscribed: answers to what the client sends.
Reply(s) ==
    /\ "reply" \in Traffic /\ pc[s] = "serving" /\ s \notin broken
    /\ Send({s}, Plain("reply"))
    /\ UNCHANGED <<connections, holder, tasks, clients, kicked, announced>>

\* The loop notices that the client is gone or that the server disconnects it.
Quit(s) ==
    /\ pc[s] = "serving" /\ s \in kicked \cup broken
    /\ Go(s, "leave")
    /\ UNCHANGED <<connections, holder, target, news, todo, channels, clients,
                   kicked, announced>>

\* The client closes, its token expires or it sends what it must not.
Leave(s) ==
    /\ pc[s] = "serving"
    /\ \/ UNCHANGED channels
       \/ "auth_error" \in Traffic /\ Send({s}, Plain("auth_error"))
    /\ Go(s, "leave")
    /\ UNCHANGED <<connections, holder, target, news, todo, clients, kicked, announced>>

\* Altered: the departure is decided and not broadcast.
DepartsUntold(p, u) ==
    /\ news' = [news EXCEPT ![p] = [kind |-> "offline", about |-> u]]
    /\ announced' = [announced EXCEPT ![u] = "offline"]
    /\ UNCHANGED todo
Departs(p, u) ==
    /\ news' = [news EXCEPT ![p] = [kind |-> "offline", about |-> u]]
    /\ announced' = [announced EXCEPT ![u] = "offline"]
    /\ todo' = [todo EXCEPT ![p] = DOMAIN connections \ {u}]

\* Altered: the entry is only removed when it is empty, the socket stays in it.
EntryOnly(s) == Members(Owner[s])
\* unregister: the socket leaves its entry, an empty entry leaves the map.
Remaining(s) == Members(Owner[s]) \ {s}

Unregister(s) ==
    LET u == Owner[s]
    IN  /\ pc[s] = "leave" /\ Available
        /\ holder' = s
        /\ IF u \in DOMAIN connections /\ Remaining(s) = {}
           THEN DropEntry(u) /\ Departs(s, u)
           ELSE /\ IF u \in DOMAIN connections THEN SetEntry(u, Remaining(s))
                                               ELSE UNCHANGED connections
                /\ UNCHANGED <<news, announced, todo>>
        /\ Go(s, "departure")
        /\ UNCHANGED <<target, channels, clients, kicked>>

\* The queue is flushed for at most a second, then the forward task is aborted.
Finish(s) ==
    /\ pc[s] = "flush"
    /\ Go(s, "gone")
    /\ receiving' = receiving \ {s}
    /\ queue' = [queue EXCEPT ![s] = << >>]
    /\ UNCHANGED <<connections, holder, target, news, todo, missed, clients,
                   kicked, announced>>

-----------------------------------------------------------------------------
(* disconnect_user, called by logout *)

StartLogout(l) ==
    /\ pc[l] = "idle"
    /\ \E u \in User : target' = [target EXCEPT ![l] = u]
    /\ Go(l, "remove")
    /\ UNCHANGED <<connections, holder, news, todo, channels, clients, kicked, announced>>

\* Altered: the sockets are removed but not told.
ToldNobody(u) == {}
Told(u) == Members(u)

Remove(l) ==
    LET u == target[l]
    IN  /\ pc[l] = "remove" /\ Available
        /\ target' = [target EXCEPT ![l] = None]
        /\ IF u \in DOMAIN connections
           THEN /\ holder' = l
                /\ kicked' = kicked \cup Told(u)
                /\ DropEntry(u) /\ Departs(l, u)
                /\ Go(l, "departure")
           ELSE /\ Go(l, "idle")
                /\ UNCHANGED <<connections, holder, kicked, news, announced, todo>>
        /\ UNCHANGED <<channels, clients>>

-----------------------------------------------------------------------------
(* What runs beside the presence mutex *)

\* Altered: an entry that is pruned empty is dropped, and nobody is told.
PushTidies(u) ==
    /\ "event" \in Traffic /\ u \in DOMAIN connections
    /\ Send(Members(u), Plain("event"))
    /\ IF Kept(Members(u)) = {} THEN DropEntry(u) ELSE SetEntry(u, Kept(Members(u)))
    /\ UNCHANGED <<holder, tasks, clients, kicked, announced>>

\* send_to_user, called by every handler that notifies.
Push(u) ==
    /\ "event" \in Traffic /\ u \in DOMAIN connections
    /\ Send(Members(u), Plain("event"))
    /\ SetEntry(u, Kept(Members(u)))
    /\ UNCHANGED <<holder, tasks, clients, kicked, announced>>

\* The forward task hands one message to the client; it ends, and closes the
\* queue, when that fails.
Forward(s) ==
    /\ s \in receiving /\ queue[s] # << >>
    /\ LET m == Head(queue[s])
       IN  \/ /\ queue' = [queue EXCEPT ![s] = Tail(@)]
              /\ seen' = IF m.kind \in Presences THEN [seen EXCEPT ![s][m.about] = m.kind] ELSE seen
              /\ UNCHANGED receiving
           \/ /\ s \in broken
              /\ queue' = [queue EXCEPT ![s] = << >>]
              /\ receiving' = receiving \ {s}
              /\ UNCHANGED seen
    /\ UNCHANGED <<connections, holder, tasks, broken, missed, kicked, announced>>

\* The client vanishes.
Break(s) ==
    /\ s \in Unstable \cap receiving /\ s \notin broken
    /\ broken' = broken \cup {s}
    /\ UNCHANGED <<connections, holder, tasks, channels, seen, kicked, announced>>

SocketWork(s) ==
    \/ Refuse(s) \/ Register(s) \/ Greet(s) \/ Visit(s) \/ Release(s)
    \/ Quit(s) \/ Unregister(s) \/ Finish(s)
LogoutWork(l) == Remove(l) \/ Visit(l) \/ Release(l)

Next ==
    \/ \E s \in Socket : \/ SocketWork(s) \/ Forward(s) \/ Accept(s) \/ Authenticate(s)
                         \/ Reply(s) \/ Leave(s) \/ Break(s)
    \/ \E l \in Logout : StartLogout(l) \/ LogoutWork(l)
    \/ \E u \in User : Push(u)

\* Tasks that can go on do; clients owe nothing.  presence_transitions is a
\* std::sync::Mutex, which promises no order among those who wait for it, so
\* nothing stronger is asked of it.
Fairness ==
    /\ \A s \in Socket : WF_vars(SocketWork(s)) /\ WF_vars(Forward(s))
    /\ \A l \in Logout : WF_vars(LogoutWork(l))

Spec == Init /\ [][Next]_vars
FairSpec == Spec /\ Fairness

-----------------------------------------------------------------------------
(* Properties *)

\* Between transitions, what was last broadcast about a user agrees with the
\* registry: offline is announced when the last entry goes, online when one
\* comes (WsState::register, unregister, disconnect_user).
BroadcastsMatchRegistry ==
    holder = None => \A u \in User : announced[u] = "online" <=> u \in DOMAIN connections

\* Once no socket of a user is left, everybody has been told that he is offline.
OfflineAfterLast ==
    \A u \in User :
        /\ holder = None
        /\ \A s \in Socket : Owner[s] = u => pc[s] \in {"closed", "hello", "join", "flush", "gone"}
        => announced[u] = "offline"

\* A socket that serves a client who is there gets what is sent to its user:
\* neither a full queue nor somebody else's transition drops it.
LiveSocketsReachable ==
    \A s \in Socket :
        pc[s] = "serving" /\ s \in receiving /\ s \notin kicked => s \in Members(Owner[s])

\* What a client will have heard last about u once the messages q, which are
\* on their way, have been added to what it has heard before.
Heard(q, before, u) ==
    LET about == {i \in 1 .. Len(q) : q[i].kind \in Presences /\ q[i].about = u}
    IN  IF about = {} THEN before
        ELSE q[CHOOSE i \in about : \A j \in about : j <= i].kind
LastHeard(s, u) == Heard(queue[s], seen[s][u], u)

\* What a client hears last about a user is what was announced last, whichever
\* transitions raced, unless its queue overflowed.
ObserversConverge ==
    holder = None =>
        \A s \in receiving \ missed, u \in User :
            s \in Members(Owner[s]) => LastHeard(s, u) \in {"unheard", announced[u]}

\* The registry as a service to those who listen (PresenceService): sockets
\* that are registered and have lost nothing; what they will have heard; the
\* announcement under way and who has still to be told.
Listening == {s \in receiving \ missed : s \in Members(Owner[s])}
Known == [s \in Listening |-> [u \in User |-> LastHeard(s, u)]]
Current == IF holder = None THEN None ELSE news[holder]
Untold ==
    IF Current = None THEN {}
    ELSE IF pc[holder] = "greet" THEN Listening
    ELSE {s \in Listening : Owner[s] \in todo[holder]}

Service == INSTANCE PresenceService WITH
              Observer <- Socket, status <- announced, knows <- Known,
              current <- Current, untold <- Untold

\* Sockets, queues, broadcasts and pushes together implement the service: each
\* change is told to each listener once, in the order of the changes, and a user
\* is offline when none of his sockets listens any more.
ImplementsService == Service!ServiceSpec

\* A socket that is no longer registered does not go on serving: logout ends
\* every session of the user, and a pruned socket ends by itself.
OrphansEnd ==
    \A s \in Socket : pc[s] = "serving" /\ s \notin Members(Owner[s]) ~> pc[s] = "gone"

\* Nobody waits for the presence mutex for ever.
TransitionsEnd ==
    \A p \in Socket \cup Logout : pc[p] \in {"join", "leave", "remove"}
                                   ~> pc[p] \notin {"join", "leave", "remove"}

\* "Only the first connection broadcasts user_online" (README.md:105): nobody
\* is announced online twice without being announced offline between.
OnlineOnlyOnce ==
    [][\A s \in Socket : news'[s] # None /\ news'[s] # news[s] /\ news'[s].kind = "online"
          => announced[Owner[s]] = "offline"]_vars
=============================================================================
