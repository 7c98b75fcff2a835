-------------------------- MODULE PresenceService --------------------------
(***************************************************************************)
(* What presence promises to those who listen, free of registry, queues    *)
(* and locks: who is online, one announcement after the other, and what    *)
(* each listener learns of them.  Presence shows that the sockets and      *)
(* broadcasts of src/src/ws.rs implement it.                               *)
(***************************************************************************)
CONSTANTS User,
          Observer,     \* who may listen
          Owner,        \* observer -> the user it belongs to
          None

VARIABLES status,       \* user -> what has been announced last
          knows,        \* who listens -> what it has been told about each user
          current,      \* the announcement that is being made
          untold        \* those who listen and have not been told of it

service == <<status, knows, current, untold>>

Audience == DOMAIN knows
Ignorant == [u \in User |-> "unheard"]

ServiceInit ==
    /\ status = [u \in User |-> "offline"]
    /\ knows = << >>
    /\ current = None /\ untold = {}

\* One announcement at a time, meant for all who listen now.
Announce(kind, u) ==
    /\ current = None
    /\ current' = [kind |-> kind, about |-> u]
    /\ status' = [status EXCEPT ![u] = kind]
    /\ untold' = Audience'

\* Who comes has been told nothing; his user is online, or is announced.
Come(s) ==
    /\ s \notin Audience
    /\ \/ Announce("online", Owner[s])
       \/ status[Owner[s]] = "online" /\ UNCHANGED <<status, current, untold>>
    /\ knows' = [x \in Audience \cup {s} |-> IF x = s THEN Ignorant ELSE knows[x]]

\* Some go, or miss a message and are lost to the service.
Go(S) ==
    /\ UNCHANGED <<status, current>>
    /\ untold' = untold \ S
    /\ knows' = [x \in Audience \ S |-> knows[x]]

\* The last ones of a user go.
Depart(u) ==
    /\ Announce("offline", u)
    /\ knows' = [x \in {y \in Audience : Owner[y] # u} |-> knows[x]]

\* Some of those who wait are told; the message is lost on those of L.
Tell(S, L) ==
    /\ UNCHANGED <<status, current>>
    /\ untold' = untold \ S
    /\ knows' = [x \in Audience \ L |->
                    IF x \in S THEN [knows[x] EXCEPT ![current.about] = current.kind]
                               ELSE knows[x]]

\* All have been told.
Close ==
    /\ current # None /\ untold = {}
    /\ current' = None
    /\ UNCHANGED <<status, knows, untold>>

ServiceNext ==
    \/ \E S \in SUBSET Audience : Go(S)
    \/ \E S \in SUBSET untold : \E L \in SUBSET S : Tell(S, L)
    \/ Close
    \/ \E s \in Observer : Come(s)
    \/ \E u \in User : Depart(u)

ServiceSpec == ServiceInit /\ [][ServiceNext]_service

-----------------------------------------------------------------------------
(* Properties *)

\* Whoever listens knows of each user what was announced last, or has heard
\* nothing yet, or is about to be told; whose socket listens is online.
Informed ==
    /\ current # None => status[current.about] = current.kind
    /\ \A s \in Audience :
          /\ status[Owner[s]] = "online"
          /\ \A u \in User :
                \/ knows[s][u] \in {"unheard", status[u]}
                \/ current # None /\ current.about = u /\ s \in untold
=============================================================================
