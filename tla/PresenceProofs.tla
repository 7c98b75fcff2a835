--------------------------- MODULE PresenceProofs ---------------------------
(***************************************************************************)
(* What the registry of sockets and the announcements keep although pushes *)
(* run beside the presence mutex, and that sockets, queues and broadcasts  *)
(* implement PresenceService, proved for any users, sockets, logouts and   *)
(* any length of the outbound queues.                                      *)
(***************************************************************************)
EXTENDS Presence, SequenceTheorems, WellFoundedInduction, TLAPS

Tasks == Socket \cup Logout

\* From its registration to its own unregister a socket is present.
Present == {"greet", "arrival", "serving", "leave"}

\* A broadcast has its news while it has entries to visit, a logout its user.
TasksInv ==
    /\ \A p \in Tasks : todo[p] # {} => pc[p] \in {"arrival", "departure"} /\ news[p] \in News
    /\ \A l \in Logout : pc[l] = "remove" => target[l] \in User

\* An entry, even an empty one, means that its user was announced online.
Agrees == \A u \in User : announced[u] = "online" <=> u \in DOMAIN connections

\* Only sockets that are present are registered.
Registered == \A s \in Socket : s \in Members(Owner[s]) => pc[s] \in Present

\* An entry, even an empty one, still has a socket that will remove it.
Attended ==
    \A u \in DOMAIN connections : \E s \in Socket : Owner[s] = u /\ pc[s] \in Present

\* Nothing but a closed queue or a logout takes a socket out of its entry.
Reachable ==
    \A s \in Socket : pc[s] \in Present /\ s \in receiving /\ s \notin kicked
                         => s \in Members(Owner[s])

RegistryInv == Agrees /\ Registered /\ Attended /\ Reachable
IndInv == TypeOK /\ TasksInv /\ RegistryInv

-----------------------------------------------------------------------------
\* A message that is sent leaves the queues within their capacity.
LEMMA SendKeeps ==
  ASSUME TypeOK, NEW S, NEW m \in Messages, Send(S, m)
  PROVE  /\ queue' \in [Socket -> Seq(Messages)]
         /\ \A s \in Socket : Len(queue'[s]) <= Capacity
         /\ missed' \subseteq Socket /\ receiving' = receiving
<1> USE DEF Send
<1>1. ASSUME NEW s \in Socket
      PROVE  queue'[s] \in Seq(Messages) /\ Len(queue'[s]) <= Capacity
  <2>1. queue[s] \in Seq(Messages) /\ Len(queue[s]) <= Capacity BY DEF TypeOK
  <2>2. CASE s \in S \cap receiving /\ HasRoom(s)
    <3>1. queue'[s] = Append(queue[s], m) BY <2>2
    <3>2. /\ Append(queue[s], m) \in Seq(Messages)
          /\ Len(Append(queue[s], m)) = Len(queue[s]) + 1
      BY <2>1, AppendProperties
    <3>3. Len(queue[s]) \in Nat BY <2>1, LenProperties
    <3>4. Len(queue[s]) < Capacity BY <2>2 DEF HasRoom
    <3> QED BY <3>1, <3>2, <3>3, <3>4, PresenceAssumption
  <2>3. CASE ~(s \in S \cap receiving /\ HasRoom(s)) BY <2>1, <2>3
  <2> QED BY <2>2, <2>3
<1>2. queue' \in [Socket -> Seq(Messages)] BY <1>1
<1>3. missed' \subseteq Socket BY DEF TypeOK
<1> QED BY <1>1, <1>2, <1>3

\* A task that goes to a step of its own kind.
LEMMA GoKeeps ==
  ASSUME TypeOK, NEW p \in Tasks, NEW step, Go(p, step),
         p \in Socket => step \in SocketStep, p \in Logout => step \in LogoutStep
  PROVE  /\ DOMAIN pc' = Tasks /\ pc'[p] = step
         /\ \A s \in Socket : pc'[s] \in SocketStep
         /\ \A l \in Logout : pc'[l] \in LogoutStep
         /\ \A x \in Tasks \ {p} : pc'[x] = pc[x]
<1>1. DOMAIN pc = Tasks BY DEF TypeOK, Tasks
<1>2. DOMAIN pc' = Tasks /\ \A x \in Tasks : pc'[x] = IF x = p THEN step ELSE pc[x]
  BY <1>1 DEF Go
<1> QED BY <1>2 DEF TypeOK, Tasks

\* Steps that leave the registry alone and nobody newly present or absent.
LEMMA RegistryUntouched ==
  ASSUME RegistryInv, UNCHANGED <<connections, announced, kicked>>,
         \A s \in Socket : /\ pc'[s] \in Present <=> pc[s] \in Present
                           /\ pc'[s] \in Present /\ s \in receiving' => s \in receiving
  PROVE  RegistryInv'
BY DEF RegistryInv, Agrees, Registered, Attended, Reachable, Members

\* Pruning an entry drops only sockets whose queue is closed, and no entry.
LEMMA PruneKeeps ==
  ASSUME TypeOK, RegistryInv, NEW u \in DOMAIN connections, SetEntry(u, Kept(Members(u))),
         UNCHANGED <<announced, kicked, receiving, pc>>
  PROVE  /\ RegistryInv'
         /\ DOMAIN connections' \subseteq User
         /\ \A v \in DOMAIN connections' : connections'[v] \subseteq {s \in Socket : Owner[s] = v}
<1>1. DOMAIN connections' = DOMAIN connections BY DEF SetEntry
<1>2. \A v \in DOMAIN connections :
        connections'[v] = IF v = u THEN connections[u] \cap receiving ELSE connections[v]
  BY DEF SetEntry, Kept, Members
<1>3. Agrees' BY <1>1 DEF RegistryInv, Agrees
<1>4. Registered' BY <1>1, <1>2 DEF RegistryInv, Registered, Members
<1>5. Attended' BY <1>1 DEF RegistryInv, Attended
<1>6. Reachable' BY <1>1, <1>2 DEF RegistryInv, Reachable, Members
<1> QED BY <1>1, <1>2, <1>3, <1>4, <1>5, <1>6 DEF RegistryInv, TypeOK

-----------------------------------------------------------------------------
(* Steps of the sockets *)

\* Opening, refusing, replying and closing: the registry is not touched.
LEMMA ClientStepKeeps ==
  ASSUME IndInv, NEW s \in Socket,
         Accept(s) \/ Authenticate(s) \/ Refuse(s) \/ Quit(s) \/ Leave(s) \/ Reply(s) \/ Break(s)
  PROVE  IndInv'
<1> USE DEF IndInv
<1>1. \A k \in {"auth_error", "reply"} : Plain(k) \in Messages BY DEF Messages
<1>2. /\ queue' \in [Socket -> Seq(Messages)]
      /\ \A x \in Socket : Len(queue'[x]) <= Capacity
      /\ missed' \subseteq Socket
      /\ receiving' \subseteq Socket
      /\ pc[s] # "closed" => receiving' = receiving
      /\ \A x \in Socket \ {s} : x \in receiving' => x \in receiving
  <2>1. CASE Accept(s) BY <2>1 DEF Accept, TypeOK
  <2>2. CASE Authenticate(s) \/ Quit(s) \/ Break(s)
    BY <2>2 DEF Authenticate, Quit, Break, channels, TypeOK
  <2>3. CASE Refuse(s) \/ Leave(s) \/ Reply(s)
    <3>1. \/ UNCHANGED channels
          \/ \E k \in {"auth_error", "reply"} : Send({s}, Plain(k))
      BY <2>3 DEF Refuse, Leave, Reply
    <3>2. CASE UNCHANGED channels BY <3>2 DEF channels, TypeOK
    <3>3. ASSUME NEW k \in {"auth_error", "reply"}, Send({s}, Plain(k))
          PROVE  /\ queue' \in [Socket -> Seq(Messages)]
                 /\ \A x \in Socket : Len(queue'[x]) <= Capacity
                 /\ missed' \subseteq Socket /\ receiving' = receiving
      BY <1>1, <3>3, SendKeeps
    <3>4. receiving \subseteq Socket BY DEF TypeOK
    <3> QED BY <3>1, <3>2, <3>3, <3>4
  <2> QED BY <2>1, <2>2, <2>3
<1>3. /\ UNCHANGED <<connections, holder, target, news, todo, kicked, announced, seen>>
      /\ broken' \subseteq Socket
  BY DEF Accept, Authenticate, Refuse, Quit, Leave, Reply, Break, clients, tasks, TypeOK
<1>4. /\ DOMAIN pc' = Tasks
      /\ \A x \in Socket : pc'[x] \in SocketStep /\ (pc'[x] \in Present <=> pc[x] \in Present)
      /\ \A x \in Tasks \ {s} : pc'[x] = pc[x]
      /\ pc[s] \notin {"arrival", "departure"} \/ pc'[s] = pc[s]
      /\ pc[s] = "closed" => pc'[s] \notin Present
  <2>1. CASE UNCHANGED pc BY <2>1 DEF TypeOK, Tasks, Present
  <2>2. CASE ~UNCHANGED pc
    <3>1. PICK step \in SocketStep :
             /\ Go(s, step) /\ (step \in Present <=> pc[s] \in Present)
             /\ pc[s] \notin {"arrival", "departure"}
      BY <2>2 DEF Accept, Authenticate, Refuse, Quit, Leave, Reply, Break, tasks, SocketStep,
                  Present
    <3>2. s \notin Logout BY PresenceAssumption
    <3> QED BY <3>1, <3>2, GoKeeps DEF Tasks, Present
  <2> QED BY <2>1, <2>2
<1>5. \A l \in Logout : pc'[l] = pc[l] BY <1>4, PresenceAssumption DEF Tasks
<1>6. TypeOK' BY <1>2, <1>3, <1>4, <1>5 DEF TypeOK, Tasks
<1>7. TasksInv' BY <1>3, <1>4, <1>5 DEF TasksInv
<1>8. RegistryInv' BY <1>2, <1>3, <1>4, RegistryUntouched
<1> QED BY <1>6, <1>7, <1>8

LEMMA RegisterKeeps ==
  ASSUME IndInv, NEW s \in Socket, Register(s)
  PROVE  IndInv'
<1> USE DEF IndInv
<1> DEFINE u == Owner[s]
<1>1. u \in User /\ s \in Tasks /\ s \notin Logout BY PresenceAssumption DEF Tasks
<1>2. /\ holder' = s /\ SetEntry(u, Members(u) \cup {s}) /\ Go(s, "greet")
      /\ UNCHANGED <<target, todo, channels, clients, kicked>> /\ pc[s] = "join"
      /\ news' = [news EXCEPT ![s] = IF Members(u) = {} THEN [kind |-> "online", about |-> u]
                                     ELSE None]
      /\ announced' = IF Members(u) = {} THEN [announced EXCEPT ![u] = "online"] ELSE announced
  BY DEF Register
<1>3. /\ DOMAIN pc' = Tasks /\ pc'[s] = "greet"
      /\ \A x \in Socket : pc'[x] \in SocketStep
      /\ \A l \in Logout : pc'[l] \in LogoutStep
      /\ \A x \in Tasks \ {s} : pc'[x] = pc[x]
  BY <1>1, <1>2, GoKeeps DEF SocketStep
<1>4. DOMAIN connections' = DOMAIN connections \cup {u} BY <1>2 DEF SetEntry
<1>5. \A v \in DOMAIN connections' :
        connections'[v] = IF v = u THEN Members(u) \cup {s} ELSE connections[v]
  BY <1>2 DEF SetEntry
<1>6. Members(u) \subseteq {x \in Socket : Owner[x] = u} BY DEF Members, TypeOK
<1>7. \A v \in DOMAIN connections' : connections'[v] \subseteq {x \in Socket : Owner[x] = v}
  BY <1>4, <1>5, <1>6 DEF TypeOK
<1>8. \A v \in User : Members(v)' = IF v = u THEN Members(u) \cup {s} ELSE Members(v)
  BY <1>4, <1>5 DEF Members
<1>9. announced' \in [User -> Presences] /\ news' \in [Tasks -> News \cup {None}]
  <2>1. [kind |-> "online", about |-> u] \in News BY <1>1 DEF News, Presences
  <2>2. announced' \in [User -> Presences] BY <1>2 DEF TypeOK, Presences
  <2>3. news \in [Tasks -> News \cup {None}] BY DEF TypeOK, Tasks
  <2> QED BY <1>2, <2>1, <2>2, <2>3
<1>10. TypeOK'
  BY <1>1, <1>2, <1>3, <1>4, <1>7, <1>9 DEF TypeOK, channels, clients, Tasks
<1>11. TasksInv'
  <2>1. todo[s] = {} BY <1>1, <1>2 DEF TasksInv
  <2>2. \A x \in Tasks \ {s} : news'[x] = news[x] BY <1>2 DEF TypeOK, Tasks
  <2> QED BY <1>1, <1>2, <1>3, <2>1, <2>2 DEF TasksInv, Tasks
<1>12. Agrees'
  <2>1. Members(u) # {} => u \in DOMAIN connections BY DEF Members
  <2> QED BY <1>1, <1>2, <1>4, <2>1 DEF RegistryInv, Agrees, TypeOK
<1>13. \A x \in Socket \ {s} : pc'[x] = pc[x] BY <1>3 DEF Tasks
<1>14. Registered'
  BY <1>3, <1>8, <1>13, PresenceAssumption DEF RegistryInv, Registered, Present
<1>15. Attended' BY <1>3, <1>4, <1>13 DEF RegistryInv, Attended, Present
<1>16. Reachable'
  BY <1>2, <1>3, <1>8, <1>13, PresenceAssumption DEF RegistryInv, Reachable, Present, channels
<1> QED BY <1>10, <1>11, <1>12, <1>14, <1>15, <1>16 DEF RegistryInv

LEMMA GreetKeeps ==
  ASSUME IndInv, NEW s \in Socket, Greet(s)
  PROVE  IndInv'
<1> USE DEF IndInv
<1>1. s \in Tasks /\ s \notin Logout BY PresenceAssumption DEF Tasks
<1>2. /\ Go(s, "arrival") /\ pc[s] = "greet" /\ Send({s}, Plain("auth_ok"))
      /\ todo' = [todo EXCEPT ![s] = IF news[s] = None THEN {} ELSE DOMAIN connections]
      /\ UNCHANGED <<connections, holder, target, news, clients, kicked, announced>>
  BY DEF Greet
<1>3. /\ DOMAIN pc' = Tasks /\ pc'[s] = "arrival"
      /\ \A x \in Socket : pc'[x] \in SocketStep
      /\ \A l \in Logout : pc'[l] \in LogoutStep
      /\ \A x \in Tasks \ {s} : pc'[x] = pc[x]
  BY <1>1, <1>2, GoKeeps DEF SocketStep
<1>4. Plain("auth_ok") \in Messages BY DEF Messages
<1>5. /\ queue' \in [Socket -> Seq(Messages)]
      /\ \A x \in Socket : Len(queue'[x]) <= Capacity
      /\ missed' \subseteq Socket /\ receiving' = receiving
  BY <1>2, <1>4, SendKeeps
<1>6. todo' \in [Tasks -> SUBSET User]
  <2>1. todo \in [Tasks -> SUBSET User] /\ DOMAIN connections \subseteq User BY DEF TypeOK, Tasks
  <2> QED BY <1>2, <2>1
<1>7. TypeOK' BY <1>2, <1>3, <1>5, <1>6 DEF TypeOK, clients, Tasks
<1>8. TasksInv'
  <2>1. news[s] \in News \cup {None} BY <1>1 DEF TypeOK, Tasks
  <2>2. todo'[s] # {} => news[s] # None BY <1>1, <1>2 DEF TypeOK, Tasks
  <2>3. \A x \in Tasks \ {s} : todo'[x] = todo[x] BY <1>2 DEF TypeOK, Tasks
  <2> QED BY <1>1, <1>2, <1>3, <2>1, <2>2, <2>3 DEF TasksInv, Tasks
<1>9. RegistryInv'
  BY <1>1, <1>2, <1>3, <1>5, RegistryUntouched DEF Present, Tasks
<1> QED BY <1>7, <1>8, <1>9

\* A broadcast visits an entry.
LEMMA VisitKeeps ==
  ASSUME IndInv, NEW p \in Tasks, Visit(p)
  PROVE  IndInv'
<1> USE DEF IndInv
<1>1. PICK v \in todo[p] :
        /\ todo' = [todo EXCEPT ![p] = @ \ {v}]
        /\ Send(Members(v), news[p])
        /\ IF v \in DOMAIN connections THEN SetEntry(v, Kept(Members(v)))
                                       ELSE UNCHANGED connections
        /\ UNCHANGED <<holder, pc, target, news, clients, kicked, announced>>
  BY DEF Visit
<1>2. news[p] \in Messages BY <1>1 DEF TasksInv, Messages
<1>3. /\ queue' \in [Socket -> Seq(Messages)]
      /\ \A x \in Socket : Len(queue'[x]) <= Capacity
      /\ missed' \subseteq Socket /\ receiving' = receiving
  BY <1>1, <1>2, SendKeeps
<1>4. /\ RegistryInv' /\ DOMAIN connections' \subseteq User
      /\ \A w \in DOMAIN connections' : connections'[w] \subseteq {x \in Socket : Owner[x] = w}
  <2>1. CASE v \in DOMAIN connections BY <1>1, <1>3, <2>1, PruneKeeps
  <2>2. CASE v \notin DOMAIN connections
    <3>1. UNCHANGED connections BY <1>1, <2>2
    <3> QED BY <1>1, <1>3, <3>1, RegistryUntouched DEF TypeOK
  <2> QED BY <2>1, <2>2
<1>5. todo' \in [Tasks -> SUBSET User] BY <1>1 DEF TypeOK, Tasks
<1>6. TypeOK' BY <1>1, <1>3, <1>4, <1>5 DEF TypeOK, clients, Tasks
<1>7. TasksInv'
  <2>1. \A x \in Tasks : todo'[x] # {} => todo[x] # {} BY <1>1 DEF TypeOK, Tasks
  <2> QED BY <1>1, <2>1 DEF TasksInv
<1> QED BY <1>4, <1>6, <1>7

\* The end of a broadcast: the mutex is released and the task goes on.
LEMMA ReleaseKeeps ==
  ASSUME IndInv, NEW p \in Tasks, Release(p)
  PROVE  IndInv'
<1> USE DEF IndInv
<1> DEFINE step == IF p \in Logout THEN "idle"
                   ELSE IF pc[p] = "arrival" THEN "serving" ELSE "flush"
<1>1. /\ pc[p] \in {"arrival", "departure"} /\ todo[p] = {} /\ holder' = None
      /\ news' = [news EXCEPT ![p] = None] /\ Go(p, step)
      /\ UNCHANGED <<connections, target, todo, channels, clients, kicked, announced>>
  BY DEF Release
<1>2. /\ p \in Socket => step \in SocketStep
      /\ p \in Logout => step \in LogoutStep /\ p \notin Socket
  BY PresenceAssumption DEF SocketStep, LogoutStep
<1>3. /\ DOMAIN pc' = Tasks /\ pc'[p] = step
      /\ \A x \in Socket : pc'[x] \in SocketStep
      /\ \A l \in Logout : pc'[l] \in LogoutStep
      /\ \A x \in Tasks \ {p} : pc'[x] = pc[x]
  <2> HIDE DEF step
  <2> QED BY <1>1, <1>2, GoKeeps
<1>4. news' \in [Tasks -> News \cup {None}] /\ \A x \in Tasks \ {p} : news'[x] = news[x]
  BY <1>1 DEF TypeOK, Tasks
<1>5. TypeOK' BY <1>1, <1>3, <1>4 DEF TypeOK, channels, clients, Tasks
<1>6. TasksInv' BY <1>1, <1>3, <1>4 DEF TasksInv, Tasks
<1>7. \A x \in Socket : pc'[x] \in Present <=> pc[x] \in Present
  <2>1. p \in Socket => p \notin Logout BY PresenceAssumption
  <2> QED BY <1>1, <1>3, <2>1 DEF Present, Tasks
<1>8. RegistryInv' BY <1>1, <1>7, RegistryUntouched DEF channels
<1> QED BY <1>5, <1>6, <1>8

\* The entry of a user whose task departs is dropped, and he is offline.
LEMMA DropKeeps ==
  ASSUME IndInv, NEW p \in Tasks, NEW u \in DOMAIN connections, DropEntry(u), Departs(p, u)
  PROVE  /\ Agrees' /\ DOMAIN connections' \subseteq User
         /\ DOMAIN connections' = DOMAIN connections \ {u}
         /\ \A v \in DOMAIN connections' : connections'[v] = connections[v]
         /\ \A v \in DOMAIN connections' : connections'[v] \subseteq {x \in Socket : Owner[x] = v}
         /\ announced' \in [User -> Presences]
         /\ news' \in [Tasks -> News \cup {None}] /\ news'[p] \in News
         /\ todo' \in [Tasks -> SUBSET User]
         /\ \A x \in Tasks \ {p} : news'[x] = news[x] /\ todo'[x] = todo[x]
<1> USE DEF IndInv
<1>1. u \in User /\ DOMAIN connections \subseteq User BY DEF TypeOK
<1>2. DOMAIN connections' = DOMAIN connections \ {u} BY DEF DropEntry
<1>3. \A v \in DOMAIN connections' : connections'[v] = connections[v] BY DEF DropEntry
<1>4. Agrees' BY <1>1, <1>2 DEF Departs, RegistryInv, Agrees, TypeOK
<1>5. announced' \in [User -> Presences] BY DEF Departs, TypeOK, Presences
<1>6. [kind |-> "offline", about |-> u] \in News BY <1>1 DEF News, Presences
<1>7. /\ news' \in [Tasks -> News \cup {None}] /\ news'[p] \in News
      /\ \A x \in Tasks \ {p} : news'[x] = news[x]
  BY <1>6 DEF Departs, TypeOK, Tasks
<1>8. /\ todo' \in [Tasks -> SUBSET User] /\ \A x \in Tasks \ {p} : todo'[x] = todo[x]
  BY <1>1 DEF Departs, TypeOK, Tasks
<1> QED BY <1>1, <1>2, <1>3, <1>4, <1>5, <1>7, <1>8 DEF TypeOK

LEMMA UnregisterKeeps ==
  ASSUME IndInv, NEW s \in Socket, Unregister(s)
  PROVE  IndInv'
<1> USE DEF IndInv
<1> DEFINE u == Owner[s]
<1>1. u \in User /\ s \in Tasks /\ s \notin Logout BY PresenceAssumption DEF Tasks
<1>2. /\ pc[s] = "leave" /\ holder' = s /\ Go(s, "departure")
      /\ UNCHANGED <<target, channels, clients, kicked>>
      /\ \/ u \in DOMAIN connections /\ Remaining(s) = {} /\ DropEntry(u) /\ Departs(s, u)
         \/ /\ u \in DOMAIN connections /\ Remaining(s) # {} /\ SetEntry(u, Remaining(s))
            /\ UNCHANGED <<news, announced, todo>>
         \/ u \notin DOMAIN connections /\ UNCHANGED <<connections, news, announced, todo>>
  BY DEF Unregister
<1>3. /\ DOMAIN pc' = Tasks /\ pc'[s] = "departure"
      /\ \A x \in Socket : pc'[x] \in SocketStep
      /\ \A l \in Logout : pc'[l] \in LogoutStep
      /\ \A x \in Tasks \ {s} : pc'[x] = pc[x]
  BY <1>1, <1>2, GoKeeps DEF SocketStep
<1>4. todo[s] = {} BY <1>1, <1>2 DEF TasksInv
<1>5. \A x \in Socket \ {s} : pc'[x] = pc[x] BY <1>3 DEF Tasks
<1>6. s \in Socket /\ pc'[s] \notin Present BY <1>3 DEF Present
<1>7. CASE u \in DOMAIN connections /\ Remaining(s) = {} /\ DropEntry(u) /\ Departs(s, u)
  <2>1. /\ Agrees' /\ DOMAIN connections' \subseteq User
        /\ DOMAIN connections' = DOMAIN connections \ {u}
        /\ \A v \in DOMAIN connections' : connections'[v] = connections[v]
        /\ \A v \in DOMAIN connections' : connections'[v] \subseteq {x \in Socket : Owner[x] = v}
        /\ announced' \in [User -> Presences]
        /\ news' \in [Tasks -> News \cup {None}] /\ news'[s] \in News
        /\ todo' \in [Tasks -> SUBSET User]
        /\ \A x \in Tasks \ {s} : news'[x] = news[x] /\ todo'[x] = todo[x]
    BY <1>1, <1>7, DropKeeps
  <2>2. TypeOK' BY <1>1, <1>2, <1>3, <2>1 DEF TypeOK, channels, clients, Tasks
  <2>3. TasksInv' BY <1>1, <1>2, <1>3, <2>1 DEF TasksInv, Tasks
  <2>4. Members(u) \subseteq {s} BY <1>7 DEF Remaining
  <2>5. \A v \in User : Members(v)' = IF v = u THEN {} ELSE Members(v)
    BY <2>1 DEF Members
  <2>6. Registered'
    BY <1>5, <2>5, PresenceAssumption DEF RegistryInv, Registered
  <2>7. Attended' BY <1>5, <2>1 DEF RegistryInv, Attended
  <2>8. Reachable'
    BY <1>2, <1>5, <1>6, <2>4, <2>5, PresenceAssumption DEF RegistryInv, Reachable, channels
  <2> QED BY <2>1, <2>2, <2>3, <2>6, <2>7, <2>8 DEF RegistryInv
<1>8. CASE /\ u \in DOMAIN connections /\ Remaining(s) # {} /\ SetEntry(u, Remaining(s))
           /\ UNCHANGED <<news, announced, todo>>
  <2>1. DOMAIN connections' = DOMAIN connections BY <1>8 DEF SetEntry
  <2>2. \A v \in DOMAIN connections :
          connections'[v] = IF v = u THEN Members(u) \ {s} ELSE connections[v]
    BY <1>8 DEF SetEntry, Remaining
  <2>3. \A v \in DOMAIN connections' : connections'[v] \subseteq {x \in Socket : Owner[x] = v}
    BY <2>1, <2>2 DEF TypeOK, Members
  <2>4. TypeOK' BY <1>1, <1>2, <1>3, <1>8, <2>1, <2>3 DEF TypeOK, channels, clients, Tasks
  <2>5. TasksInv' BY <1>2, <1>3, <1>4, <1>8 DEF TasksInv, Tasks
  <2>6. \A v \in User : Members(v)' = IF v = u THEN Members(u) \ {s} ELSE Members(v)
    BY <1>1, <1>8, <2>1, <2>2 DEF Members
  <2>7. Agrees' BY <1>8, <2>1 DEF RegistryInv, Agrees
  <2>8. Registered'
    BY <1>5, <2>6, PresenceAssumption DEF RegistryInv, Registered
  <2>9. Attended'
    <3>1. PICK x \in Members(u) : x # s BY <1>8 DEF Remaining
    <3>2. x \in Socket /\ Owner[x] = u BY <3>1 DEF Members, TypeOK
    <3>3. pc'[x] \in Present BY <1>5, <3>1, <3>2 DEF RegistryInv, Registered
    <3> QED BY <1>5, <2>1, <3>2, <3>3 DEF RegistryInv, Attended
  <2>10. Reachable'
    BY <1>2, <1>5, <1>6, <2>6, PresenceAssumption DEF RegistryInv, Reachable, channels
  <2> QED BY <2>4, <2>5, <2>7, <2>8, <2>9, <2>10 DEF RegistryInv
<1>9. CASE u \notin DOMAIN connections /\ UNCHANGED <<connections, news, announced, todo>>
  <2>1. TypeOK' BY <1>1, <1>2, <1>3, <1>9 DEF TypeOK, channels, clients, Tasks
  <2>2. TasksInv' BY <1>2, <1>3, <1>4, <1>9 DEF TasksInv, Tasks
  <2>3. Agrees' BY <1>9 DEF RegistryInv, Agrees
  <2>4. s \notin Members(u) BY <1>9 DEF Members
  <2>5. Registered' BY <1>5, <1>9, <2>4 DEF RegistryInv, Registered, Members
  <2>6. Attended' BY <1>5, <1>9 DEF RegistryInv, Attended
  <2>7. Reachable' BY <1>2, <1>5, <1>6, <1>9 DEF RegistryInv, Reachable, Members, channels
  <2> QED BY <2>1, <2>2, <2>3, <2>5, <2>6, <2>7 DEF RegistryInv
<1> QED BY <1>2, <1>7, <1>8, <1>9

LEMMA FinishKeeps ==
  ASSUME IndInv, NEW s \in Socket, Finish(s)
  PROVE  IndInv'
<1> USE DEF IndInv
<1>1. s \in Tasks /\ s \notin Logout BY PresenceAssumption DEF Tasks
<1>2. /\ pc[s] = "flush" /\ Go(s, "gone") /\ receiving' = receiving \ {s}
      /\ queue' = [queue EXCEPT ![s] = << >>]
      /\ UNCHANGED <<connections, holder, target, news, todo, missed, clients, kicked, announced>>
  BY DEF Finish
<1>3. /\ DOMAIN pc' = Tasks /\ pc'[s] = "gone"
      /\ \A x \in Socket : pc'[x] \in SocketStep
      /\ \A l \in Logout : pc'[l] \in LogoutStep
      /\ \A x \in Tasks \ {s} : pc'[x] = pc[x]
  BY <1>1, <1>2, GoKeeps DEF SocketStep
<1>4. /\ queue' \in [Socket -> Seq(Messages)] /\ \A x \in Socket : Len(queue'[x]) <= Capacity
  <2>1. << >> \in Seq(Messages) /\ Len(<< >>) = 0 BY EmptySeq
  <2>2. 0 <= Capacity BY PresenceAssumption
  <2> QED BY <1>2, <2>1, <2>2 DEF TypeOK
<1>5. TypeOK' BY <1>2, <1>3, <1>4 DEF TypeOK, clients, Tasks
<1>6. TasksInv' BY <1>1, <1>2, <1>3 DEF TasksInv, Tasks
<1>7. RegistryInv' BY <1>1, <1>2, <1>3, RegistryUntouched DEF Present, Tasks
<1> QED BY <1>5, <1>6, <1>7

\* The forward task delivers a message, or ends because it cannot.
LEMMA ForwardKeeps ==
  ASSUME IndInv, NEW s \in Socket, Forward(s)
  PROVE  IndInv'
<1> USE DEF IndInv
<1>1. /\ queue[s] # << >> /\ queue[s] \in Seq(Messages) /\ Len(queue[s]) <= Capacity
      /\ UNCHANGED <<connections, holder, tasks, broken, missed, kicked, announced>>
  BY DEF Forward, TypeOK
<1> DEFINE m == Head(queue[s])
<1>2. /\ m \in Messages /\ Tail(queue[s]) \in Seq(Messages)
      /\ Len(Tail(queue[s])) <= Capacity
  <2>1. /\ m \in Messages /\ Tail(queue[s]) \in Seq(Messages)
        /\ Len(Tail(queue[s])) = Len(queue[s]) - 1
    BY <1>1, HeadTailProperties
  <2>2. Len(queue[s]) \in Nat BY <1>1, LenProperties
  <2> QED BY <1>1, <2>1, <2>2, PresenceAssumption
<1>3. CASE /\ queue' = [queue EXCEPT ![s] = Tail(@)]
           /\ seen' = IF m.kind \in Presences THEN [seen EXCEPT ![s][m.about] = m.kind] ELSE seen
           /\ UNCHANGED receiving
  <2>1. /\ queue' \in [Socket -> Seq(Messages)]
        /\ \A x \in Socket : Len(queue'[x]) <= Capacity
    BY <1>2, <1>3 DEF TypeOK
  <2>2. seen' \in [Socket -> [User -> Presences \cup {"unheard"}]]
    BY <1>2, <1>3 DEF TypeOK
  <2> QED BY <1>1, <1>3, <2>1, <2>2, RegistryUntouched DEF TypeOK, TasksInv, tasks, Tasks
<1>4. CASE /\ queue' = [queue EXCEPT ![s] = << >>] /\ receiving' = receiving \ {s}
           /\ UNCHANGED seen
  <2>1. << >> \in Seq(Messages) /\ Len(<< >>) = 0 BY EmptySeq
  <2>2. 0 <= Capacity BY PresenceAssumption
  <2>3. /\ queue' \in [Socket -> Seq(Messages)]
        /\ \A x \in Socket : Len(queue'[x]) <= Capacity
    BY <1>4, <2>1, <2>2 DEF TypeOK
  <2> QED BY <1>1, <1>4, <2>3, RegistryUntouched DEF TypeOK, TasksInv, tasks, Tasks
<1> QED BY <1>3, <1>4 DEF Forward

\* A push to all sockets of a user.
LEMMA PushKeeps ==
  ASSUME IndInv, NEW u \in User, Push(u)
  PROVE  IndInv'
<1> USE DEF IndInv
<1>1. /\ u \in DOMAIN connections /\ Send(Members(u), Plain("event"))
      /\ SetEntry(u, Kept(Members(u)))
      /\ UNCHANGED <<holder, tasks, clients, kicked, announced>>
  BY DEF Push
<1>2. Plain("event") \in Messages BY DEF Messages
<1>3. /\ queue' \in [Socket -> Seq(Messages)]
      /\ \A x \in Socket : Len(queue'[x]) <= Capacity
      /\ missed' \subseteq Socket /\ receiving' = receiving
  BY <1>1, <1>2, SendKeeps
<1>4. /\ RegistryInv' /\ DOMAIN connections' \subseteq User
      /\ \A v \in DOMAIN connections' : connections'[v] \subseteq {x \in Socket : Owner[x] = v}
  BY <1>1, <1>3, PruneKeeps DEF tasks
<1>5. TypeOK' BY <1>1, <1>3, <1>4 DEF TypeOK, clients, tasks
<1>6. TasksInv' BY <1>1 DEF TasksInv, tasks
<1> QED BY <1>4, <1>5, <1>6

-----------------------------------------------------------------------------
(* Steps of the logouts *)

LEMMA StartLogoutKeeps ==
  ASSUME IndInv, NEW l \in Logout, StartLogout(l)
  PROVE  IndInv'
<1> USE DEF IndInv
<1>1. l \in Tasks /\ l \notin Socket BY PresenceAssumption DEF Tasks
<1>2. /\ pc[l] = "idle" /\ Go(l, "remove")
      /\ UNCHANGED <<connections, holder, news, todo, channels, clients, kicked, announced>>
  BY DEF StartLogout
<1>3. PICK u \in User : target' = [target EXCEPT ![l] = u] BY DEF StartLogout
<1>4. /\ DOMAIN pc' = Tasks /\ pc'[l] = "remove"
      /\ \A x \in Socket : pc'[x] \in SocketStep
      /\ \A x \in Logout : pc'[x] \in LogoutStep
      /\ \A x \in Tasks \ {l} : pc'[x] = pc[x]
  BY <1>1, <1>2, GoKeeps DEF LogoutStep
<1>5. target' \in [Logout -> User \cup {None}] BY <1>3 DEF TypeOK
<1>6. TypeOK' BY <1>2, <1>4, <1>5 DEF TypeOK, channels, clients, Tasks
<1>7. TasksInv'
  <2>1. \A x \in Logout : target'[x] = IF x = l THEN u ELSE target[x] BY <1>3 DEF TypeOK
  <2>2. todo[l] = {} BY <1>1, <1>2 DEF TasksInv
  <2> QED BY <1>2, <1>4, <2>1, <2>2 DEF TasksInv, Tasks
<1>8. \A x \in Socket : pc'[x] = pc[x] BY <1>1, <1>4 DEF Tasks
<1>9. RegistryInv' BY <1>2, <1>8, RegistryUntouched DEF channels
<1> QED BY <1>6, <1>7, <1>9

LEMMA RemoveKeeps ==
  ASSUME IndInv, NEW l \in Logout, Remove(l)
  PROVE  IndInv'
<1> USE DEF IndInv
<1> DEFINE u == target[l]
<1>1. l \in Tasks /\ l \notin Socket BY PresenceAssumption DEF Tasks
<1>2. u \in User BY DEF Remove, TasksInv
<1>3. /\ pc[l] = "remove" /\ target' = [target EXCEPT ![l] = None]
      /\ UNCHANGED <<channels, clients>>
      /\ \/ /\ u \in DOMAIN connections /\ holder' = l /\ kicked' = kicked \cup Members(u)
            /\ DropEntry(u) /\ Departs(l, u) /\ Go(l, "departure")
         \/ /\ u \notin DOMAIN connections /\ Go(l, "idle")
            /\ UNCHANGED <<connections, holder, kicked, news, announced, todo>>
  BY DEF Remove, Told
<1>4. /\ DOMAIN pc' = Tasks /\ pc'[l] \in {"departure", "idle"}
      /\ Go(l, "departure") => pc'[l] = "departure"
      /\ \A x \in Socket : pc'[x] \in SocketStep
      /\ \A x \in Logout : pc'[x] \in LogoutStep
      /\ \A x \in Tasks \ {l} : pc'[x] = pc[x]
  BY <1>1, <1>3, GoKeeps DEF LogoutStep
<1>5. target' \in [Logout -> User \cup {None}] BY <1>3 DEF TypeOK
<1>6. \A x \in Logout \ {l} : target'[x] = target[x] BY <1>3 DEF TypeOK
<1>7. todo[l] = {} BY <1>1, <1>3 DEF TasksInv
<1>8. \A x \in Socket : pc'[x] = pc[x] BY <1>1, <1>4 DEF Tasks
<1>9. CASE /\ u \in DOMAIN connections /\ holder' = l /\ kicked' = kicked \cup Members(u)
           /\ DropEntry(u) /\ Departs(l, u) /\ Go(l, "departure")
  <2>1. /\ Agrees' /\ DOMAIN connections' \subseteq User
        /\ DOMAIN connections' = DOMAIN connections \ {u}
        /\ \A v \in DOMAIN connections' : connections'[v] = connections[v]
        /\ \A v \in DOMAIN connections' : connections'[v] \subseteq {x \in Socket : Owner[x] = v}
        /\ announced' \in [User -> Presences]
        /\ news' \in [Tasks -> News \cup {None}] /\ news'[l] \in News
        /\ todo' \in [Tasks -> SUBSET User]
        /\ \A x \in Tasks \ {l} : news'[x] = news[x] /\ todo'[x] = todo[x]
    <3> HIDE DEF u
    <3> QED BY <1>1, <1>9, DropKeeps
  <2>2. kicked' \subseteq Socket BY <1>9 DEF TypeOK, Members
  <2>3. TypeOK' BY <1>1, <1>3, <1>4, <1>5, <1>9, <2>1, <2>2 DEF TypeOK, channels, clients, Tasks
  <2>4. TasksInv' BY <1>1, <1>4, <1>6, <1>9, <2>1 DEF TasksInv, Tasks
  <2>5. \A v \in User : Members(v)' = IF v = u THEN {} ELSE Members(v)
    BY <2>1 DEF Members
  <2>6. Registered' BY <1>8, <2>5, PresenceAssumption DEF RegistryInv, Registered
  <2>7. Attended' BY <1>8, <2>1 DEF RegistryInv, Attended
  <2>8. Reachable'
    BY <1>3, <1>8, <1>9, <2>5, PresenceAssumption DEF RegistryInv, Reachable, channels
  <2> QED BY <2>1, <2>3, <2>4, <2>6, <2>7, <2>8 DEF RegistryInv
<1>10. CASE /\ u \notin DOMAIN connections /\ Go(l, "idle")
            /\ UNCHANGED <<connections, holder, kicked, news, announced, todo>>
  <2>1. TypeOK' BY <1>3, <1>4, <1>5, <1>10 DEF TypeOK, channels, clients, Tasks
  <2>2. pc'[l] = "idle" BY <1>1, <1>10 DEF Go, TypeOK
  <2>3. TasksInv' BY <1>4, <1>6, <1>7, <1>10, <2>2 DEF TasksInv, Tasks
  <2>4. RegistryInv' BY <1>3, <1>8, <1>10, RegistryUntouched DEF channels
  <2> QED BY <2>1, <2>3, <2>4
<1> QED BY <1>3, <1>9, <1>10

-----------------------------------------------------------------------------
LEMMA InitHolds == Init => IndInv
<1> SUFFICES ASSUME Init PROVE IndInv OBVIOUS
<1> USE DEF Init
<1>1. DOMAIN connections = {} OBVIOUS
<1>2. \A s \in Socket : s \notin Logout /\ pc[s] = "closed" BY PresenceAssumption
<1>3. \A l \in Logout : l \notin Socket /\ pc[l] = "idle" BY PresenceAssumption
<1>4. << >> \in Seq(Messages) /\ Len(<< >>) = 0 BY EmptySeq
<1>5. queue \in [Socket -> Seq(Messages)] /\ \A s \in Socket : Len(queue[s]) <= Capacity
  <2>1. 0 <= Capacity BY PresenceAssumption
  <2> QED BY <1>4, <2>1
<1>6. TypeOK
  BY <1>1, <1>2, <1>3, <1>5 DEF TypeOK, SocketStep, LogoutStep, Presences
<1>7. TasksInv BY <1>3 DEF TasksInv, Tasks
<1>8. RegistryInv
  BY <1>1, <1>2 DEF RegistryInv, Agrees, Registered, Attended, Reachable, Members, Present
<1> QED BY <1>6, <1>7, <1>8 DEF IndInv

LEMMA StutterKeeps == IndInv /\ UNCHANGED vars => IndInv'
<1> SUFFICES ASSUME IndInv, UNCHANGED vars PROVE IndInv' OBVIOUS
<1> USE DEF vars, tasks, channels, clients
<1>1. TypeOK' BY DEF IndInv, TypeOK
<1>2. TasksInv' BY DEF IndInv, TasksInv
<1>3. RegistryInv' BY RegistryUntouched DEF IndInv
<1> QED BY <1>1, <1>2, <1>3 DEF IndInv

LEMMA NextKeeps == IndInv /\ Next => IndInv'
<1> SUFFICES ASSUME IndInv, Next PROVE IndInv' OBVIOUS
<1>1. ASSUME NEW s \in Socket,
             \/ SocketWork(s) \/ Forward(s) \/ Accept(s) \/ Authenticate(s)
             \/ Reply(s) \/ Leave(s) \/ Break(s)
      PROVE  IndInv'
  <2>1. s \in Tasks BY DEF Tasks
  <2> QED BY <1>1, <2>1, ClientStepKeeps, RegisterKeeps, GreetKeeps, VisitKeeps, ReleaseKeeps,
             UnregisterKeeps, FinishKeeps, ForwardKeeps DEF SocketWork
<1>2. ASSUME NEW l \in Logout, StartLogout(l) \/ LogoutWork(l) PROVE IndInv'
  <2>1. l \in Tasks BY DEF Tasks
  <2> QED BY <1>2, <2>1, StartLogoutKeeps, RemoveKeeps, VisitKeeps, ReleaseKeeps DEF LogoutWork
<1> QED BY <1>1, <1>2, PushKeeps DEF Next

\* The registry, the announcements and the sockets stay in step.
THEOREM RegistryStaysSound == Spec => []IndInv
<1>1. IndInv /\ [Next]_vars => IndInv' BY NextKeeps, StutterKeeps
<1> QED BY InitHolds, <1>1, PTL DEF Spec

\* Registry, queues and tasks stay well formed, no queue beyond its capacity.
THEOREM WellFormed == Spec => []TypeOK
<1>1. IndInv => TypeOK BY DEF IndInv
<1> QED BY RegistryStaysSound, <1>1, PTL

\* What was last announced about a user is what the registry says.
THEOREM AnnouncementsAgree == Spec => []BroadcastsMatchRegistry
<1>1. IndInv => BroadcastsMatchRegistry
  BY DEF IndInv, RegistryInv, Agrees, BroadcastsMatchRegistry
<1> QED BY RegistryStaysSound, <1>1, PTL

\* When the last socket of a user has left, he has been announced offline,
\* even if a push or a broadcast had emptied his entry before.
THEOREM LastDepartureAnnounced == Spec => []OfflineAfterLast
<1>1. IndInv => OfflineAfterLast
  <2> SUFFICES ASSUME IndInv, NEW u \in User,
                      \A s \in Socket : Owner[s] = u =>
                          pc[s] \in {"closed", "hello", "join", "flush", "gone"}
               PROVE  announced[u] = "offline"
    BY DEF OfflineAfterLast
  <2>1. u \notin DOMAIN connections BY DEF IndInv, RegistryInv, Attended, Present
  <2> QED BY <2>1 DEF IndInv, RegistryInv, Agrees, TypeOK, Presences
<1> QED BY RegistryStaysSound, <1>1, PTL

\* A socket that serves stays registered until its queue is closed or a logout
\* has told it to end.
THEOREM LiveSocketsStay == Spec => []LiveSocketsReachable
<1>1. IndInv => LiveSocketsReachable
  BY DEF IndInv, RegistryInv, Reachable, LiveSocketsReachable, Present
<1> QED BY RegistryStaysSound, <1>1, PTL

-----------------------------------------------------------------------------
(* What a client will have heard when its queue has been delivered *)

LEMMA LeastNumber ==
  ASSUME NEW T \in SUBSET Nat, T # {}
  PROVE  \E m \in T : \A n \in T : m <= n
<1> DEFINE R == {p \in Nat \X Nat : p[1] < p[2]}
<1>1. OpToRel(<, Nat) = R BY DEF OpToRel
<1>2. IsWellFoundedOn(R, Nat) BY <1>1, NatLessThanWellFounded
<1>3. PICK m \in T : \A n \in T : <<n, m>> \notin R
  BY <1>2, WFMin
<1>4. \A n \in T : ~(n < m) BY <1>3
<1> QED BY <1>4

LEMMA LastIndex ==
  ASSUME NEW n \in Nat, NEW S \in SUBSET (1 .. n), S # {}
  PROVE  \E i \in S : \A j \in S : j <= i
<1> DEFINE T == {k \in Nat : n - k \in S}
<1>1. T # {}
  <2>1. PICK i \in S : TRUE OBVIOUS
  <2>2. n - i \in Nat /\ n - (n - i) = i BY <2>1
  <2> QED BY <2>1, <2>2
<1>2. PICK m \in T : \A k \in T : m <= k BY <1>1, LeastNumber
<1>3. ASSUME NEW j \in S PROVE j <= n - m
  <2>1. n - j \in Nat /\ n - (n - j) = j OBVIOUS
  <2>2. m <= n - j BY <1>2, <2>1
  <2> QED BY <1>2, <2>2
<1> QED BY <1>2, <1>3

\* Where a queue speaks of u.
About(q, u) == {i \in 1 .. Len(q) : q[i].kind \in Presences /\ q[i].about = u}

LEMMA HeardIs ==
  ASSUME NEW q \in Seq(Messages), NEW before, NEW u \in User
  PROVE  /\ About(q, u) = {} => Heard(q, before, u) = before
         /\ \A i \in About(q, u) :
               (\A j \in About(q, u) : j <= i) => Heard(q, before, u) = q[i].kind
         /\ About(q, u) # {} => \E i \in About(q, u) : \A j \in About(q, u) : j <= i
<1> DEFINE A == About(q, u)
<1>1. Len(q) \in Nat /\ A \subseteq 1 .. Len(q) BY LenProperties DEF About
<1>2. Heard(q, before, u) =
        IF A = {} THEN before ELSE q[CHOOSE i \in A : \A j \in A : j <= i].kind
  BY DEF Heard, About
<1>3. ASSUME NEW i \in A, \A j \in A : j <= i
      PROVE  i = CHOOSE x \in A : \A j \in A : j <= x
  <2>1. \A x \in A : (\A j \in A : j <= x) => x = i BY <1>1, <1>3
  <2> QED BY <1>3, <2>1
<1>4. A # {} => \E i \in A : \A j \in A : j <= i
  <2> HIDE DEF A
  <2> QED BY <1>1, LastIndex
<1> HIDE DEF A
<1>5. \A i \in A : (\A j \in A : j <= i) => Heard(q, before, u) = q[i].kind
  BY <1>2, <1>3
<1> QED BY <1>2, <1>4, <1>5 DEF A

\* A message at the end of the queue counts if it speaks of u.
LEMMA HeardAppend ==
  ASSUME NEW q \in Seq(Messages), NEW m \in Messages, NEW before, NEW u \in User
  PROVE  Heard(Append(q, m), before, u) =
            IF m.kind \in Presences /\ m.about = u THEN m.kind ELSE Heard(q, before, u)
<1> DEFINE r == Append(q, m)
           n == Len(q)
<1>1. /\ r \in Seq(Messages) /\ Len(r) = n + 1 /\ n \in Nat
      /\ \A i \in 1 .. n : r[i] = q[i]
      /\ r[n + 1] = m
  BY AppendProperties, LenProperties
<1> HIDE DEF r
<1>2. CASE m.kind \in Presences /\ m.about = u
  <2>1. n + 1 \in About(r, u) /\ \A j \in About(r, u) : j <= n + 1
    BY <1>1, <1>2 DEF About
  <2>2. Heard(r, before, u) = r[n + 1].kind BY <1>1, <2>1, HeardIs
  <2> QED BY <1>1, <1>2, <2>2 DEF r
<1>3. CASE ~(m.kind \in Presences /\ m.about = u)
  <2>1. About(r, u) = About(q, u) BY <1>1, <1>3 DEF About
  <2>2. CASE About(q, u) = {}
    <3>1. Heard(r, before, u) = before BY <1>1, <2>1, <2>2, HeardIs
    <3>2. Heard(q, before, u) = before BY <2>2, HeardIs
    <3> QED BY <1>3, <3>1, <3>2 DEF r
  <2>3. CASE About(q, u) # {}
    <3>1. PICK i \in About(q, u) : \A j \in About(q, u) : j <= i BY <2>3, HeardIs
    <3>2. Heard(q, before, u) = q[i].kind BY <3>1, HeardIs
    <3>3. Heard(r, before, u) = r[i].kind BY <1>1, <2>1, <3>1, HeardIs
    <3>4. r[i] = q[i] BY <1>1, <3>1 DEF About
    <3> QED BY <1>3, <3>2, <3>3, <3>4 DEF r
  <2> QED BY <2>2, <2>3
<1> QED BY <1>2, <1>3

\* Delivering the first message changes nothing of what will have been heard.
LEMMA HeardNext ==
  ASSUME NEW q \in Seq(Messages), q # << >>, NEW before, NEW u \in User
  PROVE  LET m == Head(q)
         IN  Heard(Tail(q), IF m.kind \in Presences /\ m.about = u THEN m.kind ELSE before, u)
                = Heard(q, before, u)
<1> DEFINE m == Head(q)
           r == Tail(q)
           then == IF m.kind \in Presences /\ m.about = u THEN m.kind ELSE before
<1>1. /\ r \in Seq(Messages) /\ Len(r) = Len(q) - 1 /\ Len(q) \in Nat \ {0}
      /\ \A i \in 1 .. Len(r) : r[i] = q[i + 1]
      /\ m = q[1]
  BY HeadTailProperties, LenProperties, EmptySeq
<1> HIDE DEF r, m
<1>2. \A i \in 1 .. Len(r) : i \in About(r, u) <=> i + 1 \in About(q, u)
  BY <1>1 DEF About
<1>3. CASE About(r, u) # {}
  <2>1. PICK i \in About(r, u) : \A j \in About(r, u) : j <= i BY <1>1, <1>3, HeardIs
  <2>2. i \in 1 .. Len(r) BY <2>1 DEF About
  <2>3. ASSUME NEW j \in About(q, u) PROVE j <= i + 1
    <3>1. j \in 1 .. Len(q) BY DEF About
    <3>2. CASE j = 1 BY <2>2, <3>2
    <3>3. CASE j # 1
      <4>1. j - 1 \in 1 .. Len(r) /\ (j - 1) + 1 = j BY <1>1, <3>1, <3>3
      <4>2. j - 1 \in About(r, u) BY <1>2, <4>1
      <4>3. j - 1 <= i BY <2>1, <4>2
      <4> QED BY <2>2, <3>1, <4>3
    <3> QED BY <3>2, <3>3
  <2>4. i + 1 \in About(q, u) BY <1>2, <2>1, <2>2
  <2>5. Heard(q, before, u) = q[i + 1].kind BY <2>3, <2>4, HeardIs
  <2>6. Heard(r, then, u) = r[i].kind BY <1>1, <2>1, HeardIs
  <2> QED BY <1>1, <2>2, <2>5, <2>6 DEF r, m
<1>4. CASE About(r, u) = {}
  <2>1. Heard(r, then, u) = then BY <1>1, <1>4, HeardIs
  <2>2. About(q, u) \subseteq {1}
    <3>1. ASSUME NEW j \in About(q, u), j # 1 PROVE FALSE
      <4>1. j - 1 \in 1 .. Len(r) /\ (j - 1) + 1 = j BY <1>1, <3>1 DEF About
      <4> QED BY <1>2, <1>4, <4>1
    <3> QED BY <3>1
  <2>3. 1 \in About(q, u) <=> m.kind \in Presences /\ m.about = u BY <1>1 DEF About
  <2>4. Heard(q, before, u) = then
    <3>1. CASE 1 \in About(q, u)
      <4>1. Heard(q, before, u) = q[1].kind BY <2>2, <3>1, HeardIs
      <4> QED BY <1>1, <2>3, <3>1, <4>1
    <3>2. CASE 1 \notin About(q, u)
      <4>1. About(q, u) = {} BY <2>2, <3>2
      <4> QED BY <2>3, <3>2, <4>1, HeardIs
    <3> QED BY <3>1, <3>2
  <2> QED BY <2>1, <2>4 DEF r, m
<1> QED BY <1>3, <1>4

-----------------------------------------------------------------------------
(* The mutex and the news *)

\* From the first to the last step of a transition.
Transition == {"greet", "arrival", "departure"}
MutexInv == \A p \in Tasks : pc[p] \in Transition <=> holder = p

\* Only who holds the mutex has news.
NewsInv == \A p \in Tasks : news[p] # None => holder = p

\* A socket that has not been registered has been told nothing.
Unregistered == {"closed", "hello", "join"}
FreshInv ==
    \A s \in Socket : pc[s] \in Unregistered =>
        /\ queue[s] = << >> /\ s \notin missed
        /\ seen[s] = [u \in User |-> "unheard"]
        /\ pc[s] # "closed" => s \in receiving

BroadcastInv == MutexInv /\ NewsInv /\ FreshInv

LEMMA FreshStays ==
  ASSUME FreshInv,
         \A s \in Socket : pc'[s] \in Unregistered =>
            /\ pc[s] \in Unregistered /\ queue'[s] = queue[s] /\ seen'[s] = seen[s]
            /\ s \in missed' => s \in missed
            /\ s \in receiving => s \in receiving'
            /\ pc'[s] # "closed" => pc[s] # "closed" \/ s \in receiving'
  PROVE  FreshInv'
BY DEF FreshInv

\* A message to those of S leaves the other queues alone.
LEMMA SendElsewhere ==
  ASSUME NEW S, NEW m, NEW s \in Socket \ S, TypeOK, Send(S, m)
  PROVE  queue'[s] = queue[s] /\ (s \in missed' => s \in missed) /\ receiving' = receiving
BY DEF Send, TypeOK

\* A step of the clients neither takes nor gives the mutex.
LEMMA ClientStepOrdered ==
  ASSUME IndInv, BroadcastInv, NEW s \in Socket,
         Accept(s) \/ Authenticate(s) \/ Refuse(s) \/ Quit(s) \/ Leave(s) \/ Reply(s) \/ Break(s)
  PROVE  BroadcastInv'
<1> USE DEF IndInv, BroadcastInv
<1>1. s \in Tasks /\ s \notin Logout BY PresenceAssumption DEF Tasks
<1>2. /\ UNCHANGED <<holder, news, seen>>
      /\ \A x \in Socket \ {s} : x \in receiving => x \in receiving'
  BY DEF Accept, Authenticate, Refuse, Quit, Leave, Reply, Break, clients, tasks, channels, Send
<1>3. \/ UNCHANGED pc
      \/ \E step \in SocketStep :
            /\ Go(s, step) /\ pc[s] \notin Transition /\ step \notin Transition
            /\ step \in Unregistered => pc[s] \in Unregistered
  <2>1. CASE Accept(s) \/ Authenticate(s)
    BY <2>1 DEF Accept, Authenticate, SocketStep, Transition, Unregistered
  <2>2. CASE Refuse(s) \/ Quit(s) \/ Leave(s)
    BY <2>2 DEF Refuse, Quit, Leave, SocketStep, Transition, Unregistered
  <2>3. CASE Reply(s) \/ Break(s) BY <2>3 DEF Reply, Break, tasks
  <2> QED BY <2>1, <2>2, <2>3
<1>4. /\ \A x \in Tasks \ {s} : pc'[x] = pc[x]
      /\ \/ pc'[s] = pc[s]
         \/ pc[s] \notin Transition /\ pc'[s] \notin Transition
      /\ pc'[s] \in Unregistered => pc[s] \in Unregistered
  <2>1. CASE UNCHANGED pc BY <2>1
  <2>2. ASSUME NEW step \in SocketStep, Go(s, step)
        PROVE  pc'[s] = step /\ \A x \in Tasks \ {s} : pc'[x] = pc[x]
    BY <1>1, <2>2, GoKeeps
  <2> QED BY <1>3, <2>1, <2>2
<1>5. MutexInv' BY <1>1, <1>2, <1>4 DEF MutexInv
<1>6. NewsInv' BY <1>2 DEF NewsInv
<1>7. \A x \in Socket \ {s} : queue'[x] = queue[x] /\ (x \in missed' => x \in missed)
  <2>1. CASE Accept(s) \/ Authenticate(s) \/ Quit(s) \/ Break(s)
    BY <2>1 DEF Accept, Authenticate, Quit, Break, channels
  <2>2. CASE Refuse(s) \/ Leave(s) \/ Reply(s)
    BY <2>2, SendElsewhere DEF Refuse, Leave, Reply, channels
  <2> QED BY <2>1, <2>2
<1>8. pc'[s] \in Unregistered =>
        /\ queue'[s] = queue[s] /\ (s \in missed' => s \in missed)
        /\ s \in receiving => s \in receiving'
        /\ pc'[s] # "closed" => pc[s] # "closed" \/ s \in receiving'
  <2>1. CASE Accept(s) BY <2>1 DEF Accept
  <2>2. CASE Authenticate(s) \/ Break(s)
    BY <1>1, <2>2 DEF Authenticate, Break, channels, tasks
  <2>3. CASE Refuse(s) \/ Quit(s) \/ Leave(s) \/ Reply(s)
    BY <1>1, <2>3 DEF Refuse, Quit, Leave, Reply, Go, tasks, Unregistered, TypeOK
  <2> QED BY <2>1, <2>2, <2>3
<1>9. FreshInv'
  <2>1. \A x \in Socket \ {s} : x \in Tasks BY DEF Tasks
  <2> QED BY <1>2, <1>4, <1>7, <1>8, <2>1, FreshStays
<1> QED BY <1>5, <1>6, <1>9

\* The mutex is taken by a task that has no news, or gets its own.
LEMMA MutexTaken ==
  ASSUME MutexInv, NewsInv, NEW p \in Tasks, holder = None, holder' = p,
         pc'[p] \in Transition, \A x \in Tasks \ {p} : pc'[x] = pc[x] /\ news'[x] = news[x]
  PROVE  MutexInv' /\ NewsInv'
<1>1. \A x \in Tasks : pc[x] \notin Transition /\ news[x] = None
  BY PresenceAssumption DEF MutexInv, NewsInv, Tasks
<1> QED BY <1>1 DEF MutexInv, NewsInv

LEMMA RegisterOrdered ==
  ASSUME IndInv, BroadcastInv, NEW s \in Socket, Register(s)
  PROVE  BroadcastInv'
<1> USE DEF IndInv, BroadcastInv
<1>1. s \in Tasks /\ s \notin Logout BY PresenceAssumption DEF Tasks
<1>2. /\ holder = None /\ holder' = s /\ Go(s, "greet") /\ UNCHANGED <<channels, clients>>
      /\ \A x \in Tasks \ {s} : news'[x] = news[x]
  BY <1>1 DEF Register, Available, TypeOK, Tasks
<1>3. pc'[s] = "greet" /\ \A x \in Tasks \ {s} : pc'[x] = pc[x]
  BY <1>1, <1>2, GoKeeps DEF SocketStep
<1>4. MutexInv' /\ NewsInv' BY <1>1, <1>2, <1>3, MutexTaken DEF Transition
<1>5. FreshInv'
  BY <1>1, <1>2, <1>3, FreshStays DEF Unregistered, channels, clients, Tasks
<1> QED BY <1>4, <1>5

LEMMA UnregisterOrdered ==
  ASSUME IndInv, BroadcastInv, NEW s \in Socket, Unregister(s)
  PROVE  BroadcastInv'
<1> USE DEF IndInv, BroadcastInv
<1>1. s \in Tasks /\ s \notin Logout BY PresenceAssumption DEF Tasks
<1>2. /\ holder = None /\ holder' = s /\ Go(s, "departure") /\ UNCHANGED <<channels, clients>>
      /\ \A x \in Tasks \ {s} : news'[x] = news[x]
  BY <1>1 DEF Unregister, Departs, Available, TypeOK, Tasks
<1>3. pc'[s] = "departure" /\ \A x \in Tasks \ {s} : pc'[x] = pc[x]
  BY <1>1, <1>2, GoKeeps DEF SocketStep
<1>4. MutexInv' /\ NewsInv' BY <1>1, <1>2, <1>3, MutexTaken DEF Transition
<1>5. FreshInv'
  BY <1>1, <1>2, <1>3, FreshStays DEF Unregistered, channels, clients, Tasks
<1> QED BY <1>4, <1>5

LEMMA GreetOrdered ==
  ASSUME IndInv, BroadcastInv, NEW s \in Socket, Greet(s)
  PROVE  BroadcastInv'
<1> USE DEF IndInv, BroadcastInv
<1>1. s \in Tasks /\ s \notin Logout BY PresenceAssumption DEF Tasks
<1>2. /\ pc[s] = "greet" /\ Go(s, "arrival") /\ Send({s}, Plain("auth_ok"))
      /\ UNCHANGED <<holder, news, seen>>
  BY DEF Greet, clients
<1>3. pc'[s] = "arrival" /\ \A x \in Tasks \ {s} : pc'[x] = pc[x]
  BY <1>1, <1>2, GoKeeps DEF SocketStep
<1>4. MutexInv' /\ NewsInv' BY <1>1, <1>2, <1>3 DEF MutexInv, NewsInv, Transition
<1>5. FreshInv'
  <2>1. ASSUME NEW x \in Socket, pc'[x] \in Unregistered PROVE x # s /\ pc'[x] = pc[x]
    BY <1>3, <2>1 DEF Unregistered, Tasks
  <2>2. \A x \in Socket \ {s} : /\ queue'[x] = queue[x] /\ (x \in missed' => x \in missed)
                                /\ receiving' = receiving
    BY <1>2, SendElsewhere
  <2> QED BY <1>2, <2>1, <2>2, FreshStays
<1> QED BY <1>4, <1>5

\* Whoever is in an entry has been registered.
LEMMA MembersRegistered ==
  ASSUME IndInv, NEW u \in User, NEW s \in Members(u)
  PROVE  s \in Socket /\ Owner[s] = u /\ pc[s] \in Present
<1>1. s \in Socket /\ Owner[s] = u BY DEF IndInv, TypeOK, Members
<1> QED BY <1>1 DEF IndInv, RegistryInv, Registered

LEMMA BroadcastElsewhere ==
  ASSUME IndInv, NEW u \in User, NEW m, Send(Members(u), m), NEW s \in Socket,
         pc[s] \in Unregistered
  PROVE  queue'[s] = queue[s] /\ (s \in missed' => s \in missed) /\ receiving' = receiving
<1>1. s \notin Members(u) BY MembersRegistered DEF Present, Unregistered
<1> QED BY <1>1, SendElsewhere DEF IndInv

LEMMA VisitOrdered ==
  ASSUME IndInv, BroadcastInv, NEW p \in Tasks, Visit(p)
  PROVE  BroadcastInv'
<1> USE DEF IndInv, BroadcastInv
<1>1. PICK v \in todo[p] :
        /\ Send(Members(v), news[p])
        /\ UNCHANGED <<holder, pc, target, news, clients, kicked, announced>>
  BY DEF Visit
<1>2. v \in User BY <1>1 DEF TypeOK, Tasks
<1>3. MutexInv' /\ NewsInv' BY <1>1 DEF MutexInv, NewsInv
<1>4. FreshInv' BY <1>1, <1>2, BroadcastElsewhere, FreshStays DEF clients
<1> QED BY <1>3, <1>4

LEMMA PushOrdered ==
  ASSUME IndInv, BroadcastInv, NEW u \in User, Push(u)
  PROVE  BroadcastInv'
<1> USE DEF IndInv, BroadcastInv
<1>1. Send(Members(u), Plain("event")) /\ UNCHANGED <<holder, tasks, clients, kicked, announced>>
  BY DEF Push
<1>2. MutexInv' /\ NewsInv' BY <1>1 DEF MutexInv, NewsInv, tasks
<1>3. FreshInv' BY <1>1, BroadcastElsewhere, FreshStays DEF clients, tasks
<1> QED BY <1>2, <1>3

\* Whoever releases the mutex leaves no news behind.
LEMMA ReleaseOrdered ==
  ASSUME IndInv, BroadcastInv, NEW p \in Tasks, Release(p)
  PROVE  BroadcastInv'
<1> USE DEF IndInv, BroadcastInv
<1> DEFINE step == IF p \in Logout THEN "idle"
                   ELSE IF pc[p] = "arrival" THEN "serving" ELSE "flush"
<1>1. /\ pc[p] \in {"arrival", "departure"} /\ holder' = None
      /\ news' = [news EXCEPT ![p] = None] /\ Go(p, step)
      /\ UNCHANGED <<channels, clients>>
  BY DEF Release
<1>2. /\ pc'[p] = step /\ \A x \in Tasks \ {p} : pc'[x] = pc[x]
  <2>1. DOMAIN pc = Tasks BY DEF TypeOK, Tasks
  <2> HIDE DEF step
  <2> QED BY <1>1, <2>1 DEF Go
<1>3. holder = p BY <1>1 DEF MutexInv, Transition
<1>4. \A x \in Tasks : news'[x] = None
  BY <1>1, <1>3 DEF NewsInv, TypeOK, Tasks
<1>5. \A x \in Tasks : pc'[x] \notin Transition
  BY <1>2, <1>3 DEF MutexInv, Transition
<1>6. MutexInv' /\ NewsInv' BY <1>1, <1>4, <1>5, PresenceAssumption DEF MutexInv, NewsInv, Tasks
<1>7. FreshInv'
  BY <1>1, <1>2, FreshStays DEF Unregistered, channels, clients, Tasks
<1> QED BY <1>6, <1>7

LEMMA FinishOrdered ==
  ASSUME IndInv, BroadcastInv, NEW s \in Socket, Finish(s)
  PROVE  BroadcastInv'
<1> USE DEF IndInv, BroadcastInv
<1>1. s \in Tasks /\ s \notin Logout BY PresenceAssumption DEF Tasks
<1>2. /\ pc[s] = "flush" /\ Go(s, "gone") /\ UNCHANGED <<holder, news, missed, seen>>
      /\ \A x \in Socket \ {s} : queue'[x] = queue[x] /\ (x \in receiving => x \in receiving')
  BY DEF Finish, clients, TypeOK
<1>3. pc'[s] = "gone" /\ \A x \in Tasks \ {s} : pc'[x] = pc[x]
  BY <1>1, <1>2, GoKeeps DEF SocketStep
<1>4. MutexInv' /\ NewsInv' BY <1>1, <1>2, <1>3 DEF MutexInv, NewsInv, Transition
<1>5. FreshInv' BY <1>1, <1>2, <1>3, FreshStays DEF Unregistered, Tasks
<1> QED BY <1>4, <1>5

\* A queue that forwards a message is no fresh one.
LEMMA ForwardOrdered ==
  ASSUME IndInv, BroadcastInv, NEW s \in Socket, Forward(s)
  PROVE  BroadcastInv'
<1> USE DEF IndInv, BroadcastInv
<1>1. /\ queue[s] # << >> /\ UNCHANGED <<holder, tasks, missed>>
      /\ \A x \in Socket \ {s} : /\ queue'[x] = queue[x] /\ seen'[x] = seen[x]
                                 /\ x \in receiving => x \in receiving'
  BY DEF Forward, TypeOK
<1>2. MutexInv' /\ NewsInv' BY <1>1 DEF MutexInv, NewsInv, tasks
<1>3. pc[s] \notin Unregistered BY <1>1 DEF FreshInv
<1>4. FreshInv' BY <1>1, <1>3, FreshStays DEF tasks
<1> QED BY <1>2, <1>4

LEMMA LogoutOrdered ==
  ASSUME IndInv, BroadcastInv, NEW l \in Logout, StartLogout(l) \/ Remove(l)
  PROVE  BroadcastInv'
<1> USE DEF IndInv, BroadcastInv
<1>1. l \in Tasks /\ l \notin Socket BY PresenceAssumption DEF Tasks
<1>2. UNCHANGED <<channels, clients>> BY DEF StartLogout, Remove
<1>3. PICK step \in LogoutStep :
        /\ Go(l, step)
        /\ \/ /\ step = "departure" /\ holder = None /\ holder' = l
              /\ \A x \in Tasks \ {l} : news'[x] = news[x]
           \/ /\ step \notin Transition /\ pc[l] \notin Transition
              /\ UNCHANGED <<holder, news>>
  <2>1. CASE StartLogout(l) BY <2>1 DEF StartLogout, LogoutStep, Transition
  <2>2. CASE Remove(l)
    BY <1>1, <2>2 DEF Remove, Departs, Available, LogoutStep, Transition, TypeOK, Tasks
  <2> QED BY <2>1, <2>2
<1>4. pc'[l] = step /\ \A x \in Tasks \ {l} : pc'[x] = pc[x] BY <1>1, <1>3, GoKeeps
<1>5. MutexInv' /\ NewsInv'
  <2>1. CASE step = "departure" /\ holder = None /\ holder' = l
             /\ \A x \in Tasks \ {l} : news'[x] = news[x]
    BY <1>1, <1>4, <2>1, MutexTaken DEF Transition
  <2>2. CASE step \notin Transition /\ pc[l] \notin Transition /\ UNCHANGED <<holder, news>>
    BY <1>1, <1>4, <2>2 DEF MutexInv, NewsInv
  <2> QED BY <1>3, <2>1, <2>2
<1>6. \A x \in Socket : pc'[x] = pc[x] BY <1>1, <1>4 DEF Tasks
<1>7. FreshInv' BY <1>2, <1>6, FreshStays DEF channels, clients
<1> QED BY <1>5, <1>7

LEMMA BroadcastInit == Init => BroadcastInv
<1> SUFFICES ASSUME Init PROVE BroadcastInv OBVIOUS
<1>1. \A p \in Tasks : pc[p] \in {"closed", "idle"} /\ p # None /\ news[p] = None
  BY PresenceAssumption DEF Init, Tasks
<1>2. MutexInv /\ NewsInv BY <1>1 DEF Init, MutexInv, NewsInv, Transition
<1>3. FreshInv BY DEF Init, FreshInv
<1> QED BY <1>2, <1>3 DEF BroadcastInv

LEMMA NextOrdered == IndInv /\ BroadcastInv /\ [Next]_vars => BroadcastInv'
<1> SUFFICES ASSUME IndInv, BroadcastInv, [Next]_vars PROVE BroadcastInv' OBVIOUS
<1>1. ASSUME NEW s \in Socket,
             \/ SocketWork(s) \/ Forward(s) \/ Accept(s) \/ Authenticate(s)
             \/ Reply(s) \/ Leave(s) \/ Break(s)
      PROVE  BroadcastInv'
  <2>1. s \in Tasks BY DEF Tasks
  <2> QED BY <1>1, <2>1, ClientStepOrdered, RegisterOrdered, GreetOrdered, VisitOrdered,
             ReleaseOrdered, UnregisterOrdered, FinishOrdered, ForwardOrdered DEF SocketWork
<1>2. ASSUME NEW l \in Logout, StartLogout(l) \/ LogoutWork(l) PROVE BroadcastInv'
  <2>1. l \in Tasks BY DEF Tasks
  <2> QED BY <1>2, <2>1, LogoutOrdered, VisitOrdered, ReleaseOrdered DEF LogoutWork
<1>3. CASE UNCHANGED vars
  BY <1>3 DEF vars, tasks, channels, clients, BroadcastInv, MutexInv, NewsInv, FreshInv
<1> QED BY <1>1, <1>2, <1>3, PushOrdered DEF Next

\* Broadcasts exclude each other, and nobody is told anything before he joins.
THEOREM BroadcastsExclude == Spec => []BroadcastInv
<1> QED BY BroadcastInit, NextOrdered, RegistryStaysSound, PTL DEF Spec

-----------------------------------------------------------------------------
(* Sockets, queues and broadcasts implement the service *)

Sound == IndInv /\ BroadcastInv

LEMMA KnownIs ==
  /\ DOMAIN Known = Listening
  /\ \A s \in Listening : DOMAIN Known[s] = User
  /\ \A s \in Listening, u \in User : Known[s][u] = LastHeard(s, u)
  /\ Untold \subseteq Listening
BY DEF Known, Untold

\* Two listeners that know the same of every user know the same.
LEMMA SameKnowledge ==
  ASSUME NEW s \in Listening, s \in Listening',
         \A u \in User : LastHeard(s, u)' = LastHeard(s, u)
  PROVE  Known'[s] = Known[s]
<1>1. Known[s] = [u \in User |-> LastHeard(s, u)] BY DEF Known
<1>2. Known'[s] = [u \in User |-> LastHeard(s, u)'] BY DEF Known
<1> QED BY <1>1, <1>2

\* Most steps only let some stop listening, or nothing at all.
LEMMA SomeGo ==
  ASSUME announced' = announced, Current' = Current,
         Listening' \subseteq Listening,
         \A s \in Listening', u \in User : LastHeard(s, u)' = LastHeard(s, u),
         Untold' = Untold \cap Listening'
  PROVE  Service!ServiceNext
<1> DEFINE S == Listening \ Listening'
<1>1. S \in SUBSET Service!Audience BY KnownIs DEF Service!Audience
<1>2. Untold' = Untold \ S BY KnownIs
<1>3. Known' = [x \in Listening \ S |-> Known[x]]
  <2>1. Listening \ S = Listening' OBVIOUS
  <2>2. Known' = [x \in Listening' |-> Known'[x]] BY DEF Known
  <2>3. \A x \in Listening' : Known'[x] = Known[x] BY SameKnowledge
  <2> QED BY <2>1, <2>2, <2>3
<1>4. Service!Go(S)
  BY <1>2, <1>3, KnownIs DEF Service!Go, Service!Audience
<1> QED BY <1>1, <1>4 DEF Service!ServiceNext

\* A step beside the transition under way, if there is one.
LEMMA BesideTransition ==
  ASSUME announced' = announced, holder' = holder,
         holder # None => /\ news'[holder] = news[holder] /\ todo'[holder] = todo[holder]
                          /\ pc'[holder] = pc[holder],
         Listening' \subseteq Listening,
         \A s \in Listening', u \in User : LastHeard(s, u)' = LastHeard(s, u)
  PROVE  Service!ServiceNext
<1>1. Current' = Current BY DEF Current
<1>2. Untold' = Untold \cap Listening'
  <2>1. CASE Current = None BY <1>1, <2>1 DEF Untold
  <2>2. CASE Current # None
    <3>1. holder # None BY <2>2 DEF Current
    <3>2. CASE pc[holder] = "greet" BY <1>1, <2>2, <3>1, <3>2 DEF Untold
    <3>3. CASE pc[holder] # "greet" BY <1>1, <2>2, <3>1, <3>3 DEF Untold
    <3> QED BY <3>2, <3>3
  <2> QED BY <2>1, <2>2
<1> QED BY <1>1, <1>2, SomeGo

\* What a message adds to what is heard, where it is not lost.
LEMMA SendHeard ==
  ASSUME TypeOK, NEW S, NEW m \in Messages, Send(S, m), seen' = seen,
         NEW s \in receiving, s \notin missed', NEW u \in User
  PROVE  LastHeard(s, u)' = IF s \in S /\ m.kind \in Presences /\ m.about = u
                            THEN m.kind ELSE LastHeard(s, u)
<1>1. s \in Socket /\ queue[s] \in Seq(Messages) BY DEF TypeOK
<1>2. CASE s \in S
  <2>1. queue'[s] = Append(queue[s], m) BY <1>1, <1>2 DEF Send
  <2> QED BY <1>1, <1>2, <2>1, HeardAppend DEF LastHeard
<1>3. CASE s \notin S
  <2>1. queue'[s] = queue[s] BY <1>1, <1>3 DEF Send
  <2> QED BY <1>3, <2>1 DEF LastHeard
<1> QED BY <1>2, <1>3

LEMMA PlainHeard ==
  ASSUME TypeOK, NEW S, NEW k \in {"auth_ok", "auth_error", "event", "reply"},
         Send(S, Plain(k)), seen' = seen, NEW s \in receiving, s \notin missed', NEW u \in User
  PROVE  LastHeard(s, u)' = LastHeard(s, u)
<1>1. Plain(k) \in Messages /\ Plain(k).kind \notin Presences
  BY DEF Messages, Plain, Presences
<1> HIDE DEF Plain
<1> QED BY <1>1, SendHeard

\* Who is in an entry, listens as long as its queue is open and complete.
LEMMA FewerListen ==
  ASSUME missed \subseteq missed',
         \A s \in receiving' : s \in Members(Owner[s])' =>
                                   s \in receiving /\ s \in Members(Owner[s])
  PROVE  Listening' \subseteq Listening
BY DEF Listening

LEMMA ClientStepImplements ==
  ASSUME Sound, NEW s \in Socket,
         Accept(s) \/ Authenticate(s) \/ Refuse(s) \/ Quit(s) \/ Leave(s) \/ Reply(s) \/ Break(s)
  PROVE  Service!ServiceNext
<1> USE DEF Sound, IndInv, BroadcastInv
<1>1. s \in Tasks /\ s \notin Logout BY PresenceAssumption DEF Tasks
<1>2. /\ UNCHANGED <<connections, holder, news, todo, seen, announced>>
      /\ pc[s] \in Transition => pc'[s] = pc[s]
  BY DEF Accept, Authenticate, Refuse, Quit, Leave, Reply, Break, clients, tasks, Transition
<1>3. \A x \in Tasks \ {s} : pc'[x] = pc[x]
  BY <1>1 DEF Accept, Authenticate, Refuse, Quit, Leave, Reply, Break, tasks, Go, TypeOK, Tasks
<1>4. holder # None => /\ news'[holder] = news[holder] /\ todo'[holder] = todo[holder]
                       /\ pc'[holder] = pc[holder]
  <2>1. holder # None => holder \in Tasks BY DEF TypeOK, Tasks
  <2>2. holder = s => pc[s] \in Transition BY <1>1 DEF MutexInv
  <2> QED BY <1>2, <1>3, <2>1, <2>2
<1>5. \/ UNCHANGED <<queue, missed>> /\ receiving' = receiving \cup {s} /\ pc[s] = "closed"
      \/ UNCHANGED channels
      \/ \E k \in {"auth_error", "reply"} : Send({s}, Plain(k))
  BY DEF Accept, Authenticate, Refuse, Quit, Leave, Reply, Break
<1>6. CASE \/ UNCHANGED channels
           \/ UNCHANGED <<queue, missed>> /\ receiving' = receiving \cup {s} /\ pc[s] = "closed"
  <2>1. pc[s] = "closed" => s \notin Members(Owner[s])
    BY DEF RegistryInv, Registered, Present
  <2>2. Listening' \subseteq Listening
    <3>1. \A x \in receiving' : x = s \/ x \in receiving BY <1>6 DEF channels
    <3>2. missed \subseteq missed' BY <1>6 DEF channels
    <3>3. \A x \in Socket : Members(Owner[x])' = Members(Owner[x]) BY <1>2 DEF Members
    <3>4. receiving' \subseteq Socket BY <1>6 DEF TypeOK, channels
    <3> QED BY <1>6, <2>1, <3>1, <3>2, <3>3, <3>4, FewerListen DEF channels
  <2>3. \A x \in Listening', u \in User : LastHeard(x, u)' = LastHeard(x, u)
    BY <1>2, <1>6 DEF LastHeard, channels
  <2> QED BY <1>2, <1>4, <2>2, <2>3, BesideTransition
<1>7. ASSUME NEW k \in {"auth_error", "reply"}, Send({s}, Plain(k)) PROVE Service!ServiceNext
  <2>1. receiving' = receiving /\ missed \subseteq missed' BY <1>7 DEF Send
  <2>2. Listening' \subseteq Listening
    BY <1>2, <2>1, FewerListen DEF Members
  <2>3. \A x \in Listening' : x \in receiving /\ x \notin missed' BY <2>1 DEF Listening
  <2>4. \A x \in Listening', u \in User : LastHeard(x, u)' = LastHeard(x, u)
    BY <1>2, <1>7, <2>3, PlainHeard
  <2> QED BY <1>2, <1>4, <2>2, <2>4, BesideTransition
<1> QED BY <1>5, <1>6, <1>7

\* A new socket listens, and has been told nothing.
LEMMA RegisterImplements ==
  ASSUME Sound, NEW s \in Socket, Register(s)
  PROVE  Service!ServiceNext
<1> USE DEF Sound, IndInv, BroadcastInv
<1> DEFINE u == Owner[s]
           cameOnline == Members(u) = {}
<1>1. u \in User /\ s \in Tasks /\ s \notin Logout BY PresenceAssumption DEF Tasks
<1>2. /\ pc[s] = "join" /\ holder = None /\ holder' = s /\ SetEntry(u, Members(u) \cup {s})
      /\ news' = [news EXCEPT ![s] = IF cameOnline THEN [kind |-> "online", about |-> u]
                                     ELSE None]
      /\ announced' = IF cameOnline THEN [announced EXCEPT ![u] = "online"] ELSE announced
      /\ UNCHANGED <<queue, receiving, missed, seen>>
  BY DEF Register, Available, channels, clients
<1>3. pc'[s] = "greet" BY <1>1 DEF Register, Go, TypeOK, Tasks
<1>4. /\ \A v \in User : Members(v)' = IF v = u THEN Members(u) \cup {s} ELSE Members(v)
  BY <1>2 DEF SetEntry, Members
<1>5. /\ s \in receiving /\ s \notin missed /\ queue[s] = << >>
      /\ seen[s] = [v \in User |-> "unheard"]
  BY <1>2 DEF FreshInv, Unregistered
<1>6. s \notin Members(u)
  BY <1>1, <1>2, MembersRegistered DEF Present
<1>7. s \notin Listening /\ Listening' = Listening \cup {s}
  <2>1. receiving \subseteq Socket /\ \A x \in Socket : Owner[x] \in User
    BY PresenceAssumption DEF TypeOK
  <2>2. \A x \in receiving : x \in Members(Owner[x])' <=> x \in Members(Owner[x]) \/ x = s
    BY <1>4, <2>1
  <2> QED BY <1>2, <1>5, <1>6, <2>2 DEF Listening
<1>8. \A x \in Socket, v \in User : LastHeard(x, v)' = LastHeard(x, v)
  BY <1>2 DEF LastHeard
<1>9. Known' = [x \in Listening \cup {s} |-> IF x = s THEN Service!Ignorant ELSE Known[x]]
  <2>1. Known' = [x \in Listening' |-> Known'[x]] BY DEF Known
  <2>2. \A x \in Listening : Known'[x] = Known[x]
    <3>1. Listening \subseteq Socket BY DEF Listening, TypeOK
    <3> QED BY <1>7, <1>8, <3>1, SameKnowledge
  <2>3. Known'[s] = Service!Ignorant
    <3>1. \A v \in User : LastHeard(s, v)' = "unheard"
      <4>1. << >> \in Seq(Messages) BY EmptySeq
      <4>2. \A v \in User : About(<< >>, v) = {} BY EmptySeq DEF About
      <4>3. \A v \in User : Heard(<< >>, "unheard", v) = "unheard" BY <4>1, <4>2, HeardIs
      <4> QED BY <1>2, <1>5, <4>3 DEF LastHeard
    <3>2. Known'[s] = [v \in User |-> LastHeard(s, v)'] BY <1>7 DEF Known
    <3> QED BY <3>1, <3>2 DEF Service!Ignorant
  <2> QED BY <1>7, <2>1, <2>2, <2>3
<1>10. Current = None BY <1>2 DEF Current
<1>11. s # None BY PresenceAssumption
<1>12. CASE cameOnline
  <2>1. Current' = [kind |-> "online", about |-> u]
    BY <1>1, <1>2, <1>11, <1>12 DEF Current, TypeOK, Tasks
  <2>2. Current' # None
    <3>1. [kind |-> "online", about |-> u] # None
      BY <1>1, PresenceAssumption
    <3> QED BY <2>1, <3>1
  <2>3. Untold' = Listening' BY <1>2, <1>3, <2>2 DEF Untold
  <2>4. Service!Announce("online", u)
    BY <1>2, <1>10, <1>12, <2>1, <2>3, KnownIs DEF Service!Announce, Service!Audience, Known
  <2>5. Service!Come(s)
    BY <1>7, <1>9, <2>4, KnownIs DEF Service!Come, Service!Audience
  <2> QED BY <2>5 DEF Service!ServiceNext
<1>13. CASE ~cameOnline
  <2>1. Current' = None BY <1>1, <1>2, <1>11, <1>13 DEF Current, TypeOK, Tasks
  <2>2. Untold = {} /\ Untold' = {} BY <1>10, <2>1 DEF Untold
  <2>3. announced[u] = "online" BY <1>1, <1>13 DEF Members, RegistryInv, Agrees
  <2>4. Service!Come(s)
    BY <1>2, <1>7, <1>9, <1>10, <1>13, <2>1, <2>2, <2>3, KnownIs
    DEF Service!Come, Service!Audience
  <2> QED BY <2>4 DEF Service!ServiceNext
<1> QED BY <1>12, <1>13

\* auth_ok is out, and with it the decision who will be told.
LEMMA GreetImplements ==
  ASSUME Sound, NEW s \in Socket, Greet(s)
  PROVE  Service!ServiceNext
<1> USE DEF Sound, IndInv, BroadcastInv
<1>1. s \in Tasks /\ s \notin Logout BY PresenceAssumption DEF Tasks
<1>2. /\ pc[s] = "greet" /\ Send({s}, Plain("auth_ok"))
      /\ todo' = [todo EXCEPT ![s] = IF news[s] = None THEN {} ELSE DOMAIN connections]
      /\ UNCHANGED <<connections, holder, news, seen, announced>>
  BY DEF Greet, clients
<1>3. pc'[s] = "arrival" BY <1>1 DEF Greet, Go, TypeOK, Tasks
<1>4. holder = s /\ s # None BY <1>1, <1>2, PresenceAssumption DEF MutexInv, Transition
<1>5. Current' = Current /\ Current = news[s] BY <1>2, <1>4 DEF Current
<1>6. receiving' = receiving /\ missed \subseteq missed' BY <1>2 DEF Send
<1>7. Listening' \subseteq Listening BY <1>2, <1>6, FewerListen DEF Members
<1>8. \A x \in Listening' : x \in receiving /\ x \notin missed' BY <1>6 DEF Listening
<1>9. \A x \in Listening', u \in User : LastHeard(x, u)' = LastHeard(x, u)
  BY <1>2, <1>8, PlainHeard
<1>10. Untold' = Untold \cap Listening'
  <2>1. CASE Current = None BY <1>5, <2>1 DEF Untold
  <2>2. CASE Current # None
    <3>1. todo'[s] = DOMAIN connections BY <1>1, <1>2, <1>5, <2>2 DEF TypeOK, Tasks
    <3>2. \A x \in Listening' : Owner[x] \in DOMAIN connections
      BY <1>2 DEF Listening, Members
    <3>3. Untold' = Listening' BY <1>2, <1>3, <1>4, <1>5, <2>2, <3>1, <3>2 DEF Untold
    <3>4. Untold = Listening BY <1>2, <1>4, <2>2 DEF Untold
    <3> QED BY <1>7, <3>3, <3>4
  <2> QED BY <2>1, <2>2
<1> QED BY <1>2, <1>5, <1>7, <1>9, <1>10, SomeGo

\* A broadcast tells the listeners of one user; those whose queue is full are
\* lost.
LEMMA VisitImplements ==
  ASSUME Sound, NEW p \in Tasks, Visit(p)
  PROVE  Service!ServiceNext
<1> USE DEF Sound, IndInv, BroadcastInv
<1>1. PICK v \in todo[p] :
        /\ todo' = [todo EXCEPT ![p] = @ \ {v}]
        /\ Send(Members(v), news[p])
        /\ IF v \in DOMAIN connections THEN SetEntry(v, Kept(Members(v)))
                                       ELSE UNCHANGED connections
        /\ UNCHANGED <<holder, pc, news, seen, announced>>
  BY DEF Visit, clients
<1>2. /\ v \in User /\ pc[p] \in {"arrival", "departure"} /\ news[p] \in News
  BY <1>1 DEF TasksInv, TypeOK, Tasks
<1>3. holder = p /\ p # None BY <1>2, PresenceAssumption DEF MutexInv, Transition, Tasks
<1>4. Current = news[p] /\ Current' = Current /\ Current # None
  BY <1>1, <1>2, <1>3, PresenceAssumption DEF Current, News, Presences
<1>5. receiving' = receiving /\ missed \subseteq missed' BY <1>1 DEF Send
<1>6. \A w \in User : Members(w)' = IF w = v THEN Members(v) \cap receiving ELSE Members(w)
  <2>1. CASE v \in DOMAIN connections BY <1>1, <2>1 DEF SetEntry, Kept, Members
  <2>2. CASE v \notin DOMAIN connections BY <1>1, <2>2 DEF Members
  <2> QED BY <2>1, <2>2
<1>7. receiving \subseteq Socket /\ \A x \in Socket : Owner[x] \in User
  BY PresenceAssumption DEF TypeOK
<1>8. Listening' = Listening \ missed'
  BY <1>5, <1>6, <1>7 DEF Listening
<1> DEFINE S == {x \in Listening : Owner[x] = v}
           L == {x \in S : x \in missed'}
<1>9. \A x \in Listening : x \notin S => x \notin missed'
  <2>1. SUFFICES ASSUME NEW x \in Listening, x \notin S PROVE x \notin missed' OBVIOUS
  <2>2. x \in Socket /\ Owner[x] # v /\ x \notin missed BY <2>1, <1>7 DEF Listening
  <2>3. x \notin Members(v) BY <1>2, <2>2, MembersRegistered
  <2> QED BY <1>1, <2>2, <2>3, SendElsewhere
<1>10. Listening' = Listening \ L BY <1>8, <1>9
<1>11. todo'[p] = todo[p] \ {v} BY <1>1 DEF TypeOK, Tasks
<1>12. Untold = {x \in Listening : Owner[x] \in todo[p]}
  BY <1>2, <1>3, <1>4 DEF Untold
<1>13. Untold' = {x \in Listening' : Owner[x] \in todo[p] \ {v}}
  BY <1>1, <1>2, <1>3, <1>4, <1>11 DEF Untold
<1>14. Untold' = Untold \ S BY <1>10, <1>12, <1>13
<1>15. S \in SUBSET Untold /\ L \in SUBSET S BY <1>1, <1>12
<1>16. ASSUME NEW x \in Listening', NEW u \in User
       PROVE  LastHeard(x, u)' = IF x \in S /\ Current.about = u THEN Current.kind
                                 ELSE LastHeard(x, u)
  <2>1. x \in receiving /\ x \notin missed' /\ x \in Listening /\ x \in Socket
    BY <1>7, <1>8 DEF Listening
  <2>2. x \in S <=> x \in Members(v)
    <3>1. x \in S => x \in Members(v) BY DEF Listening
    <3>2. x \in Members(v) => x \in S BY <1>2, <2>1, MembersRegistered
    <3> QED BY <3>1, <3>2
  <2>3. news[p] \in Messages /\ news[p].kind \in Presences BY <1>2 DEF Messages, News
  <2> HIDE DEF S
  <2> QED BY <1>1, <1>4, <2>1, <2>2, <2>3, SendHeard
<1>17. Known' = [x \in Listening \ L |-> IF x \in S
                    THEN [Known[x] EXCEPT ![Current.about] = Current.kind] ELSE Known[x]]
  <2> HIDE DEF S, L
  <2>1. Known' = [x \in Listening' |-> [u \in User |-> LastHeard(x, u)']] BY DEF Known
  <2>2. ASSUME NEW x \in Listening', x \in S
        PROVE  [u \in User |-> LastHeard(x, u)'] =
                  [Known[x] EXCEPT ![Current.about] = Current.kind]
    <3>1. x \in Listening BY <1>10
    <3>2. Known[x] = [u \in User |-> LastHeard(x, u)] BY <3>1 DEF Known
    <3> QED BY <1>16, <2>2, <3>2
  <2>3. ASSUME NEW x \in Listening', x \notin S
        PROVE  [u \in User |-> LastHeard(x, u)'] = Known[x]
    <3>1. x \in Listening BY <1>10
    <3>2. Known[x] = [u \in User |-> LastHeard(x, u)] BY <3>1 DEF Known
    <3> QED BY <1>16, <2>3, <3>2
  <2> QED BY <1>10, <2>1, <2>2, <2>3
<1> HIDE DEF S, L
<1>18. Service!Tell(S, L)
  BY <1>1, <1>4, <1>14, <1>17, KnownIs DEF Service!Tell, Service!Audience
<1> QED BY <1>15, <1>18 DEF Service!ServiceNext

\* With the mutex an announcement ends, if there was one.
LEMMA ReleaseImplements ==
  ASSUME Sound, NEW p \in Tasks, Release(p)
  PROVE  Service!ServiceNext
<1> USE DEF Sound, IndInv, BroadcastInv
<1>1. /\ pc[p] \in {"arrival", "departure"} /\ todo[p] = {} /\ holder' = None
      /\ UNCHANGED <<connections, todo, queue, receiving, missed, seen, announced>>
  BY DEF Release, channels, clients
<1>2. holder = p /\ p # None BY <1>1, PresenceAssumption DEF MutexInv, Transition, Tasks
<1>3. Current' = None /\ Untold' = {} BY <1>1 DEF Current, Untold
<1>4. Untold = {} BY <1>1, <1>2 DEF Untold
<1>5. /\ Listening' = Listening
      /\ \A x \in Listening, u \in User : LastHeard(x, u)' = LastHeard(x, u)
  BY <1>1 DEF Listening, Members, LastHeard
<1>6. Known' = Known
  <2>1. \A x \in Listening : Known'[x] = Known[x] BY <1>5, SameKnowledge
  <2>2. Known' = [x \in Listening' |-> Known'[x]] /\ Known = [x \in Listening |-> Known[x]]
    BY DEF Known
  <2> QED BY <1>5, <2>1, <2>2
<1>7. CASE Current = None BY <1>1, <1>3, <1>4, <1>5, <1>7, SomeGo
<1>8. CASE Current # None
  <2>1. Service!Close BY <1>1, <1>3, <1>4, <1>6, <1>8 DEF Service!Close
  <2> QED BY <2>1 DEF Service!ServiceNext
<1> QED BY <1>7, <1>8

\* The last socket of u has left, or a logout has removed them all.
LEMMA DepartsImplements ==
  ASSUME Sound, NEW p \in Tasks, NEW u \in DOMAIN connections, DropEntry(u), Departs(p, u),
         holder = None, holder' = p, pc'[p] = "departure", UNCHANGED <<channels, clients>>
  PROVE  Service!ServiceNext
<1> USE DEF Sound, IndInv, BroadcastInv
<1>1. /\ u \in User /\ p # None /\ UNCHANGED <<queue, receiving, missed, seen>>
      /\ \A x \in Socket : Owner[x] \in User
  BY PresenceAssumption DEF TypeOK, Tasks, channels, clients
<1>2. /\ news'[p] = [kind |-> "offline", about |-> u]
      /\ announced' = [announced EXCEPT ![u] = "offline"]
      /\ todo'[p] = DOMAIN connections \ {u}
  BY DEF Departs, TypeOK, Tasks
<1>3. Current = None /\ Current' = [kind |-> "offline", about |-> u]
  BY <1>1, <1>2 DEF Current
<1>4. Current' # None BY <1>1, <1>3, PresenceAssumption
<1>5. \A v \in User : Members(v)' = IF v = u THEN {} ELSE Members(v)
  BY DEF DropEntry, Members
<1>6. Listening' = {y \in Listening : Owner[y] # u}
  <2>1. receiving \subseteq Socket BY DEF TypeOK
  <2>2. \A x \in receiving : x \in Members(Owner[x])' <=> x \in Members(Owner[x]) /\ Owner[x] # u
    BY <1>1, <1>5, <2>1
  <2> QED BY <1>1, <2>2 DEF Listening
<1>7. Untold' = Listening'
  <2>1. \A x \in Listening' : Owner[x] \in DOMAIN connections \ {u}
    BY <1>6 DEF Listening, Members
  <2> QED BY <1>1, <1>2, <1>4, <2>1 DEF Untold
<1>8. Known' = [x \in {y \in Listening : Owner[y] # u} |-> Known[x]]
  <2>1. Known' = [x \in Listening' |-> Known'[x]] BY DEF Known
  <2>2. \A x \in Listening' : x \in Listening /\ Known'[x] = Known[x]
    <3>1. \A x \in Listening, v \in User : LastHeard(x, v)' = LastHeard(x, v)
      BY <1>1 DEF LastHeard
    <3> QED BY <1>6, <3>1, SameKnowledge
  <2> QED BY <1>6, <2>1, <2>2
<1>9. Service!Announce("offline", u)
  BY <1>2, <1>3, <1>7, KnownIs DEF Service!Announce, Service!Audience, Known
<1>10. Service!Depart(u) BY <1>8, <1>9, KnownIs DEF Service!Depart, Service!Audience
<1> QED BY <1>1, <1>10 DEF Service!ServiceNext

LEMMA UnregisterImplements ==
  ASSUME Sound, NEW s \in Socket, Unregister(s)
  PROVE  Service!ServiceNext
<1> USE DEF Sound, IndInv, BroadcastInv
<1> DEFINE u == Owner[s]
<1>1. u \in User /\ s \in Tasks /\ s # None BY PresenceAssumption DEF Tasks
<1>2. /\ holder = None /\ holder' = s /\ Go(s, "departure") /\ UNCHANGED <<channels, clients>>
      /\ \/ u \in DOMAIN connections /\ Remaining(s) = {} /\ DropEntry(u) /\ Departs(s, u)
         \/ /\ u \in DOMAIN connections /\ SetEntry(u, Remaining(s))
            /\ UNCHANGED <<news, announced, todo>>
         \/ u \notin DOMAIN connections /\ UNCHANGED <<connections, news, announced, todo>>
  BY DEF Unregister, Available
<1>3. pc'[s] = "departure" BY <1>1, <1>2 DEF Go, TypeOK, Tasks
<1>4. CASE u \in DOMAIN connections /\ DropEntry(u) /\ Departs(s, u)
  BY <1>1, <1>2, <1>3, <1>4, DepartsImplements
<1>5. CASE /\ \/ u \in DOMAIN connections /\ SetEntry(u, Remaining(s))
              \/ UNCHANGED connections
           /\ UNCHANGED <<news, announced, todo>>
  <2>1. news[s] = None BY <1>1, <1>2 DEF NewsInv
  <2>2. Current = None /\ Current' = None BY <1>1, <1>2, <1>5, <2>1 DEF Current
  <2>3. Untold = {} /\ Untold' = {} BY <2>2 DEF Untold
  <2>4. \A v \in User : Members(v)' \subseteq Members(v)
    BY <1>5 DEF SetEntry, Remaining, Members
  <2>5. UNCHANGED <<queue, receiving, missed, seen>> BY <1>2 DEF channels, clients
  <2>6. \A x \in receiving : Owner[x] \in User BY PresenceAssumption DEF TypeOK
  <2>7. Listening' \subseteq Listening BY <2>4, <2>5, <2>6, FewerListen
  <2>8. \A x \in Listening', v \in User : LastHeard(x, v)' = LastHeard(x, v)
    BY <2>5 DEF LastHeard
  <2> QED BY <1>5, <2>2, <2>3, <2>7, <2>8, SomeGo
<1> QED BY <1>2, <1>4, <1>5

LEMMA FinishImplements ==
  ASSUME Sound, NEW s \in Socket, Finish(s)
  PROVE  Service!ServiceNext
<1> USE DEF Sound, IndInv, BroadcastInv
<1>1. s \in Tasks /\ s \notin Logout BY PresenceAssumption DEF Tasks
<1>2. /\ pc[s] = "flush" /\ Go(s, "gone") /\ receiving' = receiving \ {s}
      /\ queue' = [queue EXCEPT ![s] = << >>]
      /\ UNCHANGED <<connections, holder, news, todo, missed, seen, announced>>
  BY DEF Finish, clients
<1>3. holder # s BY <1>1, <1>2 DEF MutexInv, Transition
<1>4. holder # None => pc'[holder] = pc[holder] BY <1>1, <1>2, <1>3 DEF Go, TypeOK, Tasks
<1>5. Listening' \subseteq Listening BY <1>2, FewerListen DEF Members
<1>6. \A x \in Listening', u \in User : LastHeard(x, u)' = LastHeard(x, u)
  <2>1. \A x \in Listening' : x \in Socket /\ x # s BY <1>2 DEF Listening, TypeOK
  <2>2. \A x \in Listening' : queue'[x] = queue[x] BY <1>2, <2>1 DEF TypeOK
  <2> QED BY <1>2, <2>2 DEF LastHeard
<1> QED BY <1>2, <1>4, <1>5, <1>6, BesideTransition

\* Delivering a message is nothing new; a forward task that fails, loses it.
LEMMA ForwardImplements ==
  ASSUME Sound, NEW s \in Socket, Forward(s)
  PROVE  Service!ServiceNext
<1> USE DEF Sound, IndInv, BroadcastInv
<1>1. /\ queue[s] # << >> /\ queue[s] \in Seq(Messages)
      /\ UNCHANGED <<connections, holder, pc, news, todo, missed, announced>>
  BY DEF Forward, TypeOK, tasks
<1> DEFINE m == Head(queue[s])
<1>2. CASE /\ queue' = [queue EXCEPT ![s] = Tail(@)]
           /\ seen' = IF m.kind \in Presences THEN [seen EXCEPT ![s][m.about] = m.kind] ELSE seen
           /\ UNCHANGED receiving
  <2>1. Listening' \subseteq Listening BY <1>1, <1>2, FewerListen DEF Members
  <2>2. ASSUME NEW x \in Socket, NEW u \in User
        PROVE  LastHeard(x, u)' = LastHeard(x, u)
    <3>1. CASE x = s
      <4>1. queue'[s] = Tail(queue[s]) BY <1>2 DEF TypeOK
      <4>2. seen'[s][u] = IF m.kind \in Presences /\ m.about = u THEN m.kind ELSE seen[s][u]
        BY <1>2 DEF TypeOK
      <4>3. Heard(Tail(queue[s]),
                  IF m.kind \in Presences /\ m.about = u THEN m.kind ELSE seen[s][u], u)
               = Heard(queue[s], seen[s][u], u)
        BY <1>1, HeardNext
      <4> QED BY <3>1, <4>1, <4>2, <4>3 DEF LastHeard
    <3>2. CASE x # s
      <4>1. queue'[x] = queue[x] /\ seen'[x] = seen[x] BY <1>2, <3>2 DEF TypeOK
      <4> QED BY <4>1 DEF LastHeard
    <3> QED BY <3>1, <3>2
  <2>3. Listening' \subseteq Socket BY <1>2 DEF Listening, TypeOK
  <2> QED BY <1>1, <2>1, <2>2, <2>3, BesideTransition
<1>3. CASE /\ queue' = [queue EXCEPT ![s] = << >>] /\ receiving' = receiving \ {s}
           /\ UNCHANGED seen
  <2>1. Listening' \subseteq Listening BY <1>1, <1>3, FewerListen DEF Members
  <2>2. \A x \in Listening' : x \in Socket /\ x # s BY <1>3 DEF Listening, TypeOK
  <2>3. \A x \in Listening' : queue'[x] = queue[x] BY <1>3, <2>2 DEF TypeOK
  <2>4. \A x \in Listening', u \in User : LastHeard(x, u)' = LastHeard(x, u)
    BY <1>3, <2>3 DEF LastHeard
  <2> QED BY <1>1, <2>1, <2>4, BesideTransition
<1> QED BY <1>2, <1>3 DEF Forward

LEMMA PushImplements ==
  ASSUME Sound, NEW u \in User, Push(u)
  PROVE  Service!ServiceNext
<1> USE DEF Sound, IndInv, BroadcastInv
<1>1. /\ Send(Members(u), Plain("event")) /\ SetEntry(u, Kept(Members(u)))
      /\ UNCHANGED <<holder, pc, news, todo, seen, announced>>
  BY DEF Push, tasks, clients
<1>2. receiving' = receiving /\ missed \subseteq missed' BY <1>1 DEF Send
<1>3. \A v \in User : Members(v)' \subseteq Members(v) BY <1>1 DEF SetEntry, Kept, Members
<1>4. \A x \in receiving : Owner[x] \in User BY PresenceAssumption DEF TypeOK
<1>5. Listening' \subseteq Listening BY <1>2, <1>3, <1>4, FewerListen
<1>6. \A x \in Listening' : x \in receiving /\ x \notin missed' BY <1>2 DEF Listening
<1>7. \A x \in Listening', v \in User : LastHeard(x, v)' = LastHeard(x, v)
  BY <1>1, <1>6, PlainHeard
<1> QED BY <1>1, <1>5, <1>7, BesideTransition

LEMMA LogoutImplements ==
  ASSUME Sound, NEW l \in Logout, StartLogout(l) \/ Remove(l)
  PROVE  Service!ServiceNext
<1> USE DEF Sound, IndInv, BroadcastInv
<1>1. l \in Tasks /\ l \notin Socket BY PresenceAssumption DEF Tasks
<1>2. UNCHANGED <<channels, clients>> BY DEF StartLogout, Remove
<1>3. CASE Remove(l) /\ target[l] \in DOMAIN connections
  <2>1. /\ holder = None /\ holder' = l /\ DropEntry(target[l]) /\ Departs(l, target[l])
        /\ Go(l, "departure")
    BY <1>3 DEF Remove, Available
  <2>2. pc'[l] = "departure" BY <1>1, <2>1 DEF Go, TypeOK, Tasks
  <2> QED BY <1>1, <1>2, <1>3, <2>1, <2>2, DepartsImplements
<1>4. CASE StartLogout(l) \/ target[l] \notin DOMAIN connections
  <2>1. /\ UNCHANGED <<connections, holder, news, todo, announced>>
        /\ \E step : Go(l, step) /\ pc[l] \notin Transition
    BY <1>4 DEF StartLogout, Remove, Transition
  <2>2. holder # l BY <1>1, <2>1 DEF MutexInv
  <2>3. holder # None => pc'[holder] = pc[holder] BY <2>1, <2>2 DEF Go, TypeOK, Tasks
  <2>4. UNCHANGED <<queue, receiving, missed, seen>> BY <1>2 DEF channels, clients
  <2>5. Listening' = Listening BY <2>1, <2>4 DEF Listening, Members
  <2>6. \A x \in Listening', u \in User : LastHeard(x, u)' = LastHeard(x, u)
    BY <2>4 DEF LastHeard
  <2> QED BY <2>1, <2>3, <2>5, <2>6, BesideTransition
<1> QED BY <1>3, <1>4

LEMMA NothingImplements ==
  ASSUME UNCHANGED vars
  PROVE  UNCHANGED Service!service
<1> USE DEF vars, tasks, channels, clients
<1>1. Listening' = Listening /\ Current' = Current /\ announced' = announced
  BY DEF Listening, Members, Current
<1>2. \A s \in Listening, u \in User : LastHeard(s, u)' = LastHeard(s, u) BY DEF LastHeard
<1>3. Known' = Known
  <2>1. Known' = [x \in Listening' |-> Known'[x]] BY DEF Known
  <2>2. Known = [x \in Listening |-> Known[x]] BY DEF Known
  <2> QED BY <1>1, <1>2, <2>1, <2>2, SameKnowledge
<1>4. Untold' = Untold BY <1>1 DEF Untold
<1> QED BY <1>1, <1>3, <1>4 DEF Service!service

LEMMA InitImplements == Init => Service!ServiceInit
<1> SUFFICES ASSUME Init PROVE Service!ServiceInit OBVIOUS
<1>1. Listening = {} BY DEF Init, Listening
<1>2. Known = << >>
  <2>1. Known = [x \in {} |-> Known[x]] BY <1>1 DEF Known
  <2>2. << >> = [x \in {} |-> Known[x]] OBVIOUS
  <2> QED BY <2>1, <2>2
<1>3. Current = None /\ Untold = {} BY DEF Init, Current, Untold
<1> QED BY <1>2, <1>3 DEF Init, Service!ServiceInit

LEMMA NextImplements ==
  Sound /\ [Next]_vars => [Service!ServiceNext]_(Service!service)
<1> SUFFICES ASSUME Sound, [Next]_vars PROVE Service!ServiceNext \/ UNCHANGED Service!service
  OBVIOUS
<1>1. ASSUME NEW s \in Socket,
             \/ SocketWork(s) \/ Forward(s) \/ Accept(s) \/ Authenticate(s)
             \/ Reply(s) \/ Leave(s) \/ Break(s)
      PROVE  Service!ServiceNext
  <2>1. s \in Tasks BY DEF Tasks
  <2> QED BY <1>1, <2>1, ClientStepImplements, RegisterImplements, GreetImplements,
             VisitImplements, ReleaseImplements, UnregisterImplements, FinishImplements,
             ForwardImplements DEF SocketWork
<1>2. ASSUME NEW l \in Logout, StartLogout(l) \/ LogoutWork(l) PROVE Service!ServiceNext
  <2>1. l \in Tasks BY DEF Tasks
  <2> QED BY <1>2, <2>1, LogoutImplements, VisitImplements, ReleaseImplements DEF LogoutWork
<1>3. CASE UNCHANGED vars BY <1>3, NothingImplements
<1> QED BY <1>1, <1>2, <1>3, PushImplements DEF Next

\* Registry, queues, broadcasts and pushes of src/src/ws.rs implement the
\* service: every change is told to every listener once, in the order of the
\* changes.
THEOREM BroadcastsImplementService == Spec => ImplementsService
<1>1. IndInv /\ BroadcastInv => Sound BY DEF Sound
<1> QED BY <1>1, InitImplements, NextImplements, RegistryStaysSound, BroadcastsExclude, PTL
        DEF Spec, ImplementsService, Service!ServiceSpec

-----------------------------------------------------------------------------
(* What the service promises, and what it says of the sockets *)

\* The names a step of the service needs to be about something.
LEMMA ServiceTypes == IndInv => announced \in [User -> Presences]
                                /\ \A s \in Listening : s \in Socket /\ Owner[s] \in User
BY PresenceAssumption DEF IndInv, TypeOK, Listening

LEMMA InformedInit == Service!ServiceInit => Service!Informed
<1> SUFFICES ASSUME Service!ServiceInit PROVE Service!Informed OBVIOUS
<1>1. Service!Audience = {} BY DEF Service!ServiceInit, Service!Audience
<1> QED BY <1>1 DEF Service!ServiceInit, Service!Informed

LEMMA GoInforms ==
  ASSUME Service!Informed, NEW S \in SUBSET Service!Audience, Service!Go(S)
  PROVE  Service!Informed'
<1>1. Service!Audience' = Service!Audience \ S BY DEF Service!Go, Service!Audience
<1>2. \A s \in Service!Audience' : Known'[s] = Known[s]
  BY <1>1 DEF Service!Go, Service!Audience
<1> QED BY <1>1, <1>2 DEF Service!Informed, Service!Go

LEMMA TellInforms ==
  ASSUME Service!Informed, NEW S \in SUBSET Untold, NEW L \in SUBSET S, Service!Tell(S, L)
  PROVE  Service!Informed'
<1>1. Service!Audience' = Service!Audience \ L BY DEF Service!Tell, Service!Audience
<1>2. S # {} => Current # None BY DEF Untold
<1>3. ASSUME NEW s \in Service!Audience', NEW u \in User
      PROVE  \/ Known'[s][u] \in {"unheard", announced[u]}
             \/ Current # None /\ Current.about = u /\ s \in Untold'
  <2>1. s \in Service!Audience /\ s \in Listening BY <1>1, KnownIs DEF Service!Audience
  <2>2. CASE s \in S
    <3>1. Known'[s] = [Known[s] EXCEPT ![Current.about] = Current.kind]
      BY <1>1, <2>2 DEF Service!Tell, Service!Audience
    <3>2. DOMAIN Known[s] = User BY <2>1, KnownIs
    <3>3. CASE Current.about = u
      BY <1>2, <2>2, <3>1, <3>2, <3>3 DEF Service!Informed
    <3>4. CASE Current.about # u
      BY <2>1, <3>1, <3>2, <3>4 DEF Service!Informed
    <3> QED BY <3>3, <3>4
  <2>3. CASE s \notin S
    <3>1. Known'[s] = Known[s] BY <1>1, <2>3 DEF Service!Tell, Service!Audience
    <3> QED BY <2>1, <2>3, <3>1 DEF Service!Informed, Service!Tell
  <2> QED BY <2>2, <2>3
<1> QED BY <1>1, <1>3 DEF Service!Informed, Service!Tell

\* An announcement is meant for all who listen, so nobody is overlooked.
LEMMA AnnounceInforms ==
  ASSUME announced \in [User -> Presences], Service!Informed,
         NEW kind \in Presences, NEW u \in User, Service!Announce(kind, u),
         \A s \in Service!Audience' : announced'[Owner[s]] = "online",
         \A s \in Service!Audience', v \in User :
             v # u => Known'[s][v] \in {"unheard", announced[v]}
  PROVE  Service!Informed'
<1>1. /\ Current' = [kind |-> kind, about |-> u] /\ Untold' = Service!Audience'
      /\ announced' = [announced EXCEPT ![u] = kind]
  BY DEF Service!Announce
<1>2. Current'.kind = kind /\ Current'.about = u /\ announced'[u] = kind BY <1>1
<1>3. Current' # None BY <1>1, PresenceAssumption DEF Presences
<1>4. \A v \in User : v # u => announced'[v] = announced[v] BY <1>1
<1> QED BY <1>1, <1>2, <1>3, <1>4 DEF Service!Informed

LEMMA ComeInforms ==
  ASSUME announced \in [User -> Presences], \A x \in Listening : Owner[x] \in User,
         Service!Informed, NEW s \in Socket, Service!Come(s)
  PROVE  Service!Informed'
<1>1. Owner[s] \in User BY PresenceAssumption
<1>2. /\ Service!Audience' = Service!Audience \cup {s}
      /\ Known'[s] = Service!Ignorant
      /\ \A x \in Service!Audience : Known'[x] = Known[x]
  BY DEF Service!Come, Service!Audience
<1>3. \A v \in User : Known'[s][v] = "unheard" BY <1>2 DEF Service!Ignorant
<1>4. CASE Service!Announce("online", Owner[s])
  <2>1. announced' = [announced EXCEPT ![Owner[s]] = "online"] /\ Current = None
    BY <1>4 DEF Service!Announce
  <2>2. \A x \in Service!Audience : Owner[x] \in User BY KnownIs DEF Service!Audience
  <2>3. \A x \in Service!Audience' : announced'[Owner[x]] = "online"
    BY <1>1, <1>2, <2>1, <2>2 DEF Service!Informed
  <2>4. \A x \in Service!Audience', v \in User : Known'[x][v] \in {"unheard", announced[v]}
    BY <1>2, <1>3, <2>1 DEF Service!Informed
  <2> QED BY <1>1, <1>4, <2>3, <2>4, AnnounceInforms DEF Presences
<1>5. CASE announced[Owner[s]] = "online" /\ UNCHANGED <<announced, Current, Untold>>
  BY <1>2, <1>3, <1>5 DEF Service!Informed
<1> QED BY <1>4, <1>5 DEF Service!Come

LEMMA DepartInforms ==
  ASSUME announced \in [User -> Presences], \A x \in Listening : Owner[x] \in User,
         Service!Informed, NEW u \in User, Service!Depart(u)
  PROVE  Service!Informed'
<1>1. /\ Service!Audience' = {y \in Service!Audience : Owner[y] # u}
      /\ \A x \in Service!Audience' : Known'[x] = Known[x]
  BY DEF Service!Depart, Service!Audience
<1>2. /\ Service!Announce("offline", u) /\ Current = None
      /\ announced' = [announced EXCEPT ![u] = "offline"]
  BY DEF Service!Depart, Service!Announce
<1>3. \A x \in Service!Audience : Owner[x] \in User BY KnownIs DEF Service!Audience
<1>4. \A x \in Service!Audience' : announced'[Owner[x]] = "online"
  BY <1>1, <1>2, <1>3 DEF Service!Informed
<1>5. \A x \in Service!Audience', v \in User : Known'[x][v] \in {"unheard", announced[v]}
  BY <1>1, <1>2 DEF Service!Informed
<1> QED BY <1>2, <1>4, <1>5, AnnounceInforms DEF Presences

LEMMA CloseInforms ==
  ASSUME Service!Informed, Service!Close
  PROVE  Service!Informed'
BY DEF Service!Informed, Service!Close, Service!Audience

LEMMA ServiceInforms ==
  IndInv /\ Service!Informed /\ [Service!ServiceNext]_(Service!service) => Service!Informed'
<1> SUFFICES ASSUME IndInv, Service!Informed, Service!ServiceNext \/ UNCHANGED Service!service
             PROVE  Service!Informed'
  OBVIOUS
<1>1. announced \in [User -> Presences] /\ \A x \in Listening : Owner[x] \in User
  BY ServiceTypes
<1>2. CASE UNCHANGED Service!service
  BY <1>2 DEF Service!service, Service!Informed, Service!Audience
<1>3. CASE Service!ServiceNext
  BY <1>1, <1>3, GoInforms, TellInforms, CloseInforms, ComeInforms, DepartInforms
  DEF Service!ServiceNext
<1> QED BY <1>2, <1>3

\* Whoever listens knows of each user what was announced last, or has heard
\* nothing yet, or is about to be told; and his own user is online.
THEOREM ListenersInformed == Spec => []Service!Informed
<1> QED BY InformedInit, ServiceInforms, RegistryStaysSound, BroadcastsImplementService, PTL
        DEF ImplementsService, Service!ServiceSpec

\* Between two broadcasts nobody is about to be told, so a client whose queue
\* did not overflow ends up with what was announced last, whichever transitions
\* raced (lock_presence_transitions and the broadcasts under it).
THEOREM ObserversStayInformed == Spec => []ObserversConverge
<1>1. IndInv /\ Service!Informed => ObserversConverge
  <2> SUFFICES ASSUME IndInv, Service!Informed, holder = None,
                      NEW s \in receiving \ missed, NEW u \in User, s \in Members(Owner[s])
               PROVE  LastHeard(s, u) \in {"unheard", announced[u]}
    BY DEF ObserversConverge
  <2>1. s \in Listening /\ s \in Service!Audience BY KnownIs DEF Listening, Service!Audience
  <2>2. Current = None BY DEF Current
  <2> QED BY <2>1, <2>2, KnownIs DEF Service!Informed
<1> QED BY <1>1, ListenersInformed, RegistryStaysSound, PTL
=============================================================================
