------------------------------ MODULE Avatars ------------------------------
(***************************************************************************)
(* The avatar of one user: upload_avatar of src/src/account.rs, and the    *)
(* files that serve_avatar reads.  The row of the user and the directory   *)
(* of files change in separate steps, and a file is written behind the     *)
(* back of the handler: tokio's write_all returns when it has taken the    *)
(* bytes.                                                                  *)
(***************************************************************************)
CONSTANTS Task,         \* uploads that may be in flight
          Name,         \* the UUIDs there are to draw: a bound
          Faults,       \* uploads may fail or be abandoned: a bound
          None

ASSUME AvatarAssumption == None \notin Name /\ Faults \in BOOLEAN

VARIABLES avatar,       \* users.avatar_url: the name of a file
          disk,         \* name -> what the file in AVATAR_DIR holds
          drawn,        \* names there have been
          writing,      \* files whose bytes are still on their way
          lost,         \* avatars a failure has left without their file
          pc, new, old  \* per upload: next step, its file, the one it replaces

tasks == <<pc, new, old>>
files == <<disk, writing>>
vars == <<avatar, files, drawn, lost, tasks>>

Content == {"part", "whole"}
Step == {"idle", "read", "remove", "create", "write", "update"}

\* Here an upload has removed the old file and not yet stored the new name.
Replacing == {"create", "write", "update"}

TypeOK ==
    /\ avatar \in Name \cup {None}
    /\ DOMAIN disk \subseteq drawn /\ \A n \in DOMAIN disk : disk[n] \in Content
    /\ drawn \subseteq Name /\ writing \subseteq drawn
    /\ lost \subseteq drawn
    /\ pc \in [Task -> Step]
    /\ new \in [Task -> Name \cup {None}]
    /\ old \in [Task -> Name \cup {None}]

Init ==
    /\ avatar = None
    /\ disk = << >> /\ writing = {}
    /\ drawn = {} /\ lost = {}
    /\ pc = [t \in Task |-> "idle"]
    /\ new = [t \in Task |-> None] /\ old = [t \in Task |-> None]

-----------------------------------------------------------------------------
GoTo(t, step) == pc' = [pc EXCEPT ![t] = step]
Finish(t) ==
    /\ GoTo(t, "idle")
    /\ new' = [new EXCEPT ![t] = None]
    /\ old' = [old EXCEPT ![t] = None]

\* Altered: every user has one file name.
AnyName == Name
\* Uuid::new_v4
FreshNames == Name \ drawn

\* The name is drawn, then the picture is received.
Start(t) ==
    /\ pc[t] = "idle"
    /\ \E n \in FreshNames :
        /\ new' = [new EXCEPT ![t] = n]
        /\ drawn' = drawn \cup {n}
    /\ GoTo(t, "read")
    /\ UNCHANGED <<avatar, files, lost, old>>

ReadOld(t) ==
    /\ pc[t] = "read"
    /\ old' = [old EXCEPT ![t] = avatar]
    /\ GoTo(t, "remove")
    /\ UNCHANGED <<avatar, files, drawn, lost, new>>

\* An error, as of a file that is not there, is ignored.
RemoveOld(t) ==
    /\ pc[t] = "remove"
    /\ disk' = [n \in DOMAIN disk \ {old[t]} |-> disk[n]]
    /\ GoTo(t, "create")
    /\ UNCHANGED <<avatar, writing, drawn, lost, new, old>>

With(n, content) == [m \in DOMAIN disk \cup {n} |-> IF m = n THEN content ELSE disk[m]]

Create(t) ==
    /\ pc[t] = "create"
    /\ disk' = With(new[t], "part")
    /\ GoTo(t, "write")
    /\ UNCHANGED <<avatar, writing, drawn, lost, new, old>>

Write(t) ==
    /\ pc[t] = "write"
    /\ writing' = writing \cup {new[t]}
    /\ GoTo(t, "update")
    /\ UNCHANGED <<avatar, disk, drawn, lost, new, old>>

\* The blocking thread behind the file writes the bytes; if it cannot, nobody
\* is told, and if the file has been removed, its name does not come back.
Written(n) ==
    /\ n \in writing
    /\ writing' = writing \ {n}
    /\ \/ /\ disk' = IF n \in DOMAIN disk THEN With(n, "whole") ELSE disk
          /\ UNCHANGED lost
       \/ Faults /\ lost' = lost \cup {n} /\ UNCHANGED disk
    /\ UNCHANGED <<avatar, drawn, tasks>>

Update(t) ==
    /\ pc[t] = "update"
    /\ avatar' = new[t]
    /\ Finish(t)
    /\ UNCHANGED <<files, drawn, lost>>

\* A step fails, or the client goes away and the handler is dropped.
Fail(t) ==
    /\ Faults /\ pc[t] # "idle"
    /\ lost' = IF pc[t] \in Replacing /\ old[t] # None THEN lost \cup {old[t]} ELSE lost
    /\ Finish(t)
    /\ UNCHANGED <<avatar, files, drawn>>

Next ==
    \/ \E t \in Task : \/ Start(t) \/ ReadOld(t) \/ RemoveOld(t) \/ Create(t)
                       \/ Write(t) \/ Update(t) \/ Fail(t)
    \/ \E n \in Name : Written(n)

Spec == Init /\ [][Next]_vars

-----------------------------------------------------------------------------
(* Properties *)

\* The file the row names is there, whole or being written, unless an upload
\* that still runs has removed it to replace it, or one has failed: however
\* uploads overlap, none removes the file another one leaves behind.
AvatarThere ==
    avatar \notin {None} \cup lost =>
        \/ avatar \in DOMAIN disk /\ (disk[avatar] = "whole" \/ avatar \in writing)
        \/ \E t \in Task : pc[t] \in Replacing /\ old[t] = avatar
=============================================================================
