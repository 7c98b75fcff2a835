--------------------------- MODULE AvatarsProofs ---------------------------
(***************************************************************************)
(* The avatar of a user stays there however many uploads overlap, fail or  *)
(* are abandoned, proved for any number of them and of names.              *)
(***************************************************************************)
EXTENDS Avatars, TLAPS

Running(t) == pc[t] # "idle"

\* Every name that is about has been drawn.
DrawnInv ==
    /\ avatar \in drawn \cup {None}
    /\ \A t \in Task : /\ old[t] \in drawn \cup {None}
                       /\ Running(t) => new[t] \in drawn

\* The name of a running upload is its own: no other upload has it, and until
\* the row names it no upload will take its file for the old one.
OwnNames ==
    \A t, x \in Task :
        Running(t) => /\ new[t] # avatar /\ new[t] # old[x]
                      /\ x # t /\ Running(x) => new[x] # new[t]

\* What an upload has made of its file so far.
Stored(n) == n \in DOMAIN disk /\ (disk[n] = "whole" \/ n \in writing)
FileInv ==
    \A t \in Task : /\ pc[t] = "write" => new[t] \in DOMAIN disk
                    /\ pc[t] = "update" => new[t] \in lost \/ Stored(new[t])

IndInv == TypeOK /\ DrawnInv /\ OwnNames /\ FileInv /\ AvatarThere

-----------------------------------------------------------------------------

LEMMA GoKeeps ==
  ASSUME TypeOK, NEW t \in Task, NEW step \in Step, GoTo(t, step)
  PROVE  /\ pc' \in [Task -> Step] /\ pc'[t] = step
         /\ \A x \in Task \ {t} : pc'[x] = pc[x]
BY DEF TypeOK, GoTo

LEMMA FinishKeeps ==
  ASSUME TypeOK, NEW t \in Task, Finish(t)
  PROVE  /\ pc' \in [Task -> Step] /\ pc'[t] = "idle"
         /\ new' \in [Task -> Name \cup {None}] /\ new'[t] = None
         /\ old' \in [Task -> Name \cup {None}] /\ old'[t] = None
         /\ \A x \in Task \ {t} : pc'[x] = pc[x] /\ new'[x] = new[x] /\ old'[x] = old[x]
BY DEF TypeOK, Finish, GoTo, Step

LEMMA StartKeeps ==
  ASSUME IndInv, NEW t \in Task, Start(t)
  PROVE  IndInv'
<1> USE DEF IndInv
<1>1. PICK n \in Name \ drawn : new' = [new EXCEPT ![t] = n] /\ drawn' = drawn \cup {n}
  BY DEF Start, FreshNames
<1>2. pc[t] = "idle" /\ GoTo(t, "read") /\ UNCHANGED <<avatar, files, lost, old>>
  BY DEF Start
<1>3. /\ pc' \in [Task -> Step] /\ pc'[t] = "read"
      /\ \A x \in Task \ {t} : pc'[x] = pc[x]
  BY <1>2, GoKeeps DEF Step
<1>4. /\ new' \in [Task -> Name \cup {None}] /\ new'[t] = n
      /\ \A x \in Task \ {t} : new'[x] = new[x]
  BY <1>1 DEF TypeOK
<1>5. TypeOK' BY <1>1, <1>2, <1>3, <1>4 DEF TypeOK, files
<1>6. DrawnInv' BY <1>1, <1>2, <1>3, <1>4 DEF DrawnInv, Running
<1>7. OwnNames'
  <2>1. n # avatar /\ \A x \in Task : n # old[x] /\ (Running(x) => n # new[x])
    BY AvatarAssumption, <1>1 DEF DrawnInv
  <2> QED BY <1>2, <1>3, <1>4, <2>1 DEF OwnNames, Running
<1>8. FileInv' BY <1>2, <1>3, <1>4 DEF FileInv, Stored, files
<1>9. AvatarThere'
  BY <1>2, <1>3 DEF AvatarThere, files, Replacing
<1> QED BY <1>5, <1>6, <1>7, <1>8, <1>9

LEMMA ReadOldKeeps ==
  ASSUME IndInv, NEW t \in Task, ReadOld(t)
  PROVE  IndInv'
<1> USE DEF IndInv
<1>1. /\ pc[t] = "read" /\ old' = [old EXCEPT ![t] = avatar] /\ GoTo(t, "remove")
      /\ UNCHANGED <<avatar, files, drawn, lost, new>>
  BY DEF ReadOld
<1>2. /\ pc' \in [Task -> Step] /\ pc'[t] = "remove"
      /\ \A x \in Task \ {t} : pc'[x] = pc[x]
  BY <1>1, GoKeeps DEF Step
<1>3. /\ old' \in [Task -> Name \cup {None}] /\ old'[t] = avatar
      /\ \A x \in Task \ {t} : old'[x] = old[x]
  BY <1>1 DEF TypeOK
<1>4. TypeOK' BY <1>1, <1>2, <1>3 DEF TypeOK, files
<1>5. DrawnInv' BY <1>1, <1>2, <1>3 DEF DrawnInv, Running
<1>6. OwnNames' BY <1>1, <1>2, <1>3 DEF OwnNames, Running
<1>7. FileInv' BY <1>1, <1>2 DEF FileInv, Stored, files
<1>8. AvatarThere' BY <1>1, <1>2, <1>3 DEF AvatarThere, files, Replacing
<1> QED BY <1>4, <1>5, <1>6, <1>7, <1>8

\* The old file goes; if the row names it, this upload is replacing it, and
\* it is no running upload's own.
LEMMA RemoveOldKeeps ==
  ASSUME IndInv, NEW t \in Task, RemoveOld(t)
  PROVE  IndInv'
<1> USE DEF IndInv
<1>1. /\ pc[t] = "remove" /\ GoTo(t, "create")
      /\ disk' = [n \in DOMAIN disk \ {old[t]} |-> disk[n]]
      /\ UNCHANGED <<avatar, writing, drawn, lost, new, old>>
  BY DEF RemoveOld
<1>2. /\ pc' \in [Task -> Step] /\ pc'[t] = "create"
      /\ \A x \in Task \ {t} : pc'[x] = pc[x]
  BY <1>1, GoKeeps DEF Step
<1>3. /\ DOMAIN disk' = DOMAIN disk \ {old[t]}
      /\ \A n \in DOMAIN disk' : disk'[n] = disk[n]
  BY <1>1
<1>4. TypeOK' BY <1>1, <1>2, <1>3 DEF TypeOK
<1>5. DrawnInv' /\ OwnNames' BY <1>1, <1>2 DEF DrawnInv, OwnNames, Running
<1>6. FileInv'
  <2>1. \A x \in Task : Running(x) => new[x] # old[t] BY DEF OwnNames
  <2> QED BY <1>1, <1>2, <1>3, <2>1 DEF FileInv, Stored, Running
<1>7. AvatarThere' BY <1>1, <1>2, <1>3 DEF AvatarThere, Replacing
<1> QED BY <1>4, <1>5, <1>6, <1>7

LEMMA CreateKeeps ==
  ASSUME IndInv, NEW t \in Task, Create(t)
  PROVE  IndInv'
<1> USE DEF IndInv
<1>1. /\ pc[t] = "create" /\ GoTo(t, "write") /\ disk' = With(new[t], "part")
      /\ UNCHANGED <<avatar, writing, drawn, lost, new, old>>
  BY DEF Create
<1>2. /\ pc' \in [Task -> Step] /\ pc'[t] = "write"
      /\ \A x \in Task \ {t} : pc'[x] = pc[x]
  BY <1>1, GoKeeps DEF Step
<1>3. /\ DOMAIN disk' = DOMAIN disk \cup {new[t]} /\ disk'[new[t]] = "part"
      /\ \A n \in DOMAIN disk \ {new[t]} : disk'[n] = disk[n]
  BY <1>1 DEF With
<1>4. new[t] \in drawn /\ new[t] # avatar
      /\ \A x \in Task \ {t} : Running(x) => new[x] # new[t]
  BY <1>1 DEF DrawnInv, OwnNames, Running
<1>5. TypeOK' BY <1>1, <1>2, <1>3, <1>4 DEF TypeOK, Content
<1>6. DrawnInv' /\ OwnNames' BY <1>1, <1>2 DEF DrawnInv, OwnNames, Running
<1>7. FileInv' BY <1>1, <1>2, <1>3, <1>4 DEF FileInv, Stored, Running
<1>8. AvatarThere' BY <1>1, <1>2, <1>3, <1>4 DEF AvatarThere, Replacing
<1> QED BY <1>5, <1>6, <1>7, <1>8

LEMMA WriteKeeps ==
  ASSUME IndInv, NEW t \in Task, Write(t)
  PROVE  IndInv'
<1> USE DEF IndInv
<1>1. /\ pc[t] = "write" /\ GoTo(t, "update") /\ writing' = writing \cup {new[t]}
      /\ UNCHANGED <<avatar, disk, drawn, lost, new, old>>
  BY DEF Write
<1>2. /\ pc' \in [Task -> Step] /\ pc'[t] = "update"
      /\ \A x \in Task \ {t} : pc'[x] = pc[x]
  BY <1>1, GoKeeps DEF Step
<1>3. new[t] \in drawn BY <1>1 DEF DrawnInv, Running
<1>4. TypeOK' BY <1>1, <1>2, <1>3 DEF TypeOK
<1>5. DrawnInv' /\ OwnNames' BY <1>1, <1>2 DEF DrawnInv, OwnNames, Running
<1>6. FileInv' BY <1>1, <1>2 DEF FileInv, Stored
<1>7. AvatarThere' BY <1>1, <1>2 DEF AvatarThere, Replacing
<1> QED BY <1>4, <1>5, <1>6, <1>7

\* The bytes arrive, or never do.
LEMMA WrittenKeeps ==
  ASSUME IndInv, NEW n \in Name, Written(n)
  PROVE  IndInv'
<1> USE DEF IndInv
<1>1. /\ n \in writing /\ writing' = writing \ {n}
      /\ UNCHANGED <<avatar, drawn, pc, new, old>>
  BY DEF Written, tasks
<1>2. DrawnInv' /\ OwnNames' BY <1>1 DEF DrawnInv, OwnNames, Running
<1>3. CASE disk' = (IF n \in DOMAIN disk THEN With(n, "whole") ELSE disk) /\ UNCHANGED lost
  <2>1. /\ DOMAIN disk' = DOMAIN disk
        /\ n \in DOMAIN disk => disk'[n] = "whole"
        /\ \A m \in DOMAIN disk \ {n} : disk'[m] = disk[m]
    BY <1>3 DEF With
  <2>2. TypeOK' BY <1>1, <1>3, <2>1 DEF TypeOK, Content
  <2>3. \A m : Stored(m) => Stored(m)' BY <1>1, <2>1 DEF Stored
  <2>4. FileInv' BY <1>1, <1>3, <2>1, <2>3 DEF FileInv
  <2>5. AvatarThere' BY <1>1, <1>3, <2>3 DEF AvatarThere, Stored
  <2> QED BY <1>2, <2>2, <2>4, <2>5
<1>4. CASE lost' = lost \cup {n} /\ UNCHANGED disk
  <2>1. TypeOK' BY <1>1, <1>4 DEF TypeOK
  <2>2. \A m : m \notin lost' /\ Stored(m) => Stored(m)' BY <1>1, <1>4 DEF Stored
  <2>3. FileInv' BY <1>1, <1>4, <2>2 DEF FileInv
  <2>4. AvatarThere' BY <1>1, <1>4, <2>2 DEF AvatarThere, Stored
  <2> QED BY <1>2, <2>1, <2>3, <2>4
<1> QED BY <1>3, <1>4 DEF Written

\* The row names a file that is there: nobody has removed it, since until now
\* nobody could have read its name.
LEMMA UpdateKeeps ==
  ASSUME IndInv, NEW t \in Task, Update(t)
  PROVE  IndInv'
<1> USE DEF IndInv
<1>1. /\ pc[t] = "update" /\ avatar' = new[t] /\ Finish(t)
      /\ UNCHANGED <<disk, writing, drawn, lost>>
  BY DEF Update, files
<1>2. /\ pc' \in [Task -> Step] /\ pc'[t] = "idle"
      /\ new' \in [Task -> Name \cup {None}] /\ new'[t] = None
      /\ old' \in [Task -> Name \cup {None}] /\ old'[t] = None
      /\ \A x \in Task \ {t} : pc'[x] = pc[x] /\ new'[x] = new[x] /\ old'[x] = old[x]
  BY <1>1, FinishKeeps
<1>3. new[t] \in drawn BY <1>1 DEF DrawnInv, Running
<1>4. TypeOK' BY <1>1, <1>2, <1>3 DEF TypeOK
<1>5. DrawnInv' BY <1>1, <1>2, <1>3 DEF DrawnInv, Running
<1>6. OwnNames'
  <2>1. \A x \in Task \ {t} : Running(x) => new[x] \in drawn /\ new[x] # new[t]
    BY <1>1 DEF DrawnInv, OwnNames, Running
  <2>2. None \notin drawn BY AvatarAssumption DEF TypeOK
  <2> QED BY <1>1, <1>2, <2>1, <2>2 DEF OwnNames, Running
<1>7. FileInv' BY <1>1, <1>2 DEF FileInv, Stored
<1>8. new[t] \in lost \/ Stored(new[t]) BY <1>1 DEF FileInv
<1>9. AvatarThere' BY <1>1, <1>8 DEF AvatarThere, Stored
<1> QED BY <1>4, <1>5, <1>6, <1>7, <1>9

LEMMA FailKeeps ==
  ASSUME IndInv, NEW t \in Task, Fail(t)
  PROVE  IndInv'
<1> USE DEF IndInv
<1>1. /\ Running(t) /\ Finish(t) /\ UNCHANGED <<avatar, disk, writing, drawn>>
      /\ lost' = IF pc[t] \in Replacing /\ old[t] # None THEN lost \cup {old[t]} ELSE lost
  BY DEF Fail, files, Running
<1>2. /\ pc' \in [Task -> Step] /\ pc'[t] = "idle"
      /\ new' \in [Task -> Name \cup {None}] /\ new'[t] = None
      /\ old' \in [Task -> Name \cup {None}] /\ old'[t] = None
      /\ \A x \in Task \ {t} : pc'[x] = pc[x] /\ new'[x] = new[x] /\ old'[x] = old[x]
  BY <1>1, FinishKeeps
<1>3. old[t] \in drawn \cup {None} BY DEF DrawnInv
<1>4. TypeOK' BY <1>1, <1>2, <1>3 DEF TypeOK
<1>5. DrawnInv' BY <1>1, <1>2 DEF DrawnInv, Running
<1>6. OwnNames'
  <2>1. \A x \in Task : Running(x) => new[x] \in drawn BY DEF DrawnInv
  <2>2. None \notin drawn BY AvatarAssumption DEF TypeOK
  <2> QED BY <1>1, <1>2, <2>1, <2>2 DEF OwnNames, Running
<1>7. FileInv' BY <1>1, <1>2 DEF FileInv, Stored
<1>8. AvatarThere' BY <1>1, <1>2 DEF AvatarThere
<1> QED BY <1>4, <1>5, <1>6, <1>7, <1>8

-----------------------------------------------------------------------------
LEMMA InitHolds == Init => IndInv
<1> SUFFICES ASSUME Init PROVE IndInv OBVIOUS
<1>1. DOMAIN disk = {} BY DEF Init
<1>2. TypeOK BY <1>1 DEF Init, TypeOK, Step
<1> QED BY <1>2 DEF Init, IndInv, DrawnInv, OwnNames, FileInv, AvatarThere, Running

LEMMA StutterKeeps == IndInv /\ UNCHANGED vars => IndInv'
BY DEF IndInv, TypeOK, DrawnInv, OwnNames, FileInv, AvatarThere, Running, Stored, vars, files, tasks

\* However uploads overlap, each keeps its file to itself until it is the avatar.
THEOREM UploadsStaySound == Spec => []IndInv
<1>1. IndInv /\ [Next]_vars => IndInv'
  BY StartKeeps, ReadOldKeeps, RemoveOldKeeps, CreateKeeps, WriteKeeps, WrittenKeeps,
     UpdateKeeps, FailKeeps, StutterKeeps DEF Next
<1> QED BY InitHolds, <1>1, PTL DEF Spec

\* The file the row names is there, unless an upload is replacing it or a
\* failed one has lost it.
THEOREM AvatarStaysThere == Spec => []AvatarThere
<1>1. IndInv => AvatarThere BY DEF IndInv
<1> QED BY UploadsStaySound, <1>1, PTL
=============================================================================
