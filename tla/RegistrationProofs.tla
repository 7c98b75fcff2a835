------------------------- MODULE RegistrationProofs -------------------------
(***************************************************************************)
(* What the row lock of create_user and the advisory lock of               *)
(* send_verification_code are for, proved of Registration for any number   *)
(* of handlers, codes and attempts and any lengths of time.                *)
(***************************************************************************)
EXTENDS Registration, TLAPS

\* What a step of one handler leaves alone.
OthersUntouched(t) ==
    \A x \in Task \ {t} : pc'[x] = pc[x] /\ begun'[x] = begun[x] /\ code'[x] = code[x]

\* How a step of one handler changes the two locks: it takes a lock that is
\* free, keeps it, or gives it back.
LocksFollow(t) ==
    /\ rowLock' = IF pc'[t] \in HoldsRow THEN t ELSE Without(rowLock, t)
    /\ pc'[t] \in HoldsRow => rowLock \in {None, t}
    /\ sendLock' = IF pc'[t] \in HoldsMailbox THEN t ELSE Without(sendLock, t)
    /\ pc'[t] \in HoldsMailbox => sendLock \in {None, t}

\* The row only changes in the hands of who has locked it, and nobody but the
\* sender who has locked the mailbox replaces it.
RowFollows(t) ==
    \/ row' = row
    \/ pc[t] \in HoldsRow /\ row' = None
    \/ pc[t] \in HoldsRow /\ row # None /\ row' # None /\ row'.created_at = row.created_at
    \/ pc[t] = "issue"

\* Nobody is between comparing and counting while the row is free, nor anybody
\* but its holder otherwise.
LEMMA CountedByHolder ==
  ASSUME IndInv
  PROVE  /\ rowLock = None => BeingCounted = 0
         /\ \A t \in Task : rowLock = t =>
               BeingCounted = IF pc[t] = "count" THEN 1 ELSE 0
BY RegistrationAssumption DEF IndInv, LocksInv, HoldsRow, BeingCounted

\* A step that is none of Lookup, Count and Fail keeps the tries as they are: its
\* handler is not about to count a code, neither before nor after.
LEMMA TriesKept ==
  ASSUME NEW t \in Task, IndInv, OthersUntouched(t), row' \in {row, None},
         pc[t] # "count", pc'[t] # "count", compared' = compared, forgotten' = forgotten
  PROVE  TriesCounted'
<1>1. BeingCounted' = BeingCounted BY DEF OthersUntouched, BeingCounted
<1> QED BY <1>1, RegistrationAssumption DEF IndInv, TriesCounted

\* The handler that was about to count a code was the only one, and is no more.
LEMMA CountEnds ==
  ASSUME NEW t \in Task, IndInv, OthersUntouched(t), pc[t] = "count", GoTo(t, "idle")
  PROVE  BeingCounted = 1 /\ BeingCounted' = 0
<1>1. \A x \in Task \ {t} : pc[x] # "count"
  BY RegistrationAssumption DEF IndInv, LocksInv, HoldsRow
<1>2. pc'[t] = "idle" BY DEF IndInv, TypeOK, GoTo
<1> QED BY <1>1, <1>2 DEF OthersUntouched, BeingCounted

\* A step of one handler preserves the invariant once that handler itself
\* satisfies its part of it.
LEMMA HandlerStep ==
  ASSUME NEW t \in Task, IndInv, TypeOK', TriesCounted', HandlerInv(t)', now' = now,
         OthersUntouched(t), LocksFollow(t), RowFollows(t)
  PROVE  IndInv'
<1>1. LocksInv'
  <2> SUFFICES ASSUME NEW x \in Task
               PROVE /\ rowLock' = x <=> pc'[x] \in HoldsRow
                     /\ sendLock' = x <=> pc'[x] \in HoldsMailbox
    BY DEF LocksInv
  <2>1. /\ rowLock = x <=> pc[x] \in HoldsRow
        /\ rowLock = t <=> pc[t] \in HoldsRow
        /\ sendLock = x <=> pc[x] \in HoldsMailbox
        /\ sendLock = t <=> pc[t] \in HoldsMailbox
    BY DEF IndInv, LocksInv
  <2>2. None \notin Task BY RegistrationAssumption
  <2>3. CASE x = t BY <2>2, <2>3 DEF LocksFollow, Without
  <2>4. CASE x # t
    BY <2>1, <2>2, <2>4 DEF LocksFollow, OthersUntouched, Without
  <2> QED BY <2>3, <2>4
<1>2. ASSUME NEW x \in Task \ {t} PROVE HandlerInv(x)'
  <2>1. /\ HandlerInv(x)
        /\ pc'[x] = pc[x] /\ begun'[x] = begun[x] /\ code'[x] = code[x]
    BY DEF IndInv, OthersUntouched
  <2>2. CASE row' = row BY <2>1, <2>2 DEF HandlerInv, Live, Exhausted, CoolingDown
  <2>3. CASE pc[t] \in HoldsRow
    <3>1. pc[x] \notin HoldsRow BY <2>3 DEF IndInv, LocksInv
    <3>2. pc[t] = "issue" => pc[x] # "upsert"
      BY DEF IndInv, LocksInv, HoldsMailbox
    <3> QED BY <2>1, <2>3, <3>1, <3>2 DEF RowFollows, HandlerInv, CoolingDown, HoldsRow
  <2> QED BY <2>2, <2>3 DEF RowFollows, HoldsRow
<1> QED BY <1>1, <1>2 DEF IndInv

\* Initially nobody has begun.
LEMMA InitIndInv == Init => IndInv
<1> SUFFICES ASSUME Init PROVE IndInv
  OBVIOUS
<1>1. TypeOK
  <2>1. 0 \in Time /\ 0 \in 0 .. Losses /\ 0 \in 0 .. MaxAttempts + Losses
    BY RegistrationAssumption DEF Time
  <2> QED BY <2>1 DEF Init, TypeOK, Statement
<1>2. LocksInv
  BY RegistrationAssumption DEF Init, LocksInv, HoldsRow, HoldsMailbox
<1>3. TriesCounted BY DEF Init, TriesCounted
<1>4. \A t \in Task : HandlerInv(t) BY DEF Init, HandlerInv
<1> QED BY <1>1, <1>2, <1>3, <1>4 DEF IndInv

\* Every step of every handler, and of the clock, preserves the invariant.
LEMMA NextIndInv == IndInv /\ [Next]_vars => IndInv'
<1> SUFFICES ASSUME IndInv, [Next]_vars PROVE IndInv'
  OBVIOUS
<1> USE RegistrationAssumption
<1>0. CASE UNCHANGED vars
  BY <1>0 DEF vars, locks, tasks, tries, BeingCounted, IndInv, TypeOK, LocksInv,
     TriesCounted, HandlerInv, Live,
     Exhausted, CoolingDown
<1>1. CASE Tick
  BY <1>1 DEF Tick, locks, tasks, tries, BeingCounted, IndInv, TypeOK, LocksInv,
     TriesCounted, HandlerInv, Live,
     Exhausted, CoolingDown, Time, Row
<1>2. ASSUME NEW t \in Task, StartSend(t) PROVE IndInv'
  <2>1. TypeOK'
    BY <1>2 DEF IndInv, TypeOK, tries, Statement, StartSend, Begin, GoTo, locks
  <2>2. OthersUntouched(t)
    BY <1>2 DEF OthersUntouched, StartSend, Begin, GoTo
  <2>3. TriesCounted'
    BY <1>2, <2>2, TriesKept DEF IndInv, TypeOK, StartSend, Begin, GoTo, tries
  <2>4. LocksFollow(t)
    BY <1>2 DEF IndInv, LocksInv, LocksFollow, HoldsRow, HoldsMailbox, StartSend, Begin,
       GoTo, Without, locks
  <2>5. HandlerInv(t)'
    BY <1>2 DEF HandlerInv, StartSend, Begin, GoTo
  <2>6. now' = now /\ RowFollows(t)
    BY <1>2 DEF RowFollows, StartSend, Begin
  <2> QED BY <2>1, <2>2, <2>3, <2>4, <2>5, <2>6, HandlerStep
<1>3. ASSUME NEW t \in Task, StartRegistration(t) PROVE IndInv'
  <2>1. TypeOK'
    BY <1>3 DEF IndInv, TypeOK, tries, Statement, StartRegistration, Begin, GoTo, locks
  <2>2. OthersUntouched(t)
    BY <1>3 DEF OthersUntouched, StartRegistration, Begin, GoTo
  <2>3. TriesCounted'
    BY <1>3, <2>2, TriesKept DEF IndInv, TypeOK, StartRegistration, Begin, GoTo, tries
  <2>4. LocksFollow(t)
    BY <1>3 DEF IndInv, LocksInv, LocksFollow, HoldsRow, HoldsMailbox, StartRegistration,
       Begin, GoTo, Without, locks
  <2>5. HandlerInv(t)'
    BY <1>3 DEF IndInv, TypeOK, HandlerInv, StartRegistration, Begin, GoTo
  <2>6. now' = now /\ RowFollows(t)
    BY <1>3 DEF RowFollows, StartRegistration, Begin
  <2> QED BY <2>1, <2>2, <2>3, <2>4, <2>5, <2>6, HandlerStep
<1>4. ASSUME NEW t \in Task, LockMailbox(t) PROVE IndInv'
  <2>1. TypeOK'
    BY <1>4 DEF IndInv, TypeOK, tries, Statement, LockMailbox, GoTo
  <2>2. OthersUntouched(t)
    BY <1>4 DEF OthersUntouched, LockMailbox, GoTo
  <2>3. TriesCounted'
    BY <1>4, <2>2, TriesKept DEF IndInv, TypeOK, LockMailbox, GoTo, tries
  <2>4. LocksFollow(t)
    BY <1>4 DEF IndInv, TypeOK, LocksInv, LocksFollow, HoldsRow, HoldsMailbox, LockMailbox,
       MaySend, GoTo, Without
  <2>5. HandlerInv(t)'
    BY <1>4 DEF HandlerInv, LockMailbox, GoTo
  <2>6. now' = now /\ RowFollows(t)
    BY <1>4 DEF RowFollows, LockMailbox
  <2> QED BY <2>1, <2>2, <2>3, <2>4, <2>5, <2>6, HandlerStep
<1>5. ASSUME NEW t \in Task, CheckCooldown(t) PROVE IndInv'
  <2>1. TypeOK'
    BY <1>5 DEF IndInv, TypeOK, tries, Time, Statement, CheckCooldown, GoTo, Finish,
       EndTransaction, Without, locks
  <2>2. OthersUntouched(t)
    BY <1>5 DEF IndInv, TypeOK, OthersUntouched, CheckCooldown, GoTo, Finish, EndTransaction
  <2>3. TriesCounted'
    BY <1>5, <2>2, TriesKept DEF IndInv, TypeOK, CheckCooldown, GoTo, Finish,
       EndTransaction, tries
  <2>4. LocksFollow(t)
    BY <1>5 DEF IndInv, TypeOK, LocksInv, LocksFollow, HoldsRow, HoldsMailbox,
       CheckCooldown, GoTo, Finish, EndTransaction, Without, locks
  <2>5. HandlerInv(t)'
    BY <1>5 DEF IndInv, TypeOK, HandlerInv, CoolingDown, CheckCooldown, GoTo, Finish,
       EndTransaction
  <2>6. now' = now /\ RowFollows(t)
    BY <1>5 DEF RowFollows, CheckCooldown
  <2> QED BY <2>1, <2>2, <2>3, <2>4, <2>5, <2>6, HandlerStep
<1>6. ASSUME NEW t \in Task, Upsert(t) PROVE IndInv'
  <2>1. TypeOK'
    BY <1>6 DEF IndInv, TypeOK, tries, Statement, Upsert, GoTo
  <2>2. OthersUntouched(t)
    BY <1>6 DEF OthersUntouched, Upsert, GoTo
  <2>3. TriesCounted'
    BY <1>6, <2>2, TriesKept DEF IndInv, TypeOK, Upsert, GoTo, tries
  <2>4. LocksFollow(t)
    BY <1>6 DEF IndInv, TypeOK, LocksInv, LocksFollow, HoldsRow, HoldsMailbox, Upsert, GoTo
  <2>5. HandlerInv(t)'
    BY <1>6 DEF IndInv, TypeOK, HandlerInv, CoolingDown, Upsert, GoTo
  <2>6. now' = now /\ RowFollows(t)
    BY <1>6 DEF RowFollows, Upsert
  <2> QED BY <2>1, <2>2, <2>3, <2>4, <2>5, <2>6, HandlerStep
<1>7. ASSUME NEW t \in Task, Issue(t) PROVE IndInv'
  <2>1. TypeOK'
    <3>1. code[t] \in Code /\ begun[t] \in Time BY <1>7 DEF IndInv, TypeOK, HandlerInv,
                                                   Issue
    <3>2. row' \in Row BY <1>7, <3>1 DEF Issue, Row
    <3>3. 0 \in 0 .. MaxAttempts + Losses /\ 0 \in 0 .. Losses OBVIOUS
    <3> QED
      BY <1>7, <3>2, <3>3 DEF IndInv, TypeOK, Statement, Issue, GoTo, EndTransaction,
         Without
  <2>2. OthersUntouched(t)
    BY <1>7 DEF OthersUntouched, Issue, GoTo, EndTransaction
  <2>3. TriesCounted'
    <3>1. pc[t] = "issue" /\ pc'[t] # "count"
      BY <1>7 DEF IndInv, TypeOK, Issue, EndTransaction, GoTo
    <3>2. BeingCounted = 0 BY <3>1, CountedByHolder DEF IndInv, LocksInv, HoldsRow
    <3>3. BeingCounted' = 0 BY <2>2, <3>1, <3>2 DEF OthersUntouched, BeingCounted
    <3> QED BY <1>7, <3>3 DEF TriesCounted, Issue
  <2>4. LocksFollow(t)
    BY <1>7 DEF IndInv, TypeOK, LocksFollow, HoldsRow, HoldsMailbox, Issue, GoTo,
       EndTransaction
  <2>5. HandlerInv(t)'
    BY <1>7 DEF IndInv, TypeOK, HandlerInv, Issue, GoTo, EndTransaction
  <2>6. now' = now /\ RowFollows(t)
    BY <1>7 DEF RowFollows, Issue
  <2> QED BY <2>1, <2>2, <2>3, <2>4, <2>5, <2>6, HandlerStep
<1>8. ASSUME NEW t \in Task, Mail(t) PROVE IndInv'
  <2>1. TypeOK'
    BY <1>8 DEF IndInv, TypeOK, tries, Time, Statement, Mail, GoTo, Finish,
       EndTransaction, Without
  <2>2. OthersUntouched(t)
    BY <1>8 DEF OthersUntouched, Mail, GoTo, Finish, EndTransaction
  <2>3. TriesCounted'
    BY <1>8, <2>2, TriesKept DEF IndInv, TypeOK, Mail, GoTo, Finish, EndTransaction, tries
  <2>4. LocksFollow(t)
    BY <1>8 DEF LocksFollow, HoldsRow, HoldsMailbox, Mail, GoTo, Finish, EndTransaction
  <2>5. HandlerInv(t)'
    BY <1>8 DEF HandlerInv, Mail, GoTo, Finish, EndTransaction
  <2>6. now' = now /\ RowFollows(t)
    BY <1>8 DEF RowFollows, Mail
  <2> QED BY <2>1, <2>2, <2>3, <2>4, <2>5, <2>6, HandlerStep
<1>9. ASSUME NEW t \in Task, Lookup(t) PROVE IndInv'
  <2>0. /\ BeingCounted' = BeingCounted + (IF Live(t) /\ Verdict(t) = "count" THEN 1 ELSE 0)
        /\ Live(t) /\ Verdict(t) = "count" => row \in Row /\ row.attempts < MaxAttempts
    <3>1. CASE Live(t) /\ Verdict(t) = "count"
      <4>1. BeingCounted = 0 BY <1>9, <3>1, CountedByHolder DEF Lookup
      <4>2. pc'[t] = "count" BY <1>9, <3>1 DEF IndInv, TypeOK, Lookup, GoTo
      <4>3. row \in Row /\ row.attempts < MaxAttempts
        BY <3>1 DEF IndInv, TypeOK, Row, Live, Verdict, Exhausted
      <4> QED BY <3>1, <4>1, <4>2, <4>3 DEF BeingCounted
    <3>2. CASE ~(Live(t) /\ Verdict(t) = "count")
      <4>1. pc[t] # "count" /\ pc'[t] # "count"
        BY <1>9, <3>2 DEF IndInv, TypeOK, Lookup, GoTo, Finish, EndTransaction
      <4>2. \A x \in Task : pc[x] = "count" <=> pc'[x] = "count"
        BY <1>9, <4>1 DEF IndInv, TypeOK, Lookup, GoTo, Finish, EndTransaction
      <4>3. BeingCounted' = BeingCounted BY <4>2 DEF BeingCounted
      <4>4. BeingCounted \in {0, 1} BY DEF BeingCounted
      <4> QED BY <3>2, <4>3, <4>4
    <3> QED BY <3>1, <3>2
  <2>1. TypeOK'
    <3>1. compared' \in 0 .. MaxAttempts + Losses /\ forgotten' \in 0 .. Losses
      <4>1. CASE Live(t) /\ Verdict(t) = "count"
        <5>1. compared = row.attempts + forgotten
          <6>1. BeingCounted = 0 BY <1>9, <4>1, CountedByHolder DEF Lookup
          <6> QED BY <2>0, <4>1, <6>1 DEF IndInv, TypeOK, Row, TriesCounted, Live
        <5> QED BY <1>9, <2>0, <4>1, <5>1 DEF IndInv, TypeOK, Row, Lookup, Compare
      <4>2. CASE ~(Live(t) /\ Verdict(t) = "count")
        BY <1>9, <4>2 DEF IndInv, TypeOK, Lookup, Compare
      <4> QED BY <4>1, <4>2
    <3> QED
      BY <1>9, <3>1 DEF IndInv, TypeOK, Time, Statement, Lookup, Verdict, GoTo, Finish,
         EndTransaction, Without
  <2>2. TriesCounted'
    <3>1. row' = row /\ forgotten' = forgotten BY <1>9 DEF Lookup, Compare
    <3>2. compared' = compared + (IF Live(t) /\ Verdict(t) = "count" THEN 1 ELSE 0)
      BY <1>9 DEF Lookup, Compare
    <3>3. CASE Live(t) /\ Verdict(t) = "count"
      <4>1. BeingCounted = 0 BY <1>9, <3>3, CountedByHolder DEF Lookup
      <4> QED BY <2>0, <3>1, <3>2, <3>3, <4>1 DEF IndInv, TypeOK, Row, TriesCounted
    <3>4. CASE ~(Live(t) /\ Verdict(t) = "count")
      <4>1. BeingCounted \in {0, 1} BY DEF BeingCounted
      <4> QED BY <2>0, <3>1, <3>2, <3>4, <4>1 DEF IndInv, TypeOK, TriesCounted
    <3> QED BY <3>3, <3>4
  <2>3. OthersUntouched(t)
    BY <1>9 DEF IndInv, TypeOK, OthersUntouched, Lookup, GoTo, Finish, EndTransaction
  <2>4. LocksFollow(t)
    BY <1>9 DEF IndInv, TypeOK, LocksInv, LocksFollow, HoldsRow, HoldsMailbox, Lookup,
       Verdict, GoTo, Finish, EndTransaction, Without
  <2>5. HandlerInv(t)'
    BY <1>9 DEF IndInv, TypeOK, HandlerInv, Live, Exhausted, Lookup, Verdict, GoTo, Finish,
       EndTransaction
  <2>6. now' = now /\ RowFollows(t)
    BY <1>9 DEF RowFollows, Lookup
  <2> QED BY <2>1, <2>2, <2>3, <2>4, <2>5, <2>6, HandlerStep
<1>10. ASSUME NEW t \in Task, Drop(t) PROVE IndInv'
  <2>1. TypeOK'
    BY <1>10 DEF IndInv, TypeOK, tries, Time, Statement, Drop, GoTo, Finish, EndTransaction,
       Without
  <2>2. OthersUntouched(t)
    BY <1>10 DEF OthersUntouched, Drop, GoTo, Finish, EndTransaction
  <2>3. TriesCounted'
    BY <1>10, <2>2, TriesKept DEF IndInv, TypeOK, Drop, GoTo, Finish, EndTransaction, tries
  <2>4. LocksFollow(t)
    BY <1>10 DEF IndInv, TypeOK, LocksFollow, HoldsRow, HoldsMailbox, Drop, GoTo, Finish,
       EndTransaction
  <2>5. HandlerInv(t)'
    BY <1>10 DEF IndInv, TypeOK, HandlerInv, Drop, GoTo, Finish, EndTransaction
  <2>6. now' = now /\ RowFollows(t)
    BY <1>10 DEF RowFollows, HoldsRow, Drop
  <2> QED BY <2>1, <2>2, <2>3, <2>4, <2>5, <2>6, HandlerStep
<1>11. ASSUME NEW t \in Task, Count(t) PROVE IndInv'
  <2>0. row # None /\ row \in Row /\ row.attempts < MaxAttempts
    BY <1>11 DEF IndInv, TypeOK, Row, HandlerInv, Live, Exhausted, Count
  <2>1. TypeOK'
    <3>1. row' \in Row BY <1>11, <2>0 DEF Row, Count
    <3>2. 0 \in Time BY DEF Time
    <3> QED
      BY <1>11, <3>1, <3>2 DEF IndInv, TypeOK, tries, Statement, Count, GoTo, Finish,
         EndTransaction, Without
  <2>2. OthersUntouched(t)
    BY <1>11 DEF OthersUntouched, Count, GoTo, Finish, EndTransaction
  <2>3. TriesCounted'
    <3>1. BeingCounted = 1 /\ BeingCounted' = 0
      BY <1>11, <2>2, CountEnds DEF Count, Finish, EndTransaction
    <3>2. row'.attempts = row.attempts + 1 BY <1>11, <2>0 DEF Row, Count
    <3>3. compared = row.attempts + forgotten + 1 /\ compared <= MaxAttempts + forgotten
      BY <2>0, <3>1 DEF IndInv, TriesCounted, Row
    <3>4. compared' = compared /\ forgotten' = forgotten BY <1>11 DEF Count, tries
    <3> QED BY <2>0, <3>1, <3>2, <3>3, <3>4 DEF IndInv, TypeOK, Row, TriesCounted
  <2>4. LocksFollow(t)
    BY <1>11 DEF IndInv, TypeOK, LocksFollow, HoldsRow, HoldsMailbox, Count, GoTo, Finish,
       EndTransaction
  <2>5. HandlerInv(t)'
    BY <1>11 DEF IndInv, TypeOK, HandlerInv, Count, GoTo, Finish, EndTransaction
  <2>6. now' = now /\ RowFollows(t)
    BY <1>11 DEF RowFollows, HoldsRow, Count
  <2> QED BY <2>1, <2>2, <2>3, <2>4, <2>5, <2>6, HandlerStep
<1>12. ASSUME NEW t \in Task, InsertUser(t) PROVE IndInv'
  <2>1. TypeOK'
    BY <1>12 DEF IndInv, TypeOK, tries, Time, Statement, InsertUser, GoTo, Finish,
       EndTransaction,
       Without, locks
  <2>2. OthersUntouched(t)
    BY <1>12 DEF IndInv, TypeOK, OthersUntouched, InsertUser, GoTo, Finish, EndTransaction
  <2>3. TriesCounted'
    BY <1>12, <2>2, TriesKept DEF IndInv, TypeOK, InsertUser, GoTo, Finish,
       EndTransaction, tries
  <2>4. LocksFollow(t)
    BY <1>12 DEF IndInv, TypeOK, LocksInv, LocksFollow, HoldsRow, HoldsMailbox, InsertUser,
       GoTo, Finish, EndTransaction, Without, locks
  <2>5. HandlerInv(t)'
    BY <1>12 DEF IndInv, TypeOK, HandlerInv, Live, Exhausted, InsertUser, GoTo, Finish,
       EndTransaction
  <2>6. now' = now /\ RowFollows(t)
    BY <1>12 DEF RowFollows, InsertUser
  <2> QED BY <2>1, <2>2, <2>3, <2>4, <2>5, <2>6, HandlerStep
<1>13. ASSUME NEW t \in Task, Erase(t) PROVE IndInv'
  <2>1. TypeOK'
    BY <1>13 DEF IndInv, TypeOK, tries, Time, Statement, Erase, GoTo, Finish,
       EndTransaction,
       Without
  <2>2. OthersUntouched(t)
    BY <1>13 DEF OthersUntouched, Erase, GoTo, Finish, EndTransaction
  <2>3. TriesCounted'
    BY <1>13, <2>2, TriesKept DEF IndInv, TypeOK, Erase, GoTo, Finish, EndTransaction, tries
  <2>4. LocksFollow(t)
    BY <1>13 DEF IndInv, TypeOK, LocksFollow, HoldsRow, HoldsMailbox, Erase, GoTo, Finish,
       EndTransaction
  <2>5. HandlerInv(t)'
    BY <1>13 DEF IndInv, TypeOK, HandlerInv, Erase, GoTo, Finish, EndTransaction
  <2>6. now' = now /\ RowFollows(t)
    BY <1>13 DEF RowFollows, HoldsRow, Erase
  <2> QED BY <2>1, <2>2, <2>3, <2>4, <2>5, <2>6, HandlerStep
<1>14. ASSUME NEW t \in Task, Fail(t) PROVE IndInv'
  <2>1. TypeOK'
    <3>1. compared' = compared /\ forgotten' \in 0 .. Losses
      BY <1>14 DEF IndInv, TypeOK, Fail
    <3> QED
      BY <1>14, <3>1 DEF IndInv, TypeOK, Time, Statement, Fail, GoTo, Finish,
         EndTransaction, Without
  <2>2. OthersUntouched(t)
    BY <1>14 DEF OthersUntouched, Fail, GoTo, Finish, EndTransaction
  <2>3. TriesCounted'
    <3>1. CASE pc[t] = "count"
      <4>1. BeingCounted = 1 /\ BeingCounted' = 0
        BY <1>14, <2>2, <3>1, CountEnds DEF Fail, Finish, EndTransaction
      <4> QED
        BY <1>14, <3>1, <4>1 DEF IndInv, TypeOK, Row, TriesCounted, Fail
    <3>2. CASE pc[t] # "count"
      BY <1>14, <2>2, <3>2, TriesKept DEF IndInv, TypeOK, Fail, Finish, EndTransaction, GoTo
    <3> QED BY <3>1, <3>2
  <2>4. LocksFollow(t)
    BY <1>14 DEF IndInv, TypeOK, LocksFollow, HoldsRow, HoldsMailbox, Fail, GoTo, Finish,
       EndTransaction
  <2>5. HandlerInv(t)'
    BY <1>14 DEF IndInv, TypeOK, HandlerInv, Fail, GoTo, Finish, EndTransaction
  <2>6. now' = now /\ RowFollows(t)
    BY <1>14 DEF RowFollows, Fail
  <2> QED BY <2>1, <2>2, <2>3, <2>4, <2>5, <2>6, HandlerStep
<1> QED BY <1>0, <1>1, <1>2, <1>3, <1>4, <1>5, <1>6, <1>7, <1>8, <1>9, <1>10, <1>11, <1>12,
           <1>13, <1>14 DEF Next, Work

-----------------------------------------------------------------------------
(* The theorems *)

\* Every reachable state satisfies the inductive invariant.
THEOREM InvariantHolds == Spec => []IndInv
BY InitIndInv, NextIndInv, PTL DEF Spec

\* The row, the locks and the handlers keep their shape.
THEOREM TypeCorrect == Spec => []TypeOK
<1>1. IndInv => TypeOK BY DEF IndInv
<1> QED BY <1>1, InvariantHolds, PTL

\* However many codes are tried at once, every wrong one that was compared is
\* counted, is about to be, or was forgotten by the failure of its own handler; so
\* but for such failures none is compared beyond MAX_VERIFICATION_ATTEMPTS.
THEOREM AllTriesCounted == Spec => []TriesCounted
<1>1. IndInv => TriesCounted BY DEF IndInv
<1> QED BY <1>1, InvariantHolds, PTL

\* An account only opens for the code in the row, valid when the transaction
\* began: FOR UPDATE keeps the row as it was compared until the commit.
THEOREM AccountsNeedCode == Spec => AccountsOpenByCode
<1> DEFINE A == account' /\ ~account =>
                  \E t \in Task :
                     /\ pc[t] = "erase" /\ rowLock = t
                     /\ row # None /\ row.code = code[t]
                     /\ compared < MaxAttempts + forgotten
                     /\ begun[t] < row.created_at + Validity
<1>1. IndInv /\ [Next]_vars => [A]_vars
  <2> SUFFICES ASSUME IndInv, Next, account', ~account PROVE A
    OBVIOUS
  <2>1. PICK t \in Task : Erase(t)
    BY DEF Next, Work, Tick, StartSend, StartRegistration, Begin, LockMailbox,
       CheckCooldown, Upsert, Issue, Mail, Lookup, Drop, Count, InsertUser, Fail
  <2>2. HandlerInv(t) /\ pc[t] = "erase" /\ rowLock = t
    BY <2>1 DEF IndInv, LocksInv, HoldsRow, Erase
  <2>3. row # None /\ row.code = code[t] /\ begun[t] < row.created_at + Validity
    BY <2>2 DEF HandlerInv, Live
  <2>4. compared < MaxAttempts + forgotten
    <3>1. row \in Row /\ row.attempts < MaxAttempts
      BY <2>2, <2>3, RegistrationAssumption DEF IndInv, TypeOK, Row, HandlerInv, Exhausted
    <3>2. BeingCounted = 0 BY <2>2, CountedByHolder
    <3> QED
      BY <2>3, <3>1, <3>2, RegistrationAssumption DEF IndInv, TypeOK, Row, TriesCounted
  <2> QED BY <2>2, <2>3, <2>4
<1> QED BY <1>1, InvariantHolds, PTL DEF Spec, AccountsOpenByCode

\* A code in use is never replaced before its cooldown is over: the advisory
\* lock of the mailbox covers the check and the commit.
THEOREM CooldownHolds == Spec => CooldownKept
<1> DEFINE A == row # None /\ row' # None /\ row'.attempts <= row.attempts /\ row' # row
                  => now - row.created_at >= Resend
<1>1. IndInv /\ [Next]_vars => [A]_vars
  <2> SUFFICES ASSUME IndInv, Next, row # None, row' # None, row'.attempts <= row.attempts,
                      row' # row
               PROVE  now - row.created_at >= Resend
    OBVIOUS
  <2>1. row \in Row BY DEF IndInv, TypeOK
  <2>2. PICK t \in Task : Issue(t) \/ Count(t)
    BY DEF Next, Work, Tick, StartSend, StartRegistration, Begin, LockMailbox,
       CheckCooldown, Upsert, Mail, Lookup, Drop, InsertUser, Erase, Fail
  <2>3. ~Count(t) BY <2>1 DEF Count, Row
  <2>4. ~CoolingDown BY <2>2, <2>3 DEF IndInv, HandlerInv, Issue
  <2> QED BY <2>1, <2>4, RegistrationAssumption DEF CoolingDown, IndInv, TypeOK, Row, Time
<1> QED BY <1>1, InvariantHolds, PTL DEF Spec, CooldownKept
=============================================================================
