------------------------- MODULE RateLimiterProofs -------------------------
(***************************************************************************)
(* What the sliding window of RateLimiter keeps, proved for any number of  *)
(* requests and keys, any limit and any window: stamps may enter a deque   *)
(* in any order and sweeps may be late by any time.                        *)
(***************************************************************************)
EXTENDS RateLimiter, FiniteSetTheorems, WellFoundedInduction, TLAPS

\* A stamp within the window, by the clock, has expired for nobody.
LEMMA FreshStays ==
  ASSUME TypeOK, NEW r \in Request, NEW q \in Request,
         stamp[r] <= now, stamp[q] + Window > now
  PROVE  ~Expired(q, r)
  BY LimiterAssumption DEF TypeOK, Time, Expired, Since

\* What is counted are entries of the key, those within the window among them.
LEMMA CountedEntries ==
  ASSUME IndInv, NEW r \in Request
  PROVE  /\ Counted(r) \subseteq entries[key[r]]
         /\ IsFiniteSet(Counted(r))
         /\ Cardinality(Counted(r)) \in Nat
         /\ Cardinality(Counted(r)) <= Cardinality(entries[key[r]])
         /\ Cardinality(Counted(r)) <= MaxRequests
<1>1. Counted(r) \subseteq entries[key[r]] BY DEF Counted, Popped, Kept
<1>2. /\ IsFiniteSet(entries[key[r]]) /\ Cardinality(entries[key[r]]) <= MaxRequests
  BY DEF IndInv, TypeOK
<1>3. IsFiniteSet(Counted(r)) /\ Cardinality(Counted(r)) <= Cardinality(entries[key[r]])
  BY <1>1, <1>2, FS_Subset
<1>4. Cardinality(Counted(r)) \in Nat /\ Cardinality(entries[key[r]]) \in Nat
  BY <1>2, <1>3, FS_CardinalityType
<1> QED BY <1>1, <1>2, <1>3, <1>4, LimiterAssumption

\* A set of numbers that is not empty has a least one.
LEMMA LeastNumber ==
  ASSUME NEW T \in SUBSET Nat, T # {}
  PROVE  \E m \in T : \A n \in T : m <= n
<1> DEFINE R == {p \in Nat \X Nat : p[1] < p[2]}
<1>1. OpToRel(<, Nat) = R BY DEF OpToRel
<1>2. IsWellFoundedOn(R, Nat) BY <1>1, NatLessThanWellFounded
<1>3. PICK m \in T : \A n \in T : <<n, m>> \notin R
  BY <1>2, WFMin
<1>4. \A n \in T : ~(n < m) BY <1>3
<1> QED BY <1>4

\* What a full window counts has a front, which no other entry is before.
LEMMA FrontIsEarliest ==
  ASSUME IndInv, NEW r \in Request, Cardinality(Counted(r)) >= MaxRequests
  PROVE  /\ Front(Counted(r)) \in Counted(r)
         /\ \A q \in Counted(r) : turn[Front(Counted(r))] <= turn[q]
<1>1. Counted(r) # {}
  BY FS_EmptySet, LimiterAssumption
<1>2. Counted(r) \subseteq Request
  BY CountedEntries DEF IndInv, TypeOK
<1> DEFINE places == {turn[q] : q \in Counted(r)}
<1>3. places \in SUBSET Nat /\ places # {}
  BY <1>1, <1>2 DEF IndInv, TypeOK
<1>4. \E m \in places : \A n \in places : m <= n
  BY <1>3, LeastNumber
<1>5. \E f \in Counted(r) : \A q \in Counted(r) : turn[f] <= turn[q]
  BY <1>4
<1> QED BY <1>5 DEF Front

\* A turn of r leaves every deque finite, within the limit, and with all the
\* stamps of the window.
LEMMA TurnKeeps ==
  ASSUME IndInv, NEW r \in Request, NEW left, pc[r] = "check", TakeTurn(r, left),
         \/ left = Counted(r) /\ pc' = [pc EXCEPT ![r] = "refused"]
         \/ /\ left = Counted(r) \cup {r} /\ pc' = [pc EXCEPT ![r] = "allowed"]
            /\ Cardinality(Counted(r)) < MaxRequests,
         retry' \in [Request -> Nat]
  PROVE  IndInv'
<1>1. TypeOK'
  <2>1. /\ left \subseteq Request
        /\ pc' \in [Request -> {"away", "sweep", "check", "allowed", "refused"}]
    BY CountedEntries DEF IndInv, TypeOK
  <2>2. entries' \in [Key -> SUBSET Request]
    BY <2>1 DEF IndInv, TypeOK, TakeTurn, Kept
  <2> QED BY <2>1, <2>2 DEF IndInv, TypeOK, TakeTurn
<1>2. \A q \in Request : stamp'[q] <= now'
  BY DEF IndInv, TakeTurn
<1>3. ASSUME NEW k \in Key
      PROVE  /\ entries'[k] \subseteq Allowed(k)'
             /\ IsFiniteSet(entries'[k]) /\ Cardinality(entries'[k]) <= MaxRequests
             /\ \A q \in Allowed(k)' : stamp'[q] + Window > now' => q \in entries'[k]
  <2>1. /\ entries[k] \subseteq Allowed(k)
        /\ IsFiniteSet(entries[k]) /\ Cardinality(entries[k]) <= MaxRequests
        /\ \A q \in Allowed(k) : stamp[q] + Window > now => q \in entries[k]
    BY DEF IndInv
  <2>2. Allowed(k) \subseteq Allowed(k)' /\ Allowed(k)' \subseteq Allowed(k) \cup {r}
    BY DEF Allowed, TakeTurn, IndInv, TypeOK
  <2>3. ASSUME NEW q \in Allowed(k), stamp[q] + Window > now
        PROVE  q \in entries[k] /\ ~Expired(q, r)
    BY <2>1, <2>3, FreshStays DEF IndInv, Allowed
  <2>4. CASE k # key[r]
    <3>1. entries'[k] = Kept(r, k) BY <2>4 DEF TakeTurn, IndInv, TypeOK
    <3>2. Kept(r, k) \subseteq entries[k] BY DEF Kept
    <3>3. IsFiniteSet(Kept(r, k)) /\ Cardinality(Kept(r, k)) <= Cardinality(entries[k])
      BY <2>1, <3>2, FS_Subset
    <3>4. Cardinality(Kept(r, k)) \in Nat /\ Cardinality(entries[k]) \in Nat
      BY <2>1, <3>3, FS_CardinalityType
    <3>5. Allowed(k)' = Allowed(k)
      BY <2>4 DEF Allowed, TakeTurn, IndInv, TypeOK
    <3>6. \A q \in Allowed(k) : stamp[q] + Window > now => q \in Kept(r, k)
      BY <2>3 DEF Kept
    <3>7. Cardinality(Kept(r, k)) <= MaxRequests
      BY <2>1, <3>3, <3>4, LimiterAssumption
    <3> QED BY <2>1, <3>1, <3>2, <3>3, <3>5, <3>6, <3>7 DEF TakeTurn
  <2>5. CASE k = key[r]
    <3>1. entries'[k] = left BY <2>5 DEF TakeTurn, IndInv, TypeOK
    <3>2. \A q \in Allowed(k) : stamp[q] + Window > now => q \in Counted(r)
      <4> SUFFICES ASSUME NEW q \in Allowed(k), stamp[q] + Window > now
                   PROVE  q \in Counted(r)
        OBVIOUS
      <4>1. q \in Kept(r, k) /\ ~Expired(q, r) BY <2>3 DEF Kept
      <4>2. turn[q] <= turn[q] BY DEF Allowed, IndInv, TypeOK
      <4> QED BY <2>5, <4>1, <4>2 DEF Counted, Popped
    <3>3. /\ Counted(r) \subseteq entries[k] /\ IsFiniteSet(Counted(r))
          /\ Cardinality(Counted(r)) \in Nat /\ Cardinality(Counted(r)) <= MaxRequests
      BY <2>5, CountedEntries
    <3>4. CASE left = Counted(r)
      BY <2>1, <2>2, <3>1, <3>2, <3>3, <3>4 DEF TakeTurn, Allowed, IndInv, TypeOK
    <3>5. CASE /\ left = Counted(r) \cup {r} /\ pc' = [pc EXCEPT ![r] = "allowed"]
               /\ Cardinality(Counted(r)) < MaxRequests
      <4>1. /\ IsFiniteSet(left)
            /\ Cardinality(left) \in {Cardinality(Counted(r)), Cardinality(Counted(r)) + 1}
        BY <3>3, <3>5, FS_AddElement
      <4>0. Cardinality(left) <= MaxRequests
        BY <3>3, <3>5, <4>1, LimiterAssumption
      <4>2. r \in Allowed(k)' BY <2>5, <3>5 DEF Allowed, TakeTurn, IndInv, TypeOK
      <4> QED BY <2>1, <2>2, <3>1, <3>2, <3>3, <3>5, <4>0, <4>1, <4>2 DEF TakeTurn
    <3> QED BY <3>4, <3>5
  <2> QED BY <2>4, <2>5
<1> QED BY <1>1, <1>2, <1>3 DEF IndInv

LEMMA InitIndInv ==
  ASSUME Init
  PROVE  IndInv
<1>1. TypeOK BY LimiterAssumption DEF Init, TypeOK, Time
<1>2. \A k \in Key : Allowed(k) = {} BY DEF Init, Allowed
<1> QED
  BY <1>1, <1>2, FS_EmptySet, LimiterAssumption DEF Init, IndInv

\* The time a refused request is given is a number of seconds, and long enough.
LEMMA RetryLongEnough ==
  ASSUME NEW d \in Nat
  PROVE  RetryAfterSeconds(d) \in Nat /\ RetryAfterSeconds(d) * Second >= d
<1>1. ASSUME NEW s \in Nat, s > 0
      PROVE  (d + s - 1) \div s \in Nat /\ ((d + s - 1) \div s) * s >= d
  <2>1. ASSUME NEW m \in Nat PROVE m \div s \in Nat /\ (m \div s) * s > m - s
    BY <1>1
  <2>2. d + s - 1 \in Nat BY <1>1
  <2> DEFINE seconds == (d + s - 1) \div s
  <2>3. seconds \in Nat /\ seconds * s > d + s - 1 - s BY <2>1, <2>2
  <2>4. seconds * s \in Nat BY <2>3
  <2> HIDE DEF seconds
  <2>5. seconds * s >= d BY <2>3, <2>4
  <2> QED BY <2>3, <2>5 DEF seconds
<1> QED BY <1>1, LimiterAssumption DEF RetryAfterSeconds

LEMMA SinceType ==
  ASSUME NEW a \in Nat, NEW b \in Nat
  PROVE  Since(a, b) \in Nat
  BY DEF Since

\* Refuse answers a number of seconds, whatever the front of the deque is.
LEMMA RefusalTime ==
  ASSUME IndInv, NEW r \in Request, Refuse(r)
  PROVE  retry' \in [Request -> Nat]
<1> DEFINE f == Front(Counted(r))
<1>1. f \in Counted(r)
  BY FrontIsEarliest DEF Refuse
<1>2. stamp[r] \in Nat /\ stamp[f] \in Nat /\ Window \in Nat
  BY <1>1, CountedEntries, LimiterAssumption DEF IndInv, TypeOK, Time, Allowed
<1>3. Since(Window, Since(stamp[r], stamp[f])) \in Nat
  BY <1>2, SinceType
<1>4. RetryAfterSeconds(Since(Window, Since(stamp[r], stamp[f]))) \in Nat
  BY <1>3, RetryLongEnough
<1> QED BY <1>4 DEF Refuse, IndInv, TypeOK

\* Every step keeps the invariant.
LEMMA StepIndInv ==
  ASSUME IndInv, [Next]_vars
  PROVE  IndInv'
<1>1. ASSUME NEW r \in Request, Arrive(r) PROVE IndInv'
  <2>1. TypeOK' BY <1>1 DEF IndInv, TypeOK, Arrive, GoTo, decided, Time
  <2>2. \A k \in Key : /\ Allowed(k)' = Allowed(k)
                       /\ \A q \in Allowed(k) : stamp'[q] = stamp[q]
    BY <1>1 DEF IndInv, TypeOK, Arrive, GoTo, decided, Allowed
  <2>3. \A q \in Request : stamp'[q] <= now'
    BY <1>1 DEF IndInv, TypeOK, Arrive, Time
  <2> QED BY <1>1, <2>1, <2>2, <2>3 DEF IndInv, Arrive
<1>2. ASSUME NEW r \in Request, DecideSweep(r) PROVE IndInv'
  <2>1. TypeOK' BY <1>2 DEF IndInv, TypeOK, DecideSweep, GoTo, decided, SweepDue
  <2>2. \A k \in Key : Allowed(k)' = Allowed(k)
    BY <1>2 DEF IndInv, TypeOK, DecideSweep, GoTo, decided, Allowed
  <2> QED BY <1>2, <2>1, <2>2 DEF IndInv, DecideSweep
<1>3. ASSUME NEW r \in Request, Allow(r) PROVE IndInv'
  <2>1. retry' \in [Request -> Nat] BY <1>3 DEF Allow, IndInv, TypeOK
  <2> QED BY <1>3, <2>1, TurnKeeps DEF Allow, GoTo
<1>4. ASSUME NEW r \in Request, Refuse(r) PROVE IndInv'
  <2>1. retry' \in [Request -> Nat] BY <1>4, RefusalTime
  <2> QED BY <1>4, <2>1, TurnKeeps DEF Refuse, GoTo
<1>5. CASE Tick
  <2>1. TypeOK' BY <1>5, LimiterAssumption DEF IndInv, TypeOK, Tick, decided, Time
  <2>2. \A k \in Key : Allowed(k)' = Allowed(k) BY <1>5 DEF Tick, Allowed, decided
  <2>3. \A q \in Request : stamp[q] <= now'
                           /\ (stamp[q] + Window > now' => stamp[q] + Window > now)
    BY <1>5, LimiterAssumption DEF IndInv, TypeOK, Tick, Time
  <2> QED BY <1>5, <2>1, <2>2, <2>3 DEF IndInv, Tick, Allowed
<1>6. CASE UNCHANGED vars
  BY <1>6 DEF vars, decided, IndInv, TypeOK, Allowed
<1> QED BY <1>1, <1>2, <1>3, <1>4, <1>5, <1>6 DEF Next

\* The window never loses a stamp that has not expired, and never holds more than
\* the limit: `entries` of check_at.
THEOREM WindowComplete == Spec => []IndInv
<1>1. Init => IndInv BY InitIndInv
<1>2. IndInv /\ [Next]_vars => IndInv' BY StepIndInv
<1> QED BY <1>1, <1>2, PTL DEF Spec

\* No key has had more than the limit allowed in the window that ends now.
THEOREM LimitAlwaysKept == Spec => []LimitKept
<1>1. IndInv => LimitKept
  <2> SUFFICES ASSUME IndInv, NEW k \in Key
               PROVE  Cardinality({r \in Allowed(k) : stamp[r] + Window > now}) <= MaxRequests
    BY DEF LimitKept
  <2> DEFINE recent == {r \in Allowed(k) : stamp[r] + Window > now}
  <2>1. recent \subseteq entries[k] /\ IsFiniteSet(entries[k])
        /\ Cardinality(entries[k]) <= MaxRequests
    BY DEF IndInv
  <2>2. IsFiniteSet(recent) /\ Cardinality(recent) <= Cardinality(entries[k])
    BY <2>1, FS_Subset
  <2>3. Cardinality(recent) \in Nat /\ Cardinality(entries[k]) \in Nat
    BY <2>1, <2>2, FS_CardinalityType
  <2> QED BY <2>1, <2>2, <2>3, LimiterAssumption
<1> QED BY <1>1, WindowComplete, PTL

-----------------------------------------------------------------------------
(* Refusals: turns are taken one after the other *)

Decided(r) == pc[r] \in {"allowed", "refused"}

\* Every turn has a place of its own, before those that are still to come.
TurnInv ==
    /\ \A k \in Key : IsFiniteSet(Allowed(k))
    /\ \A r \in Request : Decided(r) => turn[r] < turns
    /\ \A r, q \in Request : Decided(r) /\ Decided(q) /\ turn[r] = turn[q] => r = q

LetInSince(r) == \E x \in Allowed(key[r]) : turn[r] < turn[x]
AheadOf(r) == \E x \in Allowed(key[r]) : turn[x] < turn[r] /\ stamp[x] > stamp[r]

\* The front f of the deque will have left the window as r was promised.
LeavesInTime(f, r) ==
    /\ f \in entries[key[r]]
    /\ \A q \in entries[key[r]] : turn[f] <= turn[q]
    /\ stamp[f] + Window <= stamp[r] + retry[r] * Second

\* What makes the Retry-After of r come true, unless others of its key are let
\* in first: there is room, or the front makes room in time.
PromiseInv ==
    \A r \in Request : pc[r] = "refused" =>
        \/ LetInSince(r) \/ AheadOf(r)
        \/ Cardinality(entries[key[r]]) < MaxRequests
        \/ \E f \in Request : LeavesInTime(f, r)

\* A step in which nobody has a turn at the deques.
NoTurn ==
    /\ UNCHANGED <<entries, turns, turn, retry, key>>
    /\ \A r \in Request : /\ Decided(r)' = Decided(r)
                          /\ pc'[r] = "refused" <=> pc[r] = "refused"
                          /\ Decided(r) => stamp'[r] = stamp[r]
    /\ \A k \in Key : Allowed(k)' = Allowed(k)

\* A turn of r, as the others see it.
Turn(r) ==
    /\ pc[r] = "check" /\ Decided(r)'
    /\ turn'[r] = turns /\ turns' = turns + 1
    /\ UNCHANGED <<key, stamp>>
    /\ \A q \in Request \ {r} : pc'[q] = pc[q] /\ turn'[q] = turn[q] /\ retry'[q] = retry[q]
    /\ \A k \in Key : Allowed(k) \subseteq Allowed(k)' /\ Allowed(k)' \subseteq Allowed(k) \cup {r}

LEMMA StepKinds ==
  ASSUME IndInv, [Next]_vars
  PROVE  \/ NoTurn
         \/ \E r \in Request : Turn(r) /\ (Allow(r) \/ Refuse(r))
<1>1. ASSUME NEW r \in Request, Arrive(r) \/ DecideSweep(r) PROVE NoTurn
  BY <1>1 DEF IndInv, TypeOK, Arrive, DecideSweep, GoTo, decided, NoTurn, Decided, Allowed
<1>2. ASSUME NEW r \in Request, Allow(r) \/ Refuse(r) PROVE Turn(r)
  BY <1>2 DEF IndInv, TypeOK, Allow, Refuse, TakeTurn, GoTo, Turn, Decided, Allowed
<1>3. ASSUME Tick \/ UNCHANGED vars PROVE NoTurn
  BY <1>3 DEF Tick, vars, decided, NoTurn, Decided, Allowed
<1> QED BY <1>1, <1>2, <1>3 DEF Next

LEMMA StepTurnInv ==
  ASSUME IndInv, TurnInv, [Next]_vars
  PROVE  TurnInv'
<1>1. CASE NoTurn BY <1>1 DEF NoTurn, TurnInv, Decided
<1>2. ASSUME NEW r \in Request, Turn(r) PROVE TurnInv'
  <2>1. ASSUME NEW k \in Key PROVE IsFiniteSet(Allowed(k)')
    BY <1>2, <2>1, FS_AddElement, FS_Subset DEF TurnInv, Turn
  <2>2. \A q \in Request \ {r} : Decided(q)' = Decided(q) /\ turn'[q] = turn[q]
    BY <1>2 DEF Turn, Decided
  <2>3. turns \in Nat /\ turn'[r] = turns /\ turns' = turns + 1 /\ turn \in [Request -> Nat]
    BY <1>2 DEF Turn, IndInv, TypeOK
  <2> QED BY <2>1, <2>2, <2>3 DEF TurnInv
<1> QED BY <1>1, <1>2, StepKinds

\* A full deque at the turn of r is the deque as it was.
LEMMA FullDeque ==
  ASSUME IndInv, NEW r \in Request, Cardinality(Counted(r)) >= MaxRequests
  PROVE  Counted(r) = entries[key[r]]
<1>1. /\ IsFiniteSet(entries[key[r]]) /\ Cardinality(entries[key[r]]) <= MaxRequests
  BY DEF IndInv, TypeOK
<1>2. Cardinality(entries[key[r]]) \in Nat BY <1>1, FS_CardinalityType
<1>3. Cardinality(Counted(r)) = Cardinality(entries[key[r]])
  BY <1>1, <1>2, CountedEntries, LimiterAssumption
<1> QED BY <1>1, <1>3, CountedEntries, FS_Subset

\* What is counted has been allowed, hence decided.
LEMMA EntryTypes ==
  ASSUME IndInv, NEW k \in Key, NEW q \in entries[k]
  PROVE  q \in Request /\ Decided(q) /\ turn[q] \in Nat /\ stamp[q] \in Nat
  BY DEF IndInv, TypeOK, Allowed, Decided, Time

\* The front of what is counted is within the window.
LEMMA FrontIsLive ==
  ASSUME IndInv, TurnInv, NEW r \in Request, Cardinality(Counted(r)) >= MaxRequests
  PROVE  ~Expired(Front(Counted(r)), r)
<1> DEFINE f == Front(Counted(r))
<1>0. key[r] \in Key BY DEF IndInv, TypeOK
<1>1. f \in Counted(r) /\ \A q \in Counted(r) : turn[f] <= turn[q] BY FrontIsEarliest
<1>2. PICK p \in Kept(r, key[r]) : turn[p] <= turn[f] /\ ~Expired(p, r)
  BY <1>1 DEF Counted, Popped
<1>3. p \in entries[key[r]] /\ f \in entries[key[r]]
  BY <1>1, <1>2, CountedEntries DEF Kept
<1>4. /\ p \in Request /\ Decided(p) /\ turn[p] \in Nat
      /\ f \in Request /\ Decided(f) /\ turn[f] \in Nat
  BY <1>0, <1>3, EntryTypes
<1>5. p \in Counted(r)
  BY <1>2, <1>4 DEF Counted, Popped
<1>6. p = f BY <1>1, <1>2, <1>4, <1>5 DEF TurnInv
<1> QED BY <1>2, <1>6

\* A request that is refused is promised enough.
LEMMA RefusedIsPromised ==
  ASSUME IndInv, TurnInv, NEW r \in Request, Refuse(r)
  PROVE  AheadOf(r)' \/ \E f \in Request : LeavesInTime(f, r)'
<1>1. Cardinality(Counted(r)) >= MaxRequests BY DEF Refuse
<1>2. PICK f \in Counted(r) : /\ f = Front(Counted(r))
                              /\ \A q \in Counted(r) : turn[f] <= turn[q]
  BY <1>1, FrontIsEarliest
<1> DEFINE age == Since(stamp[r], stamp[f])
           wait == Since(Window, age)
<1>3. key[r] \in Key /\ f \in entries[key[r]] /\ f # r /\ f \in Allowed(key[r])
  BY <1>2, CountedEntries DEF IndInv, TypeOK, Refuse, Allowed
<1>4. f \in Request /\ Decided(f) /\ turn[f] \in Nat /\ stamp[f] \in Nat
      /\ stamp[r] \in Nat /\ Window \in Nat
  BY <1>3, EntryTypes, LimiterAssumption DEF IndInv, TypeOK, Time
<1>5. /\ entries'[key[r]] = Counted(r) /\ UNCHANGED <<key, stamp>>
      /\ turn'[r] = turns /\ \A q \in Request \ {r} : turn'[q] = turn[q]
      /\ pc' = [pc EXCEPT ![r] = "refused"]
      /\ retry'[r] = RetryAfterSeconds(wait)
  BY <1>2, <1>3 DEF Refuse, TakeTurn, GoTo, IndInv, TypeOK
<1>6. CASE stamp[f] > stamp[r]
  <2>1. f \in Allowed(key[r])' BY <1>3, <1>4, <1>5 DEF Allowed, IndInv, TypeOK
  <2>2. turn'[f] < turn'[r] BY <1>3, <1>4, <1>5 DEF TurnInv
  <2> QED BY <1>5, <1>6, <2>1, <2>2 DEF AheadOf
<1>7. CASE ~(stamp[f] > stamp[r])
  <2>1. ~(age >= Window) BY <1>1, <1>2, FrontIsLive DEF Expired
  <2>2. wait \in Nat /\ stamp[f] + Window <= stamp[r] + wait
    BY <1>4, <1>7, <2>1 DEF Since
  <2> HIDE DEF wait
  <2>3. RetryAfterSeconds(wait) \in Nat /\ RetryAfterSeconds(wait) * Second >= wait
    BY <2>2, RetryLongEnough
  <2>4. RetryAfterSeconds(wait) * Second \in Nat BY <2>3, LimiterAssumption
  <2> DEFINE seconds == RetryAfterSeconds(wait) * Second
  <2> HIDE DEF seconds
  <2>5. seconds \in Nat /\ seconds >= wait BY <2>3, <2>4 DEF seconds
  <2>6. stamp[f] + Window <= stamp[r] + seconds
    BY <1>4, <2>2, <2>5
  <2>7. \A q \in Counted(r) : turn'[f] <= turn'[q]
    <3>1. Counted(r) \subseteq Request \ {r}
      BY <1>3, CountedEntries DEF IndInv, TypeOK, Refuse, Allowed
    <3> QED BY <1>2, <1>5, <3>1
  <2>8. stamp'[f] + Window <= stamp'[r] + retry'[r] * Second
    BY <1>5, <2>6 DEF seconds
  <2>9. LeavesInTime(f, r)' BY <1>2, <1>5, <2>7, <2>8 DEF LeavesInTime
  <2> QED BY <1>4, <2>9
<1> QED BY <1>6, <1>7

\* The turn of another leaves a promise as it was, or gives it more room.
LEMMA PromiseSurvives ==
  ASSUME IndInv, TurnInv, NEW r \in Request, NEW q \in Request \ {r}, pc[r] = "refused",
         Turn(q), Allow(q) \/ Refuse(q),
         \/ LetInSince(r) \/ AheadOf(r)
         \/ Cardinality(entries[key[r]]) < MaxRequests
         \/ \E f \in Request : LeavesInTime(f, r)
  PROVE  \/ LetInSince(r)' \/ AheadOf(r)'
         \/ Cardinality(entries'[key[r]]) < MaxRequests
         \/ \E f \in Request : LeavesInTime(f, r)'
<1>1. /\ UNCHANGED <<key, stamp>> /\ turn'[r] = turn[r] /\ retry'[r] = retry[r]
      /\ key[r] \in Key /\ turn[r] < turns /\ turn'[q] = turns
  BY DEF Turn, IndInv, TypeOK, TurnInv, Decided
<1>2. \A x \in Allowed(key[r]) : x \in Allowed(key[r])' /\ x # q /\ turn'[x] = turn[x]
  BY <1>1 DEF Turn, Allowed
<1>3. CASE LetInSince(r) BY <1>1, <1>2, <1>3 DEF LetInSince
<1>4. CASE AheadOf(r) BY <1>1, <1>2, <1>4 DEF AheadOf
<1>5. CASE Allow(q) /\ key[q] = key[r]
  <2>1. q \in Allowed(key[r])' BY <1>1, <1>5 DEF Allow, GoTo, Allowed, IndInv, TypeOK
  <2> QED BY <1>1, <2>1 DEF LetInSince
<1>6. CASE ~(Allow(q) /\ key[q] = key[r])
  <2>1. entries'[key[r]] \subseteq entries[key[r]]
    BY <1>1, <1>6, CountedEntries DEF Allow, Refuse, TakeTurn, Kept, IndInv, TypeOK
  <2>2. /\ IsFiniteSet(entries[key[r]]) /\ Cardinality(entries[key[r]]) <= MaxRequests
        /\ entries[key[r]] \subseteq Allowed(key[r])
    BY <1>1 DEF IndInv
  <2>3. /\ IsFiniteSet(entries'[key[r]])
        /\ Cardinality(entries'[key[r]]) <= Cardinality(entries[key[r]])
        /\ Cardinality(entries'[key[r]]) = Cardinality(entries[key[r]])
              => entries'[key[r]] = entries[key[r]]
    BY <2>1, <2>2, FS_Subset
  <2>4. Cardinality(entries[key[r]]) \in Nat /\ Cardinality(entries'[key[r]]) \in Nat
    BY <2>2, <2>3, FS_CardinalityType
  <2>5. CASE Cardinality(entries'[key[r]]) < MaxRequests BY <2>5
  <2>6. CASE ~(Cardinality(entries'[key[r]]) < MaxRequests)
    <3>1. entries'[key[r]] = entries[key[r]] /\ ~(Cardinality(entries[key[r]]) < MaxRequests)
      BY <2>2, <2>3, <2>4, <2>6, LimiterAssumption
    <3>2. ASSUME NEW f \in Request, LeavesInTime(f, r) PROVE LeavesInTime(f, r)'
      BY <1>1, <1>2, <2>2, <3>1, <3>2 DEF LeavesInTime
    <3> QED BY <1>3, <1>4, <3>1, <3>2
  <2> QED BY <2>5, <2>6
<1> QED BY <1>5, <1>6

LEMMA StepPromiseInv ==
  ASSUME IndInv, TurnInv, PromiseInv, [Next]_vars
  PROVE  PromiseInv'
<1>1. CASE NoTurn
  <2>1. \A k \in Key : \A x \in Allowed(k) : stamp'[x] = stamp[x]
    BY <1>1 DEF NoTurn, Allowed, Decided
  <2>2. \A k \in Key : entries[k] \subseteq Allowed(k) /\ entries'[k] = entries[k]
    BY <1>1 DEF NoTurn, IndInv
  <2> SUFFICES ASSUME NEW r \in Request, pc'[r] = "refused"
               PROVE  \/ LetInSince(r)' \/ AheadOf(r)'
                      \/ Cardinality(entries[key[r]]) < MaxRequests
                      \/ \E f \in Request : LeavesInTime(f, r)'
    BY <1>1 DEF PromiseInv, NoTurn
  <2>3. /\ pc[r] = "refused" /\ stamp'[r] = stamp[r] /\ key[r] \in Key
        /\ Allowed(key[r])' = Allowed(key[r])
        /\ UNCHANGED <<entries, turns, turn, retry, key>>
    BY <1>1 DEF NoTurn, Decided, IndInv, TypeOK
  <2>4. LetInSince(r) => LetInSince(r)' BY <2>3 DEF LetInSince
  <2>5. AheadOf(r) => AheadOf(r)' BY <2>1, <2>3 DEF AheadOf
  <2>6. ASSUME NEW f \in Request, LeavesInTime(f, r) PROVE LeavesInTime(f, r)'
    BY <2>1, <2>2, <2>3, <2>6 DEF LeavesInTime
  <2> QED BY <2>3, <2>4, <2>5, <2>6 DEF PromiseInv
<1>2. ASSUME NEW q \in Request, Turn(q), Allow(q) \/ Refuse(q) PROVE PromiseInv'
  <2> SUFFICES ASSUME NEW r \in Request, pc'[r] = "refused"
               PROVE  \/ LetInSince(r)' \/ AheadOf(r)'
                      \/ Cardinality(entries'[key'[r]]) < MaxRequests
                      \/ \E f \in Request : LeavesInTime(f, r)'
    BY DEF PromiseInv
  <2>1. CASE r = q
    <3>1. Refuse(q) BY <1>2, <2>1 DEF Allow, GoTo, IndInv, TypeOK
    <3> QED BY <2>1, <3>1, RefusedIsPromised
  <2>2. CASE r # q
    <3>1. pc[r] = "refused" /\ key' = key BY <1>2, <2>2 DEF Turn
    <3> QED BY <1>2, <2>2, <3>1, PromiseSurvives DEF PromiseInv
  <2> QED BY <2>1, <2>2
<1> QED BY <1>1, <1>2, StepKinds

\* Nobody is refused before the time he was promised.
LEMMA StepPromiseKept ==
  ASSUME IndInv, TurnInv, PromiseInv, PromiseKept, [Next]_vars
  PROVE  PromiseKept'
<1> SUFFICES ASSUME NEW r \in Request, NEW q \in Request,
                    pc'[r] = "refused", pc'[q] = "refused", key'[q] = key'[r],
                    turn'[r] < turn'[q], stamp'[q] >= stamp'[r] + retry'[r] * Second
             PROVE  \E x \in Allowed(key[r])' :
                       \/ turn'[r] < turn'[x] /\ turn'[x] < turn'[q]
                       \/ turn'[x] < turn'[r] /\ stamp'[x] > stamp'[r]
  BY DEF PromiseKept
<1>1. CASE NoTurn
  <2>1. /\ pc[r] = "refused" /\ pc[q] = "refused"
        /\ stamp'[r] = stamp[r] /\ stamp'[q] = stamp[q]
        /\ key[r] \in Key /\ UNCHANGED <<turn, retry, key>>
    BY <1>1 DEF NoTurn, Decided, IndInv, TypeOK
  <2>2. \A x \in Allowed(key[r]) : x \in Allowed(key[r])' /\ stamp'[x] = stamp[x]
    BY <1>1, <2>1 DEF NoTurn, Allowed, Decided
  <2> QED BY <2>1, <2>2 DEF PromiseKept
<1>2. ASSUME NEW z \in Request, Turn(z), Allow(z) \/ Refuse(z)
      PROVE  \E x \in Allowed(key[r])' :
                \/ turn'[r] < turn'[x] /\ turn'[x] < turn'[q]
                \/ turn'[x] < turn'[r] /\ stamp'[x] > stamp'[r]
  <2>1. /\ UNCHANGED <<key, stamp>> /\ turn'[z] = turns /\ key[r] \in Key
        /\ \A y \in Request \ {z} : pc'[y] = pc[y] /\ turn'[y] = turn[y] /\ retry'[y] = retry[y]
        /\ pc[z] = "check"
    BY <1>2 DEF Turn, IndInv, TypeOK
  <2>2. \A x \in Allowed(key[r]) : /\ x \in Allowed(key[r])' /\ turn'[x] = turn[x]
                                   /\ turn[x] < turns /\ x # z
    BY <1>2, <2>1 DEF Turn, Allowed, TurnInv, Decided
  <2>3. turns \in Nat /\ \A y \in Request : turn[y] \in Nat /\ (Decided(y) => turn[y] < turns)
    BY DEF IndInv, TypeOK, TurnInv
  <2>4. r # z
    <3>1. q # r /\ (q # z => turn[q] < turns)
      BY <2>1, <2>3 DEF Decided
    <3> QED BY <2>1, <2>3, <3>1
  <2>5. CASE q # z
    BY <2>1, <2>2, <2>4, <2>5 DEF PromiseKept
  <2>6. CASE q = z
    <3>1. pc[r] = "refused" /\ turn'[r] = turn[r] /\ retry'[r] = retry[r] BY <2>1, <2>4
    <3>2. CASE LetInSince(r)
      BY <2>1, <2>2, <2>6, <3>1, <3>2 DEF LetInSince
    <3>3. CASE AheadOf(r)
      BY <2>1, <2>2, <3>1, <3>3 DEF AheadOf
    <3>4. CASE ~LetInSince(r) /\ ~AheadOf(r)
      <4>1. Refuse(q) /\ Cardinality(Counted(q)) >= MaxRequests
        BY <1>2, <2>6 DEF Allow, Refuse, GoTo, IndInv, TypeOK
      <4>2. Counted(q) = entries[key[r]] BY <2>1, <4>1, FullDeque
      <4>3. ~(Cardinality(entries[key[r]]) < MaxRequests)
        BY <4>1, <4>2, CountedEntries, LimiterAssumption
      <4>4. PICK f \in Request : LeavesInTime(f, r)
        BY <3>1, <3>4, <4>3 DEF PromiseInv
      <4>5. f \in Counted(q) /\ \A x \in Counted(q) : turn[f] <= turn[x]
        BY <4>2, <4>4 DEF LeavesInTime
      <4>6. f = Front(Counted(q))
        <5> DEFINE g == Front(Counted(q))
        <5>1. g \in Counted(q) /\ \A x \in Counted(q) : turn[g] <= turn[x]
          BY <4>1, FrontIsEarliest
        <5>2. g \in Request /\ Decided(g) /\ turn[g] \in Nat
          BY <2>1, <4>2, <5>1, EntryTypes
        <5>3. Decided(f) /\ turn[f] \in Nat BY <2>1, <4>2, <4>5, EntryTypes
        <5>4. turn[f] <= turn[g] /\ turn[g] <= turn[f] BY <4>5, <5>1
        <5>5. turn[f] = turn[g] BY <5>2, <5>3, <5>4
        <5> QED BY <5>2, <5>3, <5>5 DEF TurnInv
      <4>7. ~Expired(f, q) BY <4>1, <4>6, FrontIsLive
      <4>8. stamp[f] + Window <= stamp[q]
        <5>1. stamp[f] + Window <= stamp[r] + retry[r] * Second BY <4>4 DEF LeavesInTime
        <5>2. stamp[q] >= stamp[r] + retry[r] * Second BY <2>1, <3>1
        <5>3. stamp[f] \in Nat /\ stamp[q] \in Nat /\ stamp[r] \in Nat /\ retry[r] \in Nat
              /\ Window \in Nat /\ Second \in Nat
          BY LimiterAssumption DEF IndInv, TypeOK, Time
        <5>4. retry[r] * Second \in Nat BY <5>3
        <5> DEFINE wait == retry[r] * Second
        <5> HIDE DEF wait
        <5>5. wait \in Nat /\ stamp[f] + Window <= stamp[r] + wait /\ stamp[q] >= stamp[r] + wait
          BY <5>1, <5>2, <5>4 DEF wait
        <5> QED BY <5>3, <5>5
      <4> QED
        BY <4>7, <4>8, LimiterAssumption DEF Expired, Since, IndInv, TypeOK, Time
    <3> QED BY <3>2, <3>3, <3>4
  <2> QED BY <2>5, <2>6
<1> QED BY <1>1, <1>2, StepKinds

LEMMA InitTurns ==
  ASSUME Init
  PROVE  TurnInv /\ PromiseInv /\ PromiseKept
<1>1. \A k \in Key : Allowed(k) = {} BY DEF Init, Allowed
<1>2. \A r \in Request : ~Decided(r) /\ pc[r] # "refused" BY DEF Init, Decided
<1> QED BY <1>1, <1>2, FS_EmptySet DEF TurnInv, PromiseInv, PromiseKept

\* Retry-After is honest: retry_after_seconds, counted from the front of the
\* deque, is never too short.
THEOREM PromiseAlwaysKept == Spec => []PromiseKept
<1> DEFINE Inv == IndInv /\ TurnInv /\ PromiseInv /\ PromiseKept
<1>1. Init => Inv BY InitIndInv, InitTurns
<1>2. Inv /\ [Next]_vars => Inv'
  BY StepIndInv, StepTurnInv, StepPromiseInv, StepPromiseKept
<1> QED BY <1>1, <1>2, PTL DEF Spec

\* Nobody is refused whose window is not full, unless stamps of his key have
\* overtaken each other on their way to the lock.
THEOREM NeverNeedlesslyRefused == Spec => NoNeedlessRefusal
<1> DEFINE Inv == IndInv /\ TurnInv
           Justified ==
             \A r \in Request :
               pc[r] = "check" /\ pc'[r] = "refused" =>
                 \/ Cardinality({q \in Allowed(key[r]) : stamp[q] + Window > stamp[r]})
                        >= MaxRequests
                 \/ Overtaken(key[r])
<1>1. Init => Inv BY InitIndInv, InitTurns
<1>2. Inv /\ [Next]_vars => Inv' BY StepIndInv, StepTurnInv
<1>3. Inv /\ [Next]_vars => [Justified]_vars
  <2> SUFFICES ASSUME Inv, [Next]_vars, NEW r \in Request,
                      pc[r] = "check", pc'[r] = "refused", ~Overtaken(key[r])
               PROVE  Cardinality({q \in Allowed(key[r]) : stamp[q] + Window > stamp[r]})
                         >= MaxRequests
    OBVIOUS
  <2> DEFINE recent == {q \in Allowed(key[r]) : stamp[q] + Window > stamp[r]}
  <2>1. Refuse(r)
    <3>1. PICK z \in Request : Turn(z) /\ (Allow(z) \/ Refuse(z))
      BY StepKinds DEF NoTurn
    <3> QED BY <3>1 DEF Turn, Allow, GoTo, IndInv, TypeOK
  <2>2. Cardinality(Counted(r)) >= MaxRequests /\ key[r] \in Key
    BY <2>1 DEF Refuse, IndInv, TypeOK
  <2>3. Counted(r) \subseteq recent
    <3> SUFFICES ASSUME NEW q \in Counted(r) PROVE q \in recent
      OBVIOUS
    <3>1. PICK p \in Kept(r, key[r]) : turn[p] <= turn[q] /\ ~Expired(p, r)
      BY DEF Counted, Popped
    <3>2. p \in entries[key[r]] /\ q \in entries[key[r]]
      BY <3>1, CountedEntries DEF Kept
    <3>3. p \in Allowed(key[r]) /\ q \in Allowed(key[r])
      BY <2>2, <3>2 DEF IndInv
    <3>4. /\ p \in Request /\ Decided(p) /\ turn[p] \in Nat /\ stamp[p] \in Nat
          /\ q \in Request /\ Decided(q) /\ turn[q] \in Nat /\ stamp[q] \in Nat
      BY <2>2, <3>2, EntryTypes
    <3>5. p = q \/ turn[p] < turn[q] BY <3>1, <3>4 DEF TurnInv
    <3>6. stamp[p] <= stamp[q] BY <3>3, <3>4, <3>5 DEF Overtaken
    <3>7. stamp[q] + Window > stamp[r]
      BY <3>1, <3>4, <3>6, LimiterAssumption DEF Expired, Since, IndInv, TypeOK, Time
    <3> QED BY <3>3, <3>7
  <2>4. IsFiniteSet(recent) BY <2>2, FS_Subset DEF TurnInv
  <2>5. Cardinality(Counted(r)) <= Cardinality(recent) BY <2>3, <2>4, FS_Subset
  <2>6. Cardinality(Counted(r)) \in Nat /\ Cardinality(recent) \in Nat
    BY <2>4, CountedEntries, FS_CardinalityType
  <2> QED BY <2>2, <2>5, <2>6, LimiterAssumption
<1> QED BY <1>1, <1>2, <1>3, PTL DEF Spec, NoNeedlessRefusal
=============================================================================
