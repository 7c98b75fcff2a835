---------------------------- MODULE RateLimiter ----------------------------
(***************************************************************************)
(* One budget of the rate limiter (src/src/rate_limit.rs).  A request takes*)
(* its time stamp before it queues for the two mutexes of the limiter, so  *)
(* stamps may enter the window out of order.  The VecDeque of a key is the *)
(* set of the requests in it, in the order of their turns; a key without   *)
(* an entry in the map is a key whose set is empty.                        *)
(***************************************************************************)
EXTENDS Naturals, FiniteSets

CONSTANTS Request,      \* requests, each of which is sent once
          Key,          \* RateKey: the users and addresses they come from
          MaxRequests,  \* max_requests
          Window,       \* window, in ticks of the clock
          Second,       \* ticks in a second
          LastTime      \* the clock stops here: a bound

ASSUME LimiterAssumption ==
    /\ MaxRequests \in Nat \ {0} /\ Window \in Nat \ {0} /\ Second \in Nat \ {0}
    /\ LastTime \in Nat

VARIABLES now,          \* the monotonic clock
          lastSweep,    \* last_sweep
          entries,      \* key -> requests whose stamps are in its deque
          pc,           \* request -> the mutex it takes next, or its outcome
          key,          \* request -> its bucket
          stamp,        \* request -> Instant::now() of its middleware
          sweeping,     \* request -> should_sweep
          turns,        \* requests that have had their turn at the deques
          turn,         \* request -> its place in the order of those turns
          retry         \* request -> the Retry-After it was given, in seconds

decided == <<turns, turn, retry>>
vars == <<now, lastSweep, entries, pc, key, stamp, sweeping, decided>>

Time == 0 .. LastTime

TypeOK ==
    /\ now \in Time /\ lastSweep \in Time
    /\ entries \in [Key -> SUBSET Request]
    /\ pc \in [Request -> {"away", "sweep", "check", "allowed", "refused"}]
    /\ key \in [Request -> Key]
    /\ stamp \in [Request -> Time]
    /\ sweeping \in [Request -> BOOLEAN]
    /\ turns \in Nat /\ turn \in [Request -> Nat]
    /\ retry \in [Request -> Nat]

Init ==
    /\ now = 0 /\ lastSweep = 0
    /\ entries = [k \in Key |-> {}]
    /\ pc = [r \in Request |-> "away"]
    /\ key \in [Request -> Key]
    /\ stamp = [r \in Request |-> 0]
    /\ sweeping = [r \in Request |-> FALSE]
    /\ turns = 0 /\ turn = [r \in Request |-> 0]
    /\ retry = [r \in Request |-> 0]

-----------------------------------------------------------------------------
GoTo(r, place) == pc' = [pc EXCEPT ![r] = place]

\* saturating_duration_since
Since(later, earlier) == IF later > earlier THEN later - earlier ELSE 0
\* Altered: a stamp is dropped one tick early.
ExpiredEarly(q, r) == Since(stamp[r], stamp[q]) + 1 >= Window
\* The stamp of q has left the window that ends at the stamp of r.
Expired(q, r) == Since(stamp[r], stamp[q]) >= Window

\* The middleware reads the clock; nothing is locked yet.
Arrive(r) ==
    /\ pc[r] = "away"
    /\ stamp' = [stamp EXCEPT ![r] = now]
    /\ GoTo(r, "sweep")
    /\ UNCHANGED <<now, lastSweep, entries, key, sweeping, decided>>

SweepDue(r) == Since(stamp[r], lastSweep) >= Window

\* Under the mutex of last_sweep.
DecideSweep(r) ==
    /\ pc[r] = "sweep"
    /\ sweeping' = [sweeping EXCEPT ![r] = SweepDue(r)]
    /\ lastSweep' = IF SweepDue(r) THEN stamp[r] ELSE lastSweep
    /\ GoTo(r, "check")
    /\ UNCHANGED <<now, entries, key, stamp, decided>>

\* Altered: a sweep forgets keys rather than stamps.
SweptAway(r, k) == IF sweeping[r] /\ \E q \in entries[k] : Expired(q, r) THEN {} ELSE entries[k]
\* retain, by the request that decided to sweep.
Kept(r, k) == IF sweeping[r] THEN {q \in entries[k] : ~Expired(q, r)} ELSE entries[k]

\* Altered: nothing is popped between two sweeps.
Unpopped(S, r) == S
\* pop_front while the front has expired: what is behind a live front stays.
Popped(S, r) == {q \in S : \E p \in S : turn[p] <= turn[q] /\ ~Expired(p, r)}
Counted(r) == Popped(Kept(r, key[r]), r)

Front(S) == CHOOSE q \in S : \A p \in S : turn[q] <= turn[p]

\* Altered: rounded down.
RoundedDown(d) == d \div Second
\* retry_after_seconds: whole seconds, rounded up, at least one.
RetryAfterSeconds(d) == IF d = 0 THEN 1 ELSE (d + Second - 1) \div Second

\* The turn of r: everything under the mutex of the deques.
TakeTurn(r, left) ==
    /\ entries' = [k \in Key |-> IF k = key[r] THEN left ELSE Kept(r, k)]
    /\ turn' = [turn EXCEPT ![r] = turns]
    /\ turns' = turns + 1
    /\ UNCHANGED <<now, lastSweep, key, stamp, sweeping>>

Allow(r) ==
    /\ pc[r] = "check"
    /\ Cardinality(Counted(r)) < MaxRequests
    /\ TakeTurn(r, Counted(r) \cup {r})
    /\ GoTo(r, "allowed")
    /\ UNCHANGED retry

Refuse(r) ==
    /\ pc[r] = "check"
    /\ Cardinality(Counted(r)) >= MaxRequests
    /\ TakeTurn(r, Counted(r))
    /\ retry' = [retry EXCEPT ![r] =
                    RetryAfterSeconds(Since(Window, Since(stamp[r], stamp[Front(Counted(r))])))]
    /\ GoTo(r, "refused")

Tick ==
    /\ now < LastTime
    /\ now' = now + 1
    /\ UNCHANGED <<lastSweep, entries, pc, key, stamp, sweeping, decided>>

Next ==
    \/ \E r \in Request : Arrive(r) \/ DecideSweep(r) \/ Allow(r) \/ Refuse(r)
    \/ Tick

Spec == Init /\ [][Next]_vars

-----------------------------------------------------------------------------
(* Properties *)

Allowed(k) == {r \in Request : pc[r] = "allowed" /\ key[r] = k}

\* "A 60-second sliding window" (README.md:142): whenever one looks, no key
\* has had more than the limit allowed in the window that ends now, however
\* late a request got its turn and whoever swept meanwhile.
LimitKept ==
    \A k \in Key :
        Cardinality({r \in Allowed(k) : stamp[r] + Window > now}) <= MaxRequests

\* Somebody of this key was allowed with a later stamp than somebody after him.
Overtaken(k) == \E p, q \in Allowed(k) : turn[p] < turn[q] /\ stamp[p] > stamp[q]

\* A request is refused only if its window is full.  That may fail for a key
\* whose requests have overtaken each other: an expired stamp behind a live one
\* still counts.
NoNeedlessRefusal ==
    [][\A r \in Request :
          pc[r] = "check" /\ pc'[r] = "refused" =>
              \/ Cardinality({q \in Allowed(key[r]) : stamp[q] + Window > stamp[r]})
                     >= MaxRequests
              \/ Overtaken(key[r])]_vars

\* Retry-After is honest: who comes back that much later is let in, unless
\* somebody of his key was let in meanwhile, or had been let in before him with
\* a later stamp than his.
PromiseKept ==
    \A r, q \in Request :
        /\ pc[r] = "refused" /\ pc[q] = "refused" /\ key[q] = key[r]
        /\ turn[r] < turn[q] /\ stamp[q] >= stamp[r] + retry[r] * Second
        => \E x \in Allowed(key[r]) :
              \/ turn[r] < turn[x] /\ turn[x] < turn[q]
              \/ turn[x] < turn[r] /\ stamp[x] > stamp[r]

-----------------------------------------------------------------------------
\* The inductive invariant: a stamp that has not yet left the window, by the
\* clock, is still in the deque of its key, whatever was popped or swept by
\* whoever with whatever stamp; and the deque never holds more than the limit.
IndInv ==
    /\ TypeOK
    /\ \A r \in Request : stamp[r] <= now
    /\ \A k \in Key :
          /\ entries[k] \subseteq Allowed(k)
          /\ IsFiniteSet(entries[k]) /\ Cardinality(entries[k]) <= MaxRequests
          /\ \A r \in Allowed(k) : stamp[r] + Window > now => r \in entries[k]
=============================================================================
