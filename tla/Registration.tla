---------------------------- MODULE Registration ----------------------------
(***************************************************************************)
(* Registration of one mailbox (src/src/account.rs): send_verification_code*)
(* and create_user, which meet in the verify_code row of the mailbox.      *)
(* Writes of a transaction are applied when it commits: until then its row *)
(* lock keeps everybody from the row, and nobody else sees them.           *)
(***************************************************************************)
EXTENDS Naturals

CONSTANTS Task,         \* handler invocations that may be in flight
          Code,         \* what rand::random_range may draw
          Resend,       \* VERIFICATION_RESEND_SECONDS
          Validity,     \* VERIFICATION_CODE_EXPIRES_SECONDS
          MaxAttempts,  \* MAX_VERIFICATION_ATTEMPTS
          LastTime,     \* the clock stops here: a bound
          Losses,       \* tries that failures may make a row forget: a bound
          None

ASSUME RegistrationAssumption ==
    /\ Resend \in Nat /\ Validity \in Nat /\ LastTime \in Nat
    /\ Losses \in Nat
    /\ MaxAttempts \in Nat \ {0}
    /\ None \notin Task \cup Code

VARIABLES now,          \* the clock of the server and of its database
          row,          \* the verify_code row of the mailbox
          account,      \* there is a users row with this address
          sendLock,     \* holder of the advisory lock of the mailbox
          rowLock,      \* holder of the row, or of its place in the index
          pc,           \* task -> the next statement of its handler
          begun,        \* task -> NOW() in its transaction
          code,         \* task -> the code it was given, or has drawn
          compared,     \* wrong codes compared with the code issued last
          forgotten     \* those of them whose UPDATE or COMMIT failed

locks == <<sendLock, rowLock>>
tasks == <<pc, begun, code>>
tries == <<compared, forgotten>>
vars == <<now, row, account, locks, tasks, tries>>

Time == 0 .. LastTime
Row == [code : Code, created_at : Time, attempts : 0 .. MaxAttempts]
Statement == {"idle", "lock", "cooldown", "upsert", "issue", "mail",
              "lookup", "drop", "count", "insert", "erase"}

TypeOK ==
    /\ now \in Time
    /\ row \in Row \cup {None}
    /\ account \in BOOLEAN
    /\ sendLock \in Task \cup {None} /\ rowLock \in Task \cup {None}
    /\ pc \in [Task -> Statement]
    /\ begun \in [Task -> Time]
    /\ code \in [Task -> Code \cup {None}]
    /\ compared \in 0 .. MaxAttempts + Losses /\ forgotten \in 0 .. Losses

Init ==
    /\ now = 0 /\ row = None /\ account = FALSE
    /\ sendLock = None /\ rowLock = None
    /\ pc = [t \in Task |-> "idle"]
    /\ begun = [t \in Task |-> 0]
    /\ code = [t \in Task |-> None]
    /\ compared = 0 /\ forgotten = 0

-----------------------------------------------------------------------------
GoTo(t, statement) == pc' = [pc EXCEPT ![t] = statement]
\* Altered: an early return leaves its transaction open.
LeftOpen(lock, t) == lock
Without(lock, t) == IF lock = t THEN None ELSE lock

\* COMMIT and ROLLBACK release what the transaction holds.
EndTransaction(t, next) ==
    /\ sendLock' = Without(sendLock, t)
    /\ rowLock' = Without(rowLock, t)
    /\ GoTo(t, next)
Finish(t) ==
    /\ EndTransaction(t, "idle")
    /\ code' = [code EXCEPT ![t] = None]
    /\ begun' = [begun EXCEPT ![t] = 0]

\* BEGIN, after whatever the handler does before it: NOW() stays what it is.
Begin(t, statement, given) ==
    /\ pc[t] = "idle"
    /\ begun' = [begun EXCEPT ![t] = now]
    /\ code' = [code EXCEPT ![t] = given]
    /\ GoTo(t, statement)
    /\ UNCHANGED <<now, row, account, locks, tries>>

-----------------------------------------------------------------------------
(* send_verification_code *)

StartSend(t) == Begin(t, "lock", None)

\* Altered: sends are not serialised.
SendAtOnce == TRUE
MaySend == sendLock = None

LockMailbox(t) ==
    /\ pc[t] = "lock" /\ MaySend
    /\ sendLock' = t
    /\ GoTo(t, "cooldown")
    /\ UNCHANGED <<now, row, account, rowLock, begun, code, tries>>

CoolingDown == row # None /\ now - row.created_at < Resend
CheckCooldown(t) ==
    /\ pc[t] = "cooldown"
    /\ IF CoolingDown
       THEN Finish(t)
       ELSE GoTo(t, "upsert") /\ UNCHANGED <<locks, begun, code>>
    /\ UNCHANGED <<now, row, account, tries>>

\* INSERT ... ON CONFLICT waits for whoever holds the row or its index entry.
Upsert(t) ==
    /\ pc[t] = "upsert" /\ rowLock = None
    /\ rowLock' = t
    /\ \E c \in Code : code' = [code EXCEPT ![t] = c]
    /\ GoTo(t, "issue")
    /\ UNCHANGED <<now, row, account, sendLock, begun, tries>>

\* The commit; created_at and expires_at count from the BEGIN.
Issue(t) ==
    /\ pc[t] = "issue"
    /\ row' = [code |-> code[t], created_at |-> begun[t], attempts |-> 0]
    /\ EndTransaction(t, "mail")
    /\ compared' = 0 /\ forgotten' = 0
    /\ UNCHANGED <<now, account, begun, code>>

\* The mail is sent, or is not: the row stays either way.
Mail(t) ==
    /\ pc[t] = "mail"
    /\ Finish(t)
    /\ UNCHANGED <<now, row, account, tries>>

-----------------------------------------------------------------------------
(* create_user *)

\* The password was hashed before; the client gives some code.
StartRegistration(t) == \E c \in Code : Begin(t, "lookup", c)

\* Altered: the code never expires.
AlwaysLive(t) == row # None
\* expires_at > NOW()
Live(t) == row # None /\ begun[t] < row.created_at + Validity

\* Altered: off by one.
ExhaustedLate == row.attempts > MaxAttempts
Exhausted == row.attempts >= MaxAttempts

Verdict(t) == IF Exhausted THEN "drop" ELSE IF row.code # code[t] THEN "count" ELSE "insert"

\* A code that is neither right nor barred has now been compared, and was wrong.
Compare(t) ==
    /\ compared' = compared + (IF Live(t) /\ Verdict(t) = "count" THEN 1 ELSE 0)
    /\ UNCHANGED forgotten

\* Altered: SELECT without FOR UPDATE.
LookupUnlocked(t) ==
    /\ pc[t] = "lookup"
    /\ IF Live(t) THEN GoTo(t, Verdict(t)) /\ UNCHANGED <<locks, begun, code>>
                  ELSE Finish(t)
    /\ Compare(t)
    /\ UNCHANGED <<now, row, account>>

\* SELECT ... FOR UPDATE: a row that is there is waited for, then read as it is.
Lookup(t) ==
    /\ pc[t] = "lookup"
    /\ IF Live(t)
       THEN /\ rowLock = None /\ rowLock' = t
            /\ GoTo(t, Verdict(t))
            /\ UNCHANGED <<sendLock, begun, code>>
       ELSE Finish(t)
    /\ Compare(t)
    /\ UNCHANGED <<now, row, account>>

\* Too many attempts: DELETE and COMMIT.
Drop(t) ==
    /\ pc[t] = "drop"
    /\ row' = None
    /\ Finish(t)
    /\ UNCHANGED <<now, account, tries>>

\* A wrong code: UPDATE and COMMIT.
Count(t) ==
    /\ pc[t] = "count"
    /\ row' = IF row = None THEN None ELSE [row EXCEPT !.attempts = @ + 1]
    /\ Finish(t)
    /\ UNCHANGED <<now, account, tries>>

\* INSERT INTO users; a unique violation rolls back.
InsertUser(t) ==
    /\ pc[t] = "insert"
    /\ IF account THEN Finish(t)
                  ELSE GoTo(t, "erase") /\ UNCHANGED <<locks, begun, code>>
    /\ UNCHANGED <<now, row, account, tries>>

\* DELETE the code and COMMIT.
Erase(t) ==
    /\ pc[t] = "erase"
    /\ account' = TRUE /\ row' = None
    /\ Finish(t)
    /\ UNCHANGED <<now, tries>>

-----------------------------------------------------------------------------
\* A statement fails, or the handler is dropped: its transaction rolls back. One
\* that was about to count a wrong code has compared it and leaves no trace of it.
Fail(t) ==
    /\ pc[t] \notin {"idle", "mail"}
    /\ IF pc[t] = "count"
       THEN forgotten < Losses /\ forgotten' = forgotten + 1
       ELSE UNCHANGED forgotten
    /\ Finish(t)
    /\ UNCHANGED <<now, row, account, compared>>

Tick ==
    /\ now < LastTime
    /\ now' = now + 1
    /\ UNCHANGED <<row, account, locks, tasks, tries>>

Work(t) ==
    \/ LockMailbox(t) \/ CheckCooldown(t) \/ Upsert(t) \/ Issue(t) \/ Mail(t)
    \/ Lookup(t) \/ Drop(t) \/ Count(t) \/ InsertUser(t) \/ Erase(t)

Next ==
    \/ Tick
    \/ \E t \in Task : StartSend(t) \/ StartRegistration(t) \/ Work(t) \/ Fail(t)

Spec == Init /\ [][Next]_vars

\* The database runs every statement it can and serves its waiters in turn.
FairSpec == Spec /\ \A t \in Task : SF_vars(Work(t))

-----------------------------------------------------------------------------
(* Properties *)

\* "A six-digit code cannot be brute-forced" (registration_hardening.sql:2): of
\* the wrong codes compared with the row's code, however many arrive at once, at
\* most one is not yet counted, none is lost but by a failure of its own handler,
\* and so no more than MaxAttempts are compared but for those failures. A failure
\* between the comparison and the commit (account.rs:242-255) does give a try back.
BeingCounted == IF \E t \in Task : pc[t] = "count" THEN 1 ELSE 0
TriesCounted ==
    row # None =>
        /\ compared = row.attempts + forgotten + BeingCounted
        /\ compared <= MaxAttempts + forgotten

\* An account opens only for the code that is in the row at that moment, while
\* it was valid when the transaction began and with tries left: neither a resend
\* nor another registration slips in between the comparison and the commit.
AccountsOpenByCode ==
    [][account' /\ ~account =>
          \E t \in Task :
             /\ pc[t] = "erase" /\ rowLock = t
             /\ row # None /\ row.code = code[t]
             /\ compared < MaxAttempts + forgotten
             /\ begun[t] < row.created_at + Validity]_vars

\* "Concurrent requests cannot both pass the cooldown check" (account.rs:391):
\* a code in use is only replaced by one sent after its cooldown.
CooldownKept ==
    [][row # None /\ row' # None /\ row'.attempts <= row.attempts /\ row' # row
          => now - row.created_at >= Resend]_vars

\* Every call ends: the locks of the mailbox and of its row are never waited
\* for in a circle.
EveryCallEnds == \A t \in Task : pc[t] # "idle" ~> pc[t] = "idle"

-----------------------------------------------------------------------------
(* The inductive invariant: the locks keep what a handler has read true      *)
(* until its transaction ends.                                               *)

HoldsRow == {"issue", "drop", "count", "insert", "erase"}
HoldsMailbox == {"cooldown", "upsert", "issue"}

LocksInv ==
    /\ \A t \in Task : rowLock = t <=> pc[t] \in HoldsRow
    /\ \A t \in Task : sendLock = t <=> pc[t] \in HoldsMailbox

\* What create_user and send_verification_code concluded is still so.
HandlerInv(t) ==
    /\ pc[t] \in {"lookup", "drop", "count", "insert", "erase", "issue"} => code[t] \in Code
    /\ pc[t] \in {"drop", "count", "insert", "erase"} => Live(t)
    /\ pc[t] = "count" => ~Exhausted
    /\ pc[t] \in {"insert", "erase"} => ~Exhausted /\ row.code = code[t]
    /\ pc[t] \in {"upsert", "issue"} => ~CoolingDown

\* What every reachable state satisfies and every step preserves.
IndInv ==
    /\ TypeOK /\ LocksInv /\ TriesCounted
    /\ \A t \in Task : HandlerInv(t)
=============================================================================
