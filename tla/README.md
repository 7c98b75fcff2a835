# A verification development for the DevBit backend

The DevBit backend (`src/`, Rust) is an Axum server over PostgreSQL: accounts
opened with mailed codes, avatars, a forum, direct messages, social relations
(friend requests, friendships, blocks, preferences), WebSocket presence, rate
limits. Handlers run concurrently on a multi-threaded runtime and share a pool
of five database connections, the registry of WebSocket connections and the
rate limiters in memory. What can go wrong in such a program lies between the
statements of its handlers: what one has read may be no longer true when it
acts on it, a lock is taken after the check it should protect, an event is sent
in another order than the change it announces.

This directory holds TLA+ modules that model the stateful parts, configurations
that check them with TLC on small instances, and proofs, checked by TLAPS, of
what matters most for every instance. Paths are relative to the repository;
`relationships.rs:370` stands for line 370 of that file under
`src/src/` (or `src/src/social/`).

## 1. The system

| Component | Source | State | Operations |
|---|---|---|---|
| Social relations | `social/relationships.rs`, `social/mod.rs`, the migrations | tables `social_friend_requests`, `social_friendships`, `social_blocks`, `social_preferences`; advisory and row locks; the pool | create, accept, reject, cancel a request; remove a friend; block, unblock; set preferences |
| Relation views | `social/mod.rs` (`RelationshipContext`), `social/model.rs`, `forum.rs` (`can_message`) | none: they read the tables above | relationship of two users, permission to write, list of friends |
| Direct messages | `forum.rs` (messages), `social/messages.rs` | tables `forum_messages`, `social_message_clears` | list, send, mark read, mark a conversation read, clear a history |
| Presence | `ws.rs` | registry user → sockets, the `presence_transitions` mutex, a bounded queue and a forward task per socket | upgrade, authenticate, register, push, broadcast, leave, disconnect a user |
| Registration | `account.rs` | tables `verify_code`, `users`; advisory lock of the mailbox | send a code, create an account |
| Avatars | `account.rs` | `users.avatar_url`, the files in `AVATAR_DIR` | upload, serve (not modelled) |
| Tokens and login | `auth.rs`, `account.rs` | password hashes, administrators loaded at start | login, logout, refresh of a hash, token check |
| Forum | `forum.rs` | tables `forum_posts`, `forum_post_likes`, `forum_comments`, their sequences | create, read, edit, delete, pin, lock, like a post; write, delete a comment; lists |
| Rate limiting | `rate_limit.rs` | a window of stamps per client and a sweep counter, each under a mutex | admit or refuse a request |
| Lists and cursors | `social/relationships.rs`, `social/mod.rs` | none: a cursor is in the client's hands | pages by key or by offset |
| Request and answer types | `social/model.rs` | none | parsing, formatting |
| Server, configuration | `server.rs`, `main.rs`, `config.rs`, `database.rs` | the pool, the environment | routing, start, stop |
| Migrations | `migrations/` | the schema | run once before the server serves |

**How they interact.** Every handler takes connections from the one pool of
`database.rs`. The relation handlers lock the pair of users they speak of
(`lock_pair`, `relationships.rs:859`, a transaction-scoped advisory lock), and
call `WsState::send_to_user` after their commit. Sending a direct message reads
the relations and preferences (`forum.rs:870`) in one statement and inserts in
another. Every profile and list carries a relationship, which
`RelationshipContext` gathers from four queries without a transaction
(`mod.rs:386`). Logout calls `WsState::disconnect_user`. Sending a code and
registering meet in one row, under an advisory lock that only one of them takes.
The handlers of the forum meet in its tables only, a few statements each, without
transactions or locks; the feed lists their posts by the friends of the reader.
The rate limiter's middleware runs before every handler but those of sockets, avatars
and health (`server.rs:63`).

**What is hard here.**

- *Interleaving.* Handlers of the same two users meet at any statement. Pushes
  go through the registry without the presence mutex.
- *Stale reads.* The pair of a request is read before its lock
  (`relationships.rs:551`), the permission before the insert (`forum.rs:870`),
  the old avatar before the new file, the relation in four pieces.
- *Ordering.* Online and offline of one user come from different tasks. Message
  ids are drawn when an insert starts and rows appear when it commits.
- *Deadlock and limits.* Pair locks, row locks, unique index entries and pool
  connections are all waited for while others are held. Outbound queues overflow.
- *Partial failure.* A statement fails in the middle of a transaction; a commit
  takes effect and its answer is lost; an upload stops between two steps.
- *Time.* Cooldowns and expiries count from the `NOW()` of a transaction that may
  then have waited for a lock. The rate limiter takes its stamps before it waits
  for its locks, and promises times counted from them (`rate_limit.rs:204`, `110`).
- *Paging.* A list changes between two of its pages, with times of creation out of
  order and alike.

PROJECT.json lists each hazard at the line where it bites, with the properties
that would catch it.

**What makes each component correct.**

- Relations: a pair has at most one open request, none between friends or across
  a block; a friendship comes only from an accepted request; a handled request
  stays handled; answers show what was committed; nobody waits in a circle; who
  is concerned is told.
- Views: a relation that stays put is shown as it is, a block always shows, the
  three places that compute a permission agree.
- Messages: a clear hides what was there and nothing of the partner's; new
  messages arrive.
- Presence: announcements agree with the registry and arrive in their order; a
  live socket stays reachable; a removed one ends; the mutex comes free.
- Registration: of the wrong codes that are compared none is forgotten unless the
  statement or the commit that counts it fails; accounts open only by a live code,
  the cooldown cannot be passed by sending twice at once.
- Avatars: the row names a file that is there.
- Forum: rows refer to rows that are there; a toggle turns its like round; only
  author and administrators change what somebody wrote.
- Rate limits: the window of any client that ends now holds no more than the limit;
  refusals have a cause, and the time they promise is long enough.
- Lists: whoever reads to the end has seen all that stayed, and nothing twice.

## 2. The modules

```
SocialTables ── SocialGraph ──────────┬── RelationView ──┬── MCRelationView
      │             ▲ (refines)       │                  └── RelationViewProofs
      │             │                 ├── DirectMessages ┬── MCDirectMessages
      └────── SocialRelations         │                  └── DirectMessagesProofs
                 │    │          SocialPermissions
SocialRelationsProofs └── MCSocialRelations

Forum ── Lists ──┬── MCLists          RateLimiter ──┬── MCRateLimiter
                 └── ForumProofs                    └── RateLimiterProofs

PresenceService                       Registration ──┬── MCRegistration
    ▲ (refines)                                      └── RegistrationProofs
Presence ──┬── MCPresence
           └── PresenceProofs         Avatars ──┬── MCAvatars
                                                └── AvatarsProofs
```

`MC…` modules only add what TLC needs: symmetry sets and the constants of an
instance. A definition with the comment "Altered" stands right before the one it
alters: it is a plausible mistake in that code, which the runs must be able to
tell from the code. No specification uses it.

### SocialTables, SocialGraph

`SocialTables` holds the committed rows: `friendships` (unordered pairs, as the
ordered pair of `social_friendships` with its CHECK amounts to), `blocks`
(directed), `requests` (id → sender, recipient, status), the queries asked of
them, and the consistency properties. `SocialGraph` is the abstract
specification: what a client may rely on without knowing of statements or
locks. Each of `Ask`, `Accept`, `Decline`, `Unfriend`, `Block` and `Unblock`
checks and changes everything at once.

### SocialRelations

The eight changing handlers of `relationships.rs`, by any number of tasks, one
SQL statement per step, with one exception: accept's INSERT of the friendship and
UPDATE of its request (`573`, `584`) are one step of `Write`, since nobody sees
either before the commit.

| Code | Model |
|---|---|
| the next statement of a handler | `pc[t]` |
| path and body of the request, after validation | `call[t]`; `Named` includes ids that belong to nobody (`Stranger`) |
| `lock_pair`, held to the end of the transaction | `key[t]` and `LockFree`: tasks whose `pc` is in `Locked` hold the lock of their key |
| the id of the request that `create_request` will answer with | `found[t]` |
| writes before the commit (READ COMMITTED) | `tx[t]`, applied by `Commit`, discarded by `Rollback` |
| row locks of `FOR UPDATE` and `UPDATE` | `tx[t].rows`, waited for in `LockRow` and `Sweep` |
| the wait at the partial unique index | `IndexSettled` |
| the pool (`PgPoolOptions`, 5) | `Connections`; tasks in `InTx` hold one, `Begin`, `Target`, `View` and `DeleteBlock` wait for one |
| events after the commit | `owed`: committed changes that users with a client (`Watching`) have not been told of, discharged by `Notify` |
| statement errors, dropped handlers | `Fail`; a lost answer of COMMIT is `LoseCommit`, a failed read of the answer `FailView` |

`create` walks through its checks in the order of the code (recipient, blocks,
policy, friendship, existing, reverse, insert), each with its early return. A
repeated one goes from `FindExisting` over `CommitRepeat` to `View`: it commits,
gives up the pair lock, reads the request it has found for the answer and tells
nobody. Accept, reject and cancel first find the pair, lock it, lock the row, then
look at actor and status. Messages of requests, time stamps and the lists are left
out. So is the query with which `require_viewer` (`mod.rs:98`) looks up the caller
before a handler: no connection or lock is held while it waits. The second read after
a conflict of the INSERT (`relationships.rs:487`) is in `InsertRequest`, but under the
pair lock no conflict can be met.

### SocialPermissions, RelationView

`SocialPermissions` has the three definitions of who may write to whom (the SQL
of the send endpoint, the SQL of the friend list, the Rust of
`RelationshipContext`). `RelationView` runs the four queries of
`RelationshipContext::load` for one viewer and target; between any two of them
whole operations of `SocialGraph` and changes of the message policy may commit.
That operations are atomic here is what `HandlersImplementGraph` proves of the
handlers.

### DirectMessages

Send (permission check, insert, commit: an id is drawn at the insert and the row
appears at the commit), clear (read the greatest id, upsert with GREATEST, which
is `Raised`), mark read and mark conversation read, while operations of
`SocialGraph` and changes of the message policy commit beside them (`Change`,
`ChangePolicy`). `VisibleTo` is what
`fetch_messages_for_user` lists. `began`, the messages that were there when a clear
began, is a history variable of the properties. Contents, editing and paging are left
out.

### Presence, PresenceService

A socket goes through `hello` (no cookie: the first message must authenticate),
`join`, `greet`, `arrival`, `serving`, `leave`, `departure`, `flush`, `gone`; a
logout through `remove` and `departure`. `holder` is the presence mutex, held
from `Register`, `Unregister` or `Remove` to `Release`; a broadcast visits the
entries of the registry one by one (`Visit`), as the sharded map is iterated.
`Push` runs beside the mutex, prunes closed queues and leaves empty entries
behind. `queue` has `Capacity` places and loses what does not fit (`missed`).
`Forward` hands messages to the client and ends when that fails. Heartbeats,
token expiry and unacceptable messages appear as the choice to `Leave`.

`PresenceService` is the abstract specification: who is online (`status`), one
announcement after the other (`current`), who has still to be told of it (`untold`)
and what each listener has been told (`knows`). `Come`, `Go`, `Depart`, `Tell` and
`Close` know of no registry, queue, pruning or mutex. In the refinement who listens is
a registered socket that receives and has lost no message (`Listening`); what it
knows is what its client will have heard once its queue is empty (`Known`, by
`LastHeard`); the announcement is the news of who holds the mutex (`Current`). A tab that
comes to an empty entry is announced again, so `Announce` may repeat what is announced
already (section 4).

### Registration

One mailbox. `LockMailbox`, `CheckCooldown`, `Upsert` and `Issue` are the
transaction of `send_verification_code`, then `Mail`. `Lookup`, `Drop`, `Count`,
`InsertUser` and `Erase` are the one of `create_user`. The comparison is part of
`Lookup` and its count a later step, so that a handler may fail between them; the
history variables `compared` and `forgotten` say how many wrong codes were compared
with the code that stands and how many of them failed before they were counted.
`begun[t]` is `NOW()`, which PostgreSQL fixes when the transaction begins, while `now` goes on. `Lookup`
evaluates the row again after a wait, as `FOR UPDATE` does. What is drawn is a
choice from `Code`. Argon2 and the checks of the input come before the
transaction and change nothing.

### Avatars

One user. The steps of `upload_avatar` are `Start` (the name is drawn), `ReadOld`,
`RemoveOld`, `Create`, `Write`, `Update`. `Written` is the blocking thread of tokio that
stores the bytes after `write_all` has returned: until then the file is in
`writing`. `lost` records avatars whose file a failed upload has removed.

### Forum

The handlers that change posts, likes and comments, one SQL statement per step and
none of them in a transaction.

| Code | Model |
|---|---|
| `require_admin` (administrators are loaded at start) | `RequireAdmin`, the constant `Admins` |
| `require_post_moderator`, `require_comment_moderator` | `CheckAuthor` for who is no administrator, then the change by id alone |
| `create_post`: id and `NOW()` of the INSERT, its commit | `Draw`, `Store`, with `draft` between |
| `modify_post`, `delete_post`, `delete_comment` | `Edit`, `Delete` (`Cascade` are the foreign keys), `Uncomment` |
| `toggle_pin`, `toggle_lock`, `get_post` | `Toggle`, `CountView`, then `Fetch` for the answer |
| `toggle_like`: exists, read, insert or delete | `CheckExists`, `ReadLike`, `Flip`, with `liked` between |
| `create_comment`: read the lock, insert | `CheckUnlocked`, `InsertComment` |
| an error, a client that hangs up | `Fail`: what was committed stays |

Ids come from sequences and are drawn even when the insert fails. `since` is a
history variable: whether a toggle has been the only one of its like, and what the
like was. A *scene* (`scene`)
says what the clients of one behaviour ask for and how often, so that one run
covers several small instances of different shape. Titles, bodies, categories and
time stamps other than the creation of a post are left out.

### Lists

`Lists` extends `Forum` with one reader who opens a list and follows its cursors
to the end, one query per page, while posts are written and deleted, friends and
blocks come and go, users register. `Page` serves the lists with a cursor of
`(created_at, id)` (feed, friends, requests, blocks), `SearchPage` the search with
an offset. Keys enter in any order: `created_at` is fixed when a transaction
begins. `broken` and `refused` are lists that end without an answer, see section
4. `stayed` are the entries that have been in the list since it was opened. The
composition implements `ForumSpec` (theorem `ForumBesideLists`).

### RateLimiter

One budget. `Arrive` reads the clock, `DecideSweep` is the mutex of `last_sweep`,
`Allow` and `Refuse` are all that happens under the mutex of the deques: the sweep
of all keys (`Kept`), the pops at the front (`Popped`), the comparison with the
limit, the answer. A `VecDeque` is the set of the requests in it, ordered by
`turn`; a key with an empty deque and a key without an entry are alike, since the
code creates what it does not find. Which header or address makes the key, and which
of the three budgets a route has, is left out.

## 3. What the runs check

All runs use model values. `CHECK_DEADLOCK FALSE` appears where the instance may
stop for good: the names of files, the ids of requests or messages, or the
sockets, each opened once, are used up. The others must never stop.

| Run | Instance | Shows |
|---|---|---|
| `social_pair` | 2 users, 2 request ids, 2 tasks, all operations but the preferences, which mention no pair; failures of statements, commits and answers | The relations stay consistent while any two handlers interleave statement by statement and fail anywhere, the request that create answers with is the only open one of its pair at the commit, no transaction waits for a request row or an index entry of requests, and the handlers implement `SocialGraph` |
| `social_live` | 3 tasks, 2 connections, an id of nobody, create, accept and preferences, both users watching, no failures; fairness | Every handler ends although the pool is smaller than the number of tasks and waiters keep connections; every success path tells its whole audience |
| `relation_view` | viewer, target, 2 ids, every operation | What the four queries put together is right when the relation stays put, and on the safe side of a block always; the three permission rules agree on every reachable graph |
| `messages` | 2 users who are never friends, 2 tasks, 2 message ids, every operation, clears of one of the users, blocks and policies | What a clear, a send and a read mark may and may not do to the lists |
| `messages_late` | 2 users, 2 tasks, 2 ids | *violation*: a message that commits after a clear is hidden by it |
| `presence_tabs` | a user with two tabs, a watcher, a logout, queues of 2, no pushes | The watcher hears of transitions in their order; the last departure is announced; every step implements `PresenceService` |
| `presence_live` | two tabs, a logout, queues of 1, pushes, replies, a client that vanishes, one socket without cookie; fairness | The registry agrees with the announcements; a live socket is never dropped; an unregistered one ends; the mutex comes free |
| `presence_once` | two tabs, pushes, a client that vanishes | *violation*: a user is announced online twice |
| `registration` | 2 tasks, 2 codes, cooldown 2, validity 3, 2 tries, clock to 4, at most one failure between a wrong try and its count (`Losses`), any others; fairness | Tries, codes and cooldown under every interleaving, and that the two locks never make a circle |
| `avatars` | 3 uploads, 4 names, failures | The avatar is there unless an upload failed |
| `lists` | 2 tasks, two users and an administrator, seven scenes: likes and deletion, comments and locks, moderation, pins and views, the feed, the lists of relations, the search; pages of 2 | Rows stay consistent; likes and moderation survive every interleaving; lists neither repeat (by key) nor skip what stays. The feed and the list of requests are the ones that reach a second page |
| `limiter` | 4 requests of 2 clients, limit 2, window 3, seconds of 2 ticks, clock to 5 | The limit in the window that ends now and the promised times, with stamps and turns in any order; the cause of every refusal of a key whose requests have never overtaken each other |

**Why the bounds are enough.** Handlers compare ids for equality only, so users,
tasks and ids are interchangeable (hence the symmetry sets of the safety runs)
and the relations of one pair never mention another: two users give every case
but those of an id that is nobody's, which `Stranger` adds. A race needs two
handlers; the third upload and the third task are there where a third actor could meet
what two left (two uploads replacing the same file while one finishes, two waiting for
a lock while one holds a connection). Two request ids allow one that is
handled and one that is open, or one of each direction. The clock runs
to 4 with a cooldown of 2 and a validity of 3: a code may be replaced, expire, or
be waited for across its expiry. Two tries with two codes exhaust the counter. In
the limiter a window of 3 is no multiple of a second of 2, so that rounding shows,
and of four requests two can fill a window, one be refused and one come back. With
five keys, three of which share a time or an id, and pages of 2, a list has a
third page while entries come back. A scene has one or two posts and two comments: a
handler looks at one row by its id, and a second row is there for who would take the
wrong one. A
queue of 1 overflows at once; the queue of 2 in `presence_tabs` lets a watcher
have both halves of a transition waiting. One try forgotten by a failure shows that
it costs one comparison; the proof is for any number. What the proofs cover needs no
bound.

**Fairness.** `FairSpec` asks for fairness of each task's own work and nothing of
clients, of failures or of the clock. A new call is never forced to begin.
`SocialRelations` and `Registration` ask for strong fairness: a lock or a connection
that is free now may be taken by another task first, but PostgreSQL queues the waiters
for a lock and the pool of sqlx serves its waiters in order, so a task whose lock or
connection comes free again and again gets it. `Presence` asks for weak fairness
only: `presence_transitions` is a mutex of the standard library, which promises no
order. `TransitionsEnd` holds nevertheless because the instance has a bounded number of
sockets, each opened once, and nothing under the mutex waits for a client: every
transition ends, and after the last one whoever still waits is alone. It does not say
that an endless stream of arrivals could not keep one of them waiting.

**Altered definitions.** For each property of a passing run PROJECT.json names a
mapped definition and a plausible mistake in it (the pair lock ignored, a
forgotten status check, the entry dropped by a push, no FOR UPDATE, a comparison
by time alone, a sweep that forgets keys) with which TLC finds
the property violated under the very same configuration.

## 4. Where the code and its documents differ

Two disagreements have a run of their own.

- `messages_late`: `SOCIAL-API-V2.md:135` promises that new messages still arrive
  after a clear. `clear_history` (`messages.rs:78`) raises the mark to the
  greatest id it can see. A message with a smaller id may commit later; its
  recipient never sees it.
- `presence_once`: `README.md:105` says that only the first connection broadcasts
  `user_online`. A push to a user whose only client has vanished prunes the
  closed queue and leaves an empty entry without announcing anything
  (`ws.rs:74`); the next tab finds the entry empty and announces the user again
  while he was never announced offline.

Others were met while modelling and are visible in the models, but have no run:

- accept and reject read their answer after the commit and before their events
  (`relationships.rs:610`, `677`): when that read fails, nobody is told
  (`FailView`). `EveryChangeAnnounced` is checked without failures: it says that each
  success path tells its whole audience, and nothing of this loss.
- The answer of a repeated create is read after its commit, when the pair lock is gone
  (`relationships.rs:452`-`456`), and may show a request that was handled in between.
  `CreateAnswersOpenRequest` speaks of the commit, `AnswerShowsOutcome` of what the
  answer may then show.
- A wrong code that has been compared is forgotten when the UPDATE that counts it or its
  COMMIT fails, or when the client hangs up before (`account.rs:242`-`255`). Nothing
  bounds how often; `TriesCounted` and `AccountsOpenByCode` account for such tries with
  `forgotten`.
- A push may put an event into a queue before `auth_ok` (`ws.rs:227`).
- A relation that changes during the four queries (`mod.rs:386`) may be shown as
  one it never was, which is why `StableRelationshipShown` speaks of relations
  that stay.
- A message may be stored just after a block or a change of policy, since the
  permission is read in a statement before the INSERT (`forum.rs:870`). The model has
  this race, no property excludes it.
- The cooldown is kept in the row that registration deletes (`account.rs:230`,
  `279`), so `CooldownKept` speaks of a code that is replaced while it stands.
- The file of an upload that is overtaken stays behind on disk (`account.rs:567`),
  and an avatar may be served while its bytes are still being written
  (`account.rs:584`, `628`).
- `list_friends` and `list_blocks` read the `INTEGER` id of a user as a 64-bit
  number for the next cursor (`relationships.rs:303`, `834`), a type that sqlx
  refuses to decode, and `get` panics: a list with more entries than a page is never
  answered, although `SOCIAL-API-V2.md:200` promises cursors for all four lists.
  `friend_feed` converts (`220`). In `Page` such a list is `broken`.
- `encode_offset_cursor` may give out an offset that `decode_offset_cursor`
  refuses (`mod.rs:276`, `289`): a search of more than 100 000 users ends with
  `BAD_CURSOR`, `refused` in `SearchPage`.
- A search by offset shows an entry twice when a user registers before it
  (`relationships.rs:117`), where `SOCIAL-API-V2.md:25` advises a stable order
  without repetitions. `NothingTwice` speaks of the other lists.
- Cursors are "bound to the query that produced them" (`README.md:94`), but carry
  nothing of it; a client that gives a cursor to another list gets a page. The
  modelled reader does not.
- Two toggles of one like at the same time may both read the same answer and count
  as one (`forum.rs:726`; `api.md:594` says that each turns it round), which is why
  `LikeTurns` speaks of toggles that are alone. `toggle_pin` and `toggle_lock`
  are one statement and do not have this.
- A comment may be stored just after its post was locked (`forum.rs:789`;
  `api.md:576` says a locked post takes none). The model has this race, no property
  excludes it.
- `view_count` is an `INT` that every `get_post` raises (`forum.rs:513`); after 2^31
  views the statement, and with it reading the post, fails. The model bounds views.
- In the limiter, an expired stamp behind a live one still counts, which is why
  `NoNeedlessRefusal` and `PromiseKept` make an exception of keys whose requests
  have overtaken each other between their stamps and their turns.

## 5. What is proved

Eight modules hold proofs, one for each component (Lists with Forum); every one is
checked to its leaves. Each component has one inductive invariant, from which its properties follow; where it is a property
of a run, TLC has checked it first.

**SocialRelationsProofs** — for any set of users, ids of nobody, requests and
tasks, any number of connections and any combination of failures:
`InvariantHolds`, `TypeCorrect`, `TablesStayConsistent` (one open request per pair,
none between friends or across a block), `LockExcludes`, `RowsFreeOfContention`,
`AnswersAreTrue`, `CreatesAnswerOpenRequest`, `HandledStaysHandled`,
`FriendshipIsAccepted`, and `HandlersImplementGraph` (the refinement of `SocialGraph`).
`RowsFreeOfContention` is about rows of requests: block's INSERT may wait for an
unblock, which takes no pair lock, to finish with the same row of `social_blocks`. The assumption is
`DataAssumption`: the null value is no id, and strangers are not accounts.

None of the table properties is inductive. That a pair has one open request
holds after an insert only because the task that inserts has looked, before,
for an open request and still holds the lock of the pair. `IndInv` says so
for every statement of every handler: `CreateInv` (what each passed check of
`create` established, and which request it remembers in `found`), `WritesInv` (which rows a transaction will write, that they
are open and belong to its pair, and that accept and block have collected all
of them), `CallInv` (whose lock a task asks for: for accept, reject and cancel the
pair of a request that exists and never changes its users, which is why the
lookup before the lock is sound), `PairLockExcludes` (a task that keeps the
tables of its pair still), `IdsDistinct` (the sequence).

The lemmas follow that argument. `QuietStep` and `Advances`: a step that leaves
the tables alone only has to establish the part of its own task
(`AdvancesRemembering` when it also remembers a request). A step that changes the tables (a commit, or unblock, which takes no lock) preserves the
part of every other task, since a task on the same pair would hold the lock.
`NextIndInv` has one case per action. That unblock needs no lock is part of
what is proved: every check speaks of the absence of blocks.

**RegistrationProofs** — for any number of handlers, codes and attempts and any
cooldown, validity and length of time: `InvariantHolds`, `TypeCorrect`,
`AllTriesCounted`, `AccountsNeedCode`, `CooldownHolds`. Assumption:
`RegistrationAssumption` (durations are natural numbers, at least one try is
allowed, the null value is no task and no code, `Losses` is a natural number). `IndInv` says that each lock is
held exactly between the statement that takes it and the end of the transaction
(`LocksInv`), that the wrong codes compared are those the row has counted, those that
failures have forgotten and the one that is about to be counted (`CountedByHolder`: only
who holds the row can be; `TriesKept`, `CountEnds`), and that what a handler has concluded from the row (`HandlerInv`:
live, tries left, the right code, or cooled down) is still so. `HandlerStep`
reduces the step of one handler to its own part, because a row changes only in
the hands of who has locked it. Both locks are needed: the row lock alone does
not keep two sends from passing the cooldown, since there may be no row to lock.

**PresenceProofs** — for any users, sockets, logouts and lengths of the queues:
`RegistryStaysSound`, `WellFormed`, `AnnouncementsAgree`, `LastDepartureAnnounced`,
`LiveSocketsStay`, `BroadcastsExclude`, `BroadcastsImplementService` (the refinement of
`PresenceService`), `ListenersInformed`, `ObserversStayInformed`. Assumption:
`PresenceAssumption` (every socket has an owner, the kinds of tasks are disjoint, the
null value is no task, user or announcement, a queue holds at least one message).

The first part needs no mutex. The invariant is where the empty entry shows that a
push may leave behind: an *entry*, not a member, is what agrees with the announcement
(`Agrees`), and as long as there is one some socket of the user has still to unregister
and will remove it (`Attended`). `Reachable` says that only a closed queue or a logout
takes a present socket out of its entry.

The second part is about the order of the messages and rests on the mutex.
`BroadcastInv` says that its holder is the one task between its decision and the end of
its broadcast (`MutexInv`), that only the holder has news (`NewsInv`), and that a socket
that has not registered has an empty queue, has heard nothing and has missed nothing
(`FreshInv`). The lemmas on `Heard` say what appending a message to a queue, and handing
its first one to the client, do to what a client will have heard last: the former sets
it, the latter does not change it, so a forward task is invisible to the service. Then
each action is matched with one of the service. A visit is `Tell(S, L)`: all sockets of one
entry are told and those of `L` lose the message to a full queue. A departure is
`Depart`, which is why the registry has to be empty of the user's other sockets. What
prunes, kicks or breaks a socket is `Go`, or nothing. `Informed` is inductive for the
service alone: whoever listens knows what was announced last, or nothing yet, or is
among those who are still to be told. When the mutex is free nobody is, and that is
`ObserversConverge`.

**DirectMessagesProofs** — for any users, requests, handlers, operations and number
of messages: `MessagesStaySound`, `WellFormed`, `ClearsHide`, `OthersKeepTheirs`, `GraphBesideMessages`. Assumption: `MessagesAssumption`. `TaskInv` says what a handler
relies on: a clear that has read its mark, or stored it, covers all messages of the
conversation that were there when it began; a send that has drawn an id is the only
one to have it, and no row has it. `Careful` says what a statement may do to the
others (rows keep their two users, a new row has a drawn id, marks only rise), and
`OthersKeep` that this is enough; so only the part of the moving handler is left.
The module also proves what `SocialGraph` promises by itself: `GraphConsistent`,
`GraphHandledStays`, `GraphFriendsAccepted`. With `HandlersImplementGraph` on one side and
`GraphBesideMessages` and `GraphBesideReader` on the other, the relations that sends
and views meet are the ones the handlers make.

**RelationViewProofs** — for any users, requests and changes between the queries:
`FindingsFit`, `PermissionsAgree`, `StableIsShown`, `BlocksShow`, `GraphBesideReader`.
Assumption: `ViewAssumption`. `Fits` says what a relationship that has been the only one since
the read began implies for each query that has been answered; the second query asks
both directions of a block at once, so a chain of blocks without a gap is found
whoever makes them.

**ForumProofs** — for any users, administrators, handlers and scenes:
`ForumStaysSound`, `LikesTurn`, `ModeratorsOnly`. Assumption:
`ForumAssumption`. `ForumInv` has for each handler what is left of what it has read:
the author it has compared is still the author, *if the row is still there*
(`ChangeInv`), since ids do not come back: they are drawn once (`DraftsDistinct`)
and, once stored and deleted, are below the sequence and on nobody's way
(`Settled`). `LikeInv` says that the like of a lone toggle is as it was, unless its
post is gone. The shape of the proof is again `Careful` and `OthersKeep`.

The second part of the module is about `Lists`: for lists of any length, keys, pages of any size:
`ForumBesideLists`, `NeverTwice`, `StayersAlwaysShown`. Assumptions:
`ListsAssumption` and the one of the forum. `ShownInv`: nothing shown comes after
the cursor, so no later page repeats it, even if it left and came back. `StayInv`:
what has stayed is shown or still to come. For a page by key this rests on `PageCuts`
(what a page leaves out comes after its last entry); for the search on `OffsetCuts`
and on users never leaving: what has been passed can only be pushed back.

**RateLimiterProofs** — for any requests, keys, limit, window and length of time:
`WindowComplete`, `LimitAlwaysKept`, `PromiseAlwaysKept`, `NeverNeedlesslyRefused`.
Assumption: `LimiterAssumption`. `IndInv` compares the deques with the clock, not
with the stamps of whoever pops or sweeps: a stamp within the window that ends *now*
is in its deque (`WindowComplete`), because a request works with a stamp that is
not later than now. For the promise, `PromiseInv` keeps for each refused request
that its deque has room or a front that leaves the window in time (`LeavesInTime`),
unless somebody was let in since or had overtaken it; `TurnInv` says that turns
are distinct.

**AvatarsProofs** — for any uploads and names, with or without failures:
`UploadsStaySound`, `AvatarStaysThere`. Assumption: `AvatarAssumption` (the null value is
no name). That the avatar is there is not inductive: an upload that removes the old
file must not hit the file of another one that has become the avatar since.
`OwnNames` excludes it: names are drawn once (`DrawnInv`), so until an upload has
stored its name in the row nobody can have read it as the old one. `FileInv` says what a
running upload has made of its file, or that a failed one has lost it.

**Only model-checked.** Liveness (`EveryCallEnds`, `EveryChangeAnnounced`,
`OrphansEnd`, `TransitionsEnd`), which the prover does not handle under fairness, and
what the two violations show. Every invariant and action property that a run finds to
hold is proved. No module declares a recursive operator, so all of them are open to
proofs.

## 6. What is not modelled

- **Tokens and login**: cryptography and formats are out of a model's reach. A login
  changes one thing, the hash of the password that it has just verified, which it
  writes again with newer parameters; nothing else reads it meanwhile. The life of a
  token appears in Presence as a socket that leaves, administrators, who are loaded at
  start, as the constant `Admins` of Forum.
- **Server, configuration, migrations, request and answer types**: no state of
  their own, or state that is fixed before the first request. The size of the pool and the
  schema appear as `Connections` and as the tables.
- Within the modelled parts: texts, formats, validation that only refuses,
  logging, and answers that are single queries (`list_posts`, `my_posts`,
  `list_comments`, profiles), which change nothing and are not paged by a cursor.
- Mail: a code is committed before it is sent (`account.rs:494`). When the mail
  fails the cooldown has begun, by design; `Mail` has no effect to go wrong.
- PostgreSQL, tokio, sqlx and DashMap are taken at their documented behaviour:
  READ COMMITTED, advisory locks to the end of the transaction, re-evaluation
  after a row lock, a mutex and bounded channels, one shard lock per entry.

## 7. Plan

Done: the relations with their abstract specification and the views on them, direct
messages, presence with its abstract specification, registration, avatars; the forum, the
lists over it and the rate limiter; proofs of all of them. Left:

1. Abstract specifications of the other components, with the refinement: a mailbox whose
   codes are tried and used in one step (Registration), a window that admits in the order
   of turns (RateLimiter).
2. Larger instances of the runs whose component is proved are not planned: the proofs
   cover them.
