------------------------------- MODULE Lists -------------------------------
(***************************************************************************)
(* The paged lists of src/src/social/relationships.rs: one client reads a  *)
(* list page by page, giving back each cursor, while what is listed        *)
(* changes.  Every page is one query.  The feed lists posts of Forum; the  *)
(* lists of friends, requests and blocks are rows that come and go; the    *)
(* search for users is paged by offset over users that only come.          *)
(***************************************************************************)
EXTENDS Forum

CONSTANTS Limit,        \* page_limit
          Key,          \* <<created_at, id>> of the rows of a list: a bound
          Rank,         \* places of users in the order of the search: a bound
          MaxOffset     \* the largest offset a cursor may carry

ASSUME ListsAssumption ==
    /\ Limit \in Nat \ {0}
    /\ Key \subseteq Nat \X Nat /\ Rank \subseteq Nat /\ MaxOffset \in Nat
    /\ None \notin Nat \X Nat

VARIABLES sources,      \* friends of the viewer with no block either way
          related,      \* rows of his friends, requests or blocks
          accounts,     \* ranks of the users that match his search
          list,         \* the list he reads
          state,        \* how far he is
          cursor,       \* the key of the last entry he got
          offset,       \* the offset of the next page of a search
          shown,        \* the entries he got
          received,     \* how many entries he got, repeated ones included
          stayed        \* entries that have been in the list ever since

listed == <<sources, related, accounts>>
reader == <<list, state, cursor, offset, shown, received>>
vars == <<forumVars, listed, reader, stayed>>

ByKey == {"feed", "friends", "requests", "blocks"}

Init ==
    /\ ForumInit
    /\ sources = {} /\ related = {} /\ accounts = {}
    /\ list = None /\ state = "away"
    /\ cursor = None /\ offset = 0
    /\ shown = {} /\ received = 0 /\ stayed = {}

-----------------------------------------------------------------------------
(* What a list holds, and in which order: the newest first *)

\* (created_at, id) < (cursor.at, cursor.id) of SQL.
Before(k, l) == k[1] < l[1] \/ (k[1] = l[1] /\ k[2] < l[2])

FeedRows == {<<posts[p].at, p>> : p \in {q \in DOMAIN posts : posts[q].author \in sources}}
Matching == {<<0, n>> : n \in accounts}
Rows == CASE list = "feed" -> FeedRows [] list = "search" -> Matching [] OTHER -> related

\* Altered: rows are compared by their times alone.
LaterOnly == {k \in Rows : cursor = None \/ k[1] < cursor[1]}
\* Altered: the last entry of a page is the first of the next.
FromCursorOn == {k \in Rows : cursor = None \/ k = cursor \/ Before(k, cursor)}
AfterCursor == {k \in Rows : cursor = None \/ Before(k, cursor)}

\* The first n of S, the newest first.
Newest(S, n) == {k \in S : Cardinality({l \in S : Before(k, l)}) < n}

\* OFFSET counts in the order of ranks.
AfterOffset == {k \in Rows : Cardinality({l \in Rows : Before(l, k)}) >= offset}
Lowest(S, n) == {k \in S : Cardinality({l \in S : Before(l, k)}) < n}

-----------------------------------------------------------------------------
\* He opens a list, without a cursor.
Open ==
    /\ state = "away"
    /\ list' \in scene.ops \cap (ByKey \cup {"search"})
    /\ state' = "reading"
    /\ UNCHANGED <<forumVars, listed, cursor, offset, shown, received>>
    /\ stayed' = Rows'

\* A page of the entries of S has come.
Receive(page) ==
    /\ shown' = shown \cup page
    /\ received' = received + Cardinality(page)

\* LIMIT limit + 1 tells whether there is more; if so, the last entry of the
\* page is the cursor.  list_friends and list_blocks read its INT4 id as an i64,
\* which panics: the connection breaks off without an answer.
Page ==
    /\ state = "reading" /\ list \in ByKey
    /\ IF Cardinality(AfterCursor) <= Limit
       THEN Receive(AfterCursor) /\ state' = "done" /\ UNCHANGED cursor
       ELSE IF list \in {"friends", "blocks"}
            THEN state' = "broken" /\ UNCHANGED <<cursor, shown, received>>
            ELSE LET page == Newest(AfterCursor, Limit)
                 IN  /\ Receive(page)
                     /\ \E last \in page :
                           /\ \A k \in page : k = last \/ Before(last, k)
                           /\ cursor' = last
                     /\ UNCHANGED state
    /\ UNCHANGED <<forumVars, listed, list, offset, stayed>>

\* decode_offset_cursor refuses what encode_offset_cursor may have made.
SearchPage ==
    /\ state = "reading" /\ list = "search"
    /\ IF offset > MaxOffset
       THEN state' = "refused" /\ UNCHANGED <<offset, shown, received>>
       ELSE /\ Receive(Lowest(AfterOffset, Limit))
            /\ IF Cardinality(AfterOffset) > Limit
               THEN offset' = offset + Limit /\ UNCHANGED state
               ELSE state' = "done" /\ UNCHANGED offset
    /\ UNCHANGED <<forumVars, listed, list, cursor, stayed>>

-----------------------------------------------------------------------------
(* What is listed changes *)

Stay == stayed' = stayed \cap Rows'

\* Handlers of the forum go on.
Meanwhile == ForumNext /\ UNCHANGED <<listed, reader>> /\ Stay

\* He gets or loses a friend, or a block comes or goes.
ChangeSources ==
    /\ "feed" \in scene.ops
    /\ \E u \in scene.users : sources' \in {sources \cup {u}, sources \ {u}}
    /\ UNCHANGED <<forumVars, related, accounts, reader>>
    /\ Stay

\* A friendship, a request or a block is made or undone; its created_at is the
\* start of its transaction, so it may enter anywhere.
ChangeRelated ==
    /\ scene.ops \cap (ByKey \ {"feed"}) # {}
    /\ \E k \in Key : related' \in {related \cup {k}, related \ {k}}
    /\ UNCHANGED <<forumVars, sources, accounts, reader>>
    /\ Stay

\* Somebody registers.  Users never go and never change their names.
Register ==
    /\ "search" \in scene.ops
    /\ \E n \in Rank : accounts' = accounts \cup {n}
    /\ UNCHANGED <<forumVars, sources, related, reader>>
    /\ Stay

Next == Open \/ Page \/ SearchPage \/ Meanwhile \/ ChangeSources \/ ChangeRelated \/ Register

Spec == Init /\ [][Next]_vars

-----------------------------------------------------------------------------
(* Properties *)

\* "A stable order that avoids repeated entries" (SOCIAL-API-V2.md:25): a list
\* paged by key shows no entry twice, whatever comes, goes and comes back
\* between two pages.
NothingTwice == list \in ByKey => received = Cardinality(shown)

\* Whoever reads a list to its end has seen all that was in it from the first
\* page to the last, in spite of what entered or left elsewhere.  A search may
\* repeat entries but skips none.
StayersShown == state = "done" => stayed \subseteq shown
=============================================================================
