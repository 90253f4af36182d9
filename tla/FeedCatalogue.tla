---------------------------- MODULE FeedCatalogue ----------------------------
(***************************************************************************)
(* GET /v1/feeds and POST /v1/feeds: clients walk through the catalogue by *)
(* cursor pages while feeds are added.  The first page of default size is  *)
(* kept in Redis: it is written in the background after the response to    *)
(* the request that missed it, and deleted after a feed is added.          *)
(*                                                                         *)
(* A page is determined by the feeds that existed when it was read, so the *)
(* cache and the writes on their way hold those sets.                      *)
(***************************************************************************)
EXTENDS Integers, FiniteSets, SequencesExt

CONSTANTS
    Ids,            \* ids of feeds, in their order
    Limits,         \* page sizes a client may ask for
    DefaultLimit,   \* the size of the cached first page
    Clients,
    MaxFills        \* bound: cache writes in flight

ASSUME IdsAssumption == Ids \subseteq Nat \ {0}
ASSUME LimitsAssumption == DefaultLimit \in Limits /\ Limits \subseteq Nat \ {0}
ASSUME MaxFillsAssumption == MaxFills \in Nat

VARIABLES
    feeds,      \* ids in the feeds table
    posting,    \* feeds stored by a PostFeed that has not answered yet
    announced,  \* feeds whose PostFeed has deleted the cached page and answered
    cache,      \* the cached page, if there is one: {} or a set of one page
    fills,      \* sets of pages that are about to be written to the cache
    walk        \* per client: its way through the pages

vars == <<feeds, posting, announced, cache, fills, walk>>

Start == 0   \* no cursor

\* A walk is idle, walking or done and has a cursor; "seen" are the feeds shown,
\* "known" those of the first page's list, "promised" those announced by then.

Init ==
    /\ feeds = {}
    /\ posting = {}
    /\ announced = {}
    /\ cache = {}
    /\ fills = {}
    /\ walk = [c \in Clients |->
          [phase |-> "idle", cursor |-> Start, seen |-> <<>>, known |-> {}, promised |-> {}]]

-----------------------------------------------------------------------------
(* The pages.                                                              *)

\* Mutant: the row of the cursor comes again.
BehindOrAt(S, after) == {x \in S : x >= after}

\* WHERE id > after
Behind(S, after) == {x \in S : x > after}

\* ORDER BY id: exactly one sequence.
Orders(S) ==
    {s \in SetToSeqs(S) : \A i, k \in DOMAIN s : i < k => s[i] < s[k]}

\* rows[:n], when there are as many.
FirstRows(rows, n) == IF Len(rows) > n THEN SubSeq(rows, 1, n) ELSE rows

\* GetFeedsPage(after, limit+1), as the set of its one result.
GetFeedsPage(S, after, limit) ==
    {FirstRows(s, limit + 1) : s \in Orders(Behind(S, after))}

\* Mutant: the cursor is the first row that was left out.
CursorBeyond(rows, limit) == rows[limit + 1]

\* X-Next-Cursor, when rows are left out: the last feed shown.
Cursor(rows, limit) == rows[limit]

\* writeFeedsPage, as the client takes it.
Receive(c, rows, limit, before, known, promised) ==
    LET more == Len(rows) > limit
    IN walk' = [walk EXCEPT ![c] =
          [phase |-> IF more THEN "walking" ELSE "done",
           cursor |-> IF more THEN Cursor(rows, limit) ELSE Start,
           seen |-> before \o FirstRows(rows, limit),
           known |-> known,
           promised |-> promised]]

-----------------------------------------------------------------------------
(* The handlers.                                                           *)

\* GetAllFeeds without "after", answered from the cache.
FirstPageHit(c) ==
    /\ walk[c].phase # "walking"
    /\ \E page \in cache : \E rows \in GetFeedsPage(page, Start, DefaultLimit) :
          Receive(c, rows, DefaultLimit, <<>>, page, announced)
    /\ UNCHANGED <<feeds, posting, announced, cache, fills>>

\* The cache misses or fails, or the size is not the default one: the page is
\* read from the database, and the default one is to be cached.
FirstPageRead(c, limit) ==
    /\ walk[c].phase # "walking"
    /\ \E rows \in GetFeedsPage(feeds, Start, limit) :
          Receive(c, rows, limit, <<>>, feeds, announced)
    /\ IF limit = DefaultLimit
         THEN /\ Cardinality(fills) < MaxFills
              /\ fills' = fills \union {feeds}
         ELSE UNCHANGED fills
    /\ UNCHANGED <<feeds, posting, announced, cache>>

\* GetAllFeeds with "after".
NextPage(c, limit) ==
    /\ walk[c].phase = "walking"
    /\ \E rows \in GetFeedsPage(feeds, walk[c].cursor, limit) :
          Receive(c, rows, limit, walk[c].seen, walk[c].known, walk[c].promised)
    /\ UNCHANGED <<feeds, posting, announced, cache, fills>>

\* The client does not ask for the rest.
Leave(c) ==
    /\ walk[c].phase = "walking"
    /\ walk' = [walk EXCEPT ![c].phase = "idle"]
    /\ UNCHANGED <<feeds, posting, announced, cache, fills>>

\* The background task: SetFeeds succeeds, or fails or is cancelled.
Fill(page) ==
    /\ page \in fills
    /\ fills' = fills \ {page}
    /\ cache' \in {{page}, cache}
    /\ UNCHANGED <<feeds, posting, announced, walk>>

\* The TTL of a minute ends.
Expire ==
    /\ cache # {}
    /\ cache' = {}
    /\ UNCHANGED <<feeds, posting, announced, fills, walk>>

\* PostFeed, first half: AddFeed under a new random id.
AddFeed(id) ==
    /\ id \notin feeds
    /\ feeds' = feeds \union {id}
    /\ posting' = posting \union {id}
    /\ UNCHANGED <<announced, cache, fills, walk>>

\* Second half: the cached page is deleted; the answer is the same when the
\* deletion fails.
Answer(id) ==
    /\ id \in posting
    /\ posting' = posting \ {id}
    /\ \/ cache' = {} /\ announced' = announced \union {id}
       \/ UNCHANGED <<cache, announced>>
    /\ UNCHANGED <<feeds, fills, walk>>

Next ==
    \/ \E c \in Clients :
          \/ FirstPageHit(c) \/ Leave(c)
          \/ \E limit \in Limits : FirstPageRead(c, limit) \/ NextPage(c, limit)
    \/ \E page \in fills : Fill(page)
    \/ Expire
    \/ \E id \in Ids : AddFeed(id) \/ Answer(id)

Spec == Init /\ [][Next]_vars

-----------------------------------------------------------------------------
(* Properties.                                                             *)

\* A walk shows every feed once and in the order of the ids, although pages
\* of different size follow each other and the first comes from the cache.
WalkOrdered ==
    \A c \in Clients : \A i, k \in DOMAIN walk[c].seen :
       i < k => walk[c].seen[i] < walk[c].seen[k]

\* A walk that has come to the page without a cursor has shown every feed that
\* existed when its first page was read, by itself or by the request that
\* filled the cache (README: without the header the list is complete).
WalkComplete ==
    \A c \in Clients : walk[c].phase = "done" => walk[c].known \subseteq Range(walk[c].seen)

\* A walk shows every feed whose POST was answered, the cached page deleted,
\* before the walk began (README: only feeds added in parallel may be missing).
PostedIsListed ==
    \A c \in Clients : walk[c].phase = "done" => walk[c].promised \subseteq Range(walk[c].seen)

=============================================================================
