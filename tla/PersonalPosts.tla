---------------------------- MODULE PersonalPosts ----------------------------
(***************************************************************************)
(* GET /v1/posts: a user reads the posts of the feeds that the user        *)
(* follows, newest first, in pages of LIMIT and OFFSET, while posts are    *)
(* saved and feeds followed.  Every page is kept in Redis for a minute; it *)
(* is written in the background after the response to the request that     *)
(* missed it, and nothing deletes it earlier.                              *)
(***************************************************************************)
EXTENDS Naturals, FiniteSets, SequencesExt

CONSTANTS
    Users, Feeds, Posts,
    Clients,       \* each walks through the list of one user at a time
    FeedOf,        \* the feed of a post
    PublishedAt,   \* its published_at, as a number; posts may share it
    Limits,        \* page sizes a client asks for
    TTL,           \* the minute a page is kept
    FillTime,      \* a background write has ended after so long
    MaxFills,      \* bound: background writes in flight
    MaxEntries,    \* bound: pages kept at a time
    MaxTime        \* bound: the end of the clock

ASSUME PostsAssumption ==
    FeedOf \in [Posts -> Feeds] /\ PublishedAt \in [Posts -> Nat]
ASSUME LimitsAssumption == Limits \subseteq Nat \ {0}
ASSUME TimesAssumption ==
    /\ TTL \in Nat \ {0} /\ FillTime \in Nat /\ MaxTime \in Nat 
    /\ MaxFills \in Nat /\ MaxEntries \in Nat

VARIABLES
    now,
    saved,      \* the posts
    follows,    \* feed_follows: <<user, feed>>
    cache,      \* entries [key, page, expires]
    fills,      \* writes to the cache on their way: [key, page, until]
    walk        \* per client: its way through the pages

vars == <<now, saved, follows, cache, fills, walk>>

\* A page is [rows, list, readAt]: its posts, the list they were cut from, and
\* when.  A walk says whose list it goes through and where it has come, what
\* the client has been shown, the list of the first page and that of the last,
\* how old the last one was, and whether no page was older than the one before.
NoWalk == [done |-> TRUE, seen |-> {}]

Init ==
    /\ now = 0
    /\ saved = {}
    /\ follows = {}
    /\ cache = {}
    /\ fills = {}
    /\ walk = [c \in Clients |-> NoWalk]

-----------------------------------------------------------------------------
(* The query.                                                              *)

\* posts JOIN feed_follows WHERE user_id = u
ListOf(u) ==
    {p \in saved : <<u, FeedOf[p]>> \in follows}

\* ORDER BY published_at DESC: posts of the same moment come in any order.
Orders(S) ==
    {s \in SetToSeqs(S) : \A i, k \in DOMAIN s :
        i < k => PublishedAt[s[i]] >= PublishedAt[s[k]]}

\* LIMIT and OFFSET.
GetPosts(u, limit, offset) ==
    {[rows |-> {s[i] : i \in {x \in DOMAIN s : offset < x /\ x <= offset + limit}},
      list |-> ListOf(u), readAt |-> now] : s \in Orders(ListOf(u))}

\* Mutants: the key lacks the user, or the size of the page.
KeyOfPage(u, limit, offset) == <<limit, offset>>
KeyOfOffset(u, limit, offset) == <<u, offset>>

Key(u, limit, offset) == <<u, limit, offset>>

-----------------------------------------------------------------------------
(* The handler, and the client that asks for page after page of one size   *)
(* until a page is not full.                                               *)

\* The page that is asked for: the first one of a new walk, or the next one.
Asked(c, u, limit, offset) ==
    IF walk[c].done THEN offset = 0
    ELSE u = walk[c].user /\ limit = walk[c].limit /\ offset = walk[c].offset

Receive(c, u, limit, offset, page) ==
    LET first == offset = 0
        before == walk[c]
    IN walk' = [walk EXCEPT ![c] =
        [user    |-> u,
         limit   |-> limit,
         offset  |-> offset + limit,
         done    |-> Cardinality(page.rows) < limit,
         seen    |-> page.rows \union (IF first THEN {} ELSE before.seen),
         known   |-> IF first THEN page.list ELSE before.known,
         list    |-> page.list,
         age     |-> now - page.readAt,
         forward |-> first \/ (before.forward /\ before.list \subseteq page.list)]]

\* X-Cache: HIT
Hit(c, u, limit, offset) ==
    /\ Asked(c, u, limit, offset)
    /\ \E entry \in cache :
          /\ entry.key = Key(u, limit, offset)
          /\ Receive(c, u, limit, offset, entry.page)
    /\ UNCHANGED <<now, saved, follows, cache, fills>>

\* X-Cache: MISS.  The entry is not there or Redis fails; the page that is read
\* is to be cached.
Miss(c, u, limit, offset) ==
    /\ Asked(c, u, limit, offset)
    /\ Cardinality(fills) < MaxFills
    /\ \E page \in GetPosts(u, limit, offset) :
          /\ Receive(c, u, limit, offset, page)
          /\ fills' = fills \union
                {[key |-> Key(u, limit, offset), page |-> page, until |-> now + FillTime]}
    /\ UNCHANGED <<now, saved, follows, cache>>

\* The client does not ask for the rest.
Leave(c) ==
    /\ ~walk[c].done
    /\ walk' = [walk EXCEPT ![c] = NoWalk]
    /\ UNCHANGED <<now, saved, follows, cache, fills>>

\* Mutant: the page is kept in the unit of the duration, not for a minute.
ExpiryForever(fill) == MaxTime + TTL

\* The time to live counts from the write.
Expiry(fill) == now + TTL

\* The background task: SetPost replaces the entry of its key, or fails.
Fill(fill) ==
    /\ fills' = fills \ {fill}
    /\ \/ UNCHANGED cache
       \/ LET others == {entry \in cache : entry.key # fill.key} IN
          /\ Cardinality(others) < MaxEntries
          /\ cache' = others \union
                {[key |-> fill.key, page |-> fill.page, expires |-> Expiry(fill)]}
    /\ UNCHANGED <<now, saved, follows, walk>>

-----------------------------------------------------------------------------
(* The world.                                                              *)

SavePost(p) ==
    /\ p \notin saved
    /\ saved' = saved \union {p}
    /\ UNCHANGED <<now, follows, cache, fills, walk>>

FollowFeed(u, f) ==
    /\ <<u, f>> \notin follows
    /\ follows' = follows \union {<<u, f>>}
    /\ UNCHANGED <<now, saved, cache, fills, walk>>

\* Time passes; no background write takes longer than FillTime, and Redis
\* drops entries when their time is over.
Tick ==
    /\ now < MaxTime
    /\ \A fill \in fills : now < fill.until
    /\ now' = now + 1
    /\ cache' = {entry \in cache : now' < entry.expires}
    /\ UNCHANGED <<saved, follows, fills, walk>>

Offsets(c) == {0} \union (IF walk[c].done THEN {} ELSE {walk[c].offset})

Next ==
    \/ \E c \in Clients :
          \/ \E u \in Users, limit \in Limits, offset \in Offsets(c) :
                Hit(c, u, limit, offset) \/ Miss(c, u, limit, offset)
          \/ Leave(c)
    \/ \E fill \in fills : Fill(fill)
    \/ \E p \in Posts : SavePost(p)
    \/ \E u \in Users, f \in Feeds : FollowFeed(u, f)
    \/ Tick

Spec == Init /\ [][Next]_vars

-----------------------------------------------------------------------------
(* Properties.                                                             *)

\* A user is shown posts of feeds that the user follows, also by pages that
\* were cached for somebody or for another page.
OwnPosts ==
    \A c \in Clients : \A p \in walk[c].seen : <<walk[c].user, FeedOf[p]>> \in follows

\* A post that shares its published_at with no other post of the list.
HasOwnMoment(p, S) == \A q \in S \ {p} : PublishedAt[q] # PublishedAt[p]

\* Posts are only ever added, so the rows of an OFFSET move away from the
\* reader and not towards: a walk whose pages do not go back in time shows
\* every post that was in the list when it began.  Cached pages that are older
\* than the page before them are excluded here, and so are posts of the same
\* moment, whose order may change between two queries.
WalkComplete ==
    \A c \in Clients : walk[c].done /\ walk[c] # NoWalk /\ walk[c].forward =>
        \A p \in walk[c].known :
            HasOwnMoment(p, walk[c].list) => p \in walk[c].seen

\* Nothing invalidates a page when a post is saved or a feed followed, yet no
\* page shows a list that is older than the TTL and the time a background
\* write takes.
StaleForAMinute ==
    \A c \in Clients : walk[c] # NoWalk => walk[c].age <= TTL + FillTime

=============================================================================
