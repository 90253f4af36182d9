------------------------- MODULE PersonalPostsProofs -------------------------
(***************************************************************************)
(* The safety properties of PersonalPosts, for every number of users,      *)
(* clients and posts, every assignment of dates and every page size.  The  *)
(* place of a post that shares its date with no other is its rank, the     *)
(* number of newer posts in the list; pages and walks are described by     *)
(* ranks, and ranks only grow.                                             *)
(***************************************************************************)
EXTENDS PersonalPosts, FiniteSetTheorems, TLAPS

-----------------------------------------------------------------------------
(* The inductive invariant.                                                *)

Newer(p, S) == {q \in S : PublishedAt[q] > PublishedAt[p]}
Rank(p, S) == Cardinality(Newer(p, S))

\* A page for the key <<user, limit, offset>> has been cut at these places from
\* the user's list of an earlier moment.
PageOK(key, page) ==
    /\ page.readAt \in Nat /\ page.readAt <= now
    /\ page.list \subseteq Posts /\ IsFiniteSet(page.list)
    /\ page.rows \subseteq page.list
    /\ \A p \in page.list : <<key[1], FeedOf[p]>> \in follows
    /\ \A p \in page.list : HasOwnMoment(p, page.list) =>
          /\ key[3] <= Rank(p, page.list) /\ Rank(p, page.list) < key[3] + key[2]
                => p \in page.rows
          /\ Cardinality(page.rows) < key[2] => Rank(p, page.list) < key[3] + key[2]

\* Redis has dropped what is over, and counts from the end of the write.
CacheOK ==
    \A entry \in cache :
       /\ PageOK(entry.key, entry.page)
       /\ entry.expires \in Nat /\ now < entry.expires
       /\ entry.expires <= entry.page.readAt + FillTime + TTL

FillsOK ==
    \A fill \in fills :
       /\ PageOK(fill.key, fill.page)
       /\ fill.until = fill.page.readAt + FillTime
       /\ now <= fill.until

\* What the client has been shown is the user's, and what it has not been shown
\* of the first list is still before it, unless a page went back in time.
WalkOK(w) ==
    /\ w.offset \in Nat
    /\ \A p \in w.seen : <<w.user, FeedOf[p]>> \in follows
    /\ w.age <= TTL + FillTime
    /\ w.list \subseteq Posts /\ IsFiniteSet(w.list)
    /\ w.forward =>
          /\ w.known \subseteq w.list
          /\ \A p \in w.known : HasOwnMoment(p, w.list) =>
                p \in w.seen \/ (~w.done /\ w.offset <= Rank(p, w.list))

TablesOK ==
    /\ now \in Nat
    /\ saved \subseteq Posts /\ IsFiniteSet(saved)
    /\ walk = [c \in Clients |-> walk[c]]

WalksOK == \A c \in Clients : walk[c] = NoWalk \/ WalkOK(walk[c])

IInv == TablesOK /\ CacheOK /\ FillsOK /\ WalksOK

-----------------------------------------------------------------------------
(* Ranks and pages.                                                        *)

\* Saving posts moves a post away from the beginning of the list, never nearer.
LEMMA RankGrows ==
    ASSUME NEW S, NEW T, S \subseteq T, IsFiniteSet(T), NEW p
    PROVE  /\ Rank(p, S) \in Nat /\ Rank(p, T) \in Nat
           /\ Rank(p, S) <= Rank(p, T)
<1>1. Newer(p, T) \subseteq T /\ Newer(p, S) \subseteq Newer(p, T)
  BY DEF Newer
<1>2. IsFiniteSet(Newer(p, T))
  BY <1>1, FS_Subset
<1>3. /\ IsFiniteSet(Newer(p, S))
      /\ Cardinality(Newer(p, S)) <= Cardinality(Newer(p, T))
  BY <1>1, <1>2, FS_Subset
<1> QED
  BY <1>2, <1>3, FS_CardinalityType DEF Rank

\* ORDER BY published_at DESC puts a post with a date of its own behind the
\* newer ones and before all others.
LEMMA PlaceIsRank ==
    ASSUME NEW S, S \subseteq Posts, IsFiniteSet(S), NEW s \in Orders(S),
           NEW p \in S, HasOwnMoment(p, S)
    PROVE  \E i \in 1..Cardinality(S) : s[i] = p /\ Rank(p, S) = i - 1
<1> DEFINE n == Cardinality(S)
<1>1. /\ n \in Nat
      /\ s \in [1..n -> S]
      /\ \A i, j \in 1..n : i # j => s[i] # s[j]
      /\ \A i, j \in 1..n : i < j => PublishedAt[s[i]] >= PublishedAt[s[j]]
  BY FS_CardinalityType DEF Orders, SetToSeqs
<1>2. s \in Injection(1..n, S)
  BY <1>1 DEF Injection, IsInjective
<1>3. IsFiniteSet(1..n) /\ Cardinality(1..n) = n
  BY <1>1, FS_Interval
<1>4. s \in Surjection(1..n, S)
  BY <1>2, <1>3, FS_Injection
<1>5. \A q \in S : \E i \in 1..n : s[i] = q
  BY <1>4 DEF Surjection
<1>6. PICK i \in 1..n : s[i] = p
  BY <1>5
<1>7. \A q \in S : PublishedAt[q] \in Nat
  BY PostsAssumption
<1> HIDE DEF n
<1>8. ASSUME NEW j \in 1..(i - 1) PROVE s[j] \in Newer(p, S)
  <2>1. j \in 1..n /\ j < i
    BY <1>1
  <2>2. s[j] \in S /\ s[j] # p /\ PublishedAt[s[j]] >= PublishedAt[p]
    BY <1>1, <1>6, <2>1
  <2>3. PublishedAt[s[j]] # PublishedAt[p]
    BY <2>2 DEF HasOwnMoment
  <2> QED
    BY <1>7, <2>2, <2>3 DEF Newer
<1>9. ASSUME NEW q \in Newer(p, S) PROVE \E j \in 1..(i - 1) : s[j] = q
  <2>1. q \in S /\ PublishedAt[q] > PublishedAt[p]
    BY DEF Newer
  <2>2. PICK j \in 1..n : s[j] = q
    BY <1>5, <2>1
  <2>3. ~(i < j) /\ i # j
    BY <1>1, <1>6, <1>7, <2>1, <2>2
  <2> QED
    BY <1>1, <2>2, <2>3
<1> DEFINE g == [j \in 1..(i - 1) |-> s[j]]
<1>10. g \in [1..(i - 1) -> Newer(p, S)]
  BY <1>8
<1>11. g \in Injection(1..(i - 1), Newer(p, S))
  <2>1. \A j, k \in 1..(i - 1) : g[j] = g[k] => j = k
    BY <1>1
  <2> QED
    BY <1>10, <2>1 DEF Injection, IsInjective
<1>12. g \in Surjection(1..(i - 1), Newer(p, S))
  BY <1>9, <1>10 DEF Surjection
<1>13. IsFiniteSet(Newer(p, S))
  BY FS_Subset DEF Newer
<1>14. Cardinality(1..(i - 1)) = i - 1
  BY <1>1, FS_Interval
<1>15. Cardinality(1..(i - 1)) = Cardinality(Newer(p, S))
  BY <1>11, <1>12, <1>13, FS_Injection
<1> QED
  BY <1>6, <1>14, <1>15 DEF Rank, n

\* LIMIT and OFFSET: the page holds the places from offset on, and a page that
\* is not full is the last one.
LEMMA PageIsCut ==
    ASSUME NEW S, S \subseteq Posts, IsFiniteSet(S), NEW s \in Orders(S),
           NEW limit \in Nat \ {0}, NEW offset \in Nat, NEW rows,
           rows = {s[i] : i \in {x \in DOMAIN s : offset < x /\ x <= offset + limit}}
    PROVE  /\ rows \subseteq S
           /\ \A p \in S : HasOwnMoment(p, S) =>
                /\ offset <= Rank(p, S) /\ Rank(p, S) < offset + limit => p \in rows
                /\ Cardinality(rows) < limit => Rank(p, S) < offset + limit
<1> DEFINE n == Cardinality(S)
<1>1. /\ n \in Nat
      /\ s \in [1..n -> S]
      /\ \A i, j \in 1..n : i # j => s[i] # s[j]
  BY FS_CardinalityType DEF Orders, SetToSeqs
<1> HIDE DEF n
<1>2. rows \subseteq S
  BY <1>1
<1>3. ASSUME Cardinality(rows) < limit PROVE n < offset + limit
  <2> SUFFICES ASSUME n >= offset + limit PROVE FALSE
    BY <1>1
  <2> DEFINE g == [j \in 1..limit |-> s[offset + j]]
  <2>1. \A j \in 1..limit : offset + j \in 1..n /\ offset < offset + j /\ offset + j <= offset + limit
    BY <1>1
  <2>2. g \in [1..limit -> rows]
    BY <1>1, <2>1
  <2>3. \A j, k \in 1..limit : g[j] = g[k] => j = k
    BY <1>1, <2>1
  <2>4. g \in Injection(1..limit, rows)
    BY <2>2, <2>3 DEF Injection, IsInjective
  <2>5. IsFiniteSet(rows) /\ Cardinality(rows) \in Nat
    BY <1>2, FS_Subset, FS_CardinalityType
  <2>6. Cardinality(1..limit) <= Cardinality(rows)
    BY <2>4, <2>5, FS_Injection
  <2>7. Cardinality(1..limit) = limit
    BY FS_Interval
  <2> QED
    BY <1>3, <2>5, <2>6, <2>7
<1>4. ASSUME NEW p \in S, HasOwnMoment(p, S)
      PROVE  /\ offset <= Rank(p, S) /\ Rank(p, S) < offset + limit => p \in rows
             /\ Cardinality(rows) < limit => Rank(p, S) < offset + limit
  <2>1. PICK i \in 1..n : s[i] = p /\ Rank(p, S) = i - 1
    BY <1>4, PlaceIsRank DEF n
  <2>2. offset <= Rank(p, S) /\ Rank(p, S) < offset + limit => p \in rows
    BY <1>1, <2>1
  <2>3. Cardinality(rows) < limit => Rank(p, S) < offset + limit
    BY <1>1, <1>3, <2>1
  <2> QED
    BY <2>2, <2>3
<1> QED
  BY <1>2, <1>4

-----------------------------------------------------------------------------
(* What pages and walks need of the rest of the state.                     *)

\* Later, and with more follows, a page is as good as it was.
LEMMA PageKept ==
    ASSUME NEW key, NEW page, PageOK(key, page), now \in Nat, now' \in Nat, now <= now',
           follows \subseteq follows'
    PROVE  PageOK(key, page)'
<1>1. page.readAt \in Nat /\ page.readAt <= now'
  BY DEF PageOK
<1>2. \A p \in page.list : <<key[1], FeedOf[p]>> \in follows'
  BY DEF PageOK
<1> QED
  BY <1>1, <1>2 DEF PageOK, Rank, Newer, HasOwnMoment

LEMMA WalkKept ==
    ASSUME NEW w, WalkOK(w), follows \subseteq follows'
    PROVE  WalkOK(w)'
BY DEF WalkOK, Rank, Newer, HasOwnMoment

\* A page that is read from PostgreSQL.
LEMMA PageRead ==
    ASSUME TablesOK, NEW u \in Users, NEW limit \in Limits, NEW offset \in Nat,
           NEW page \in GetPosts(u, limit, offset)
    PROVE  PageOK(Key(u, limit, offset), page) /\ page.readAt = now
<1> DEFINE S == ListOf(u)
           Cut(s) == {s[i] : i \in {x \in DOMAIN s : offset < x /\ x <= offset + limit}}
<1>1. PICK s \in Orders(S) : page = [rows |-> Cut(s), list |-> S, readAt |-> now]
  BY DEF GetPosts
<1>2. /\ S \subseteq Posts /\ IsFiniteSet(S)
      /\ \A p \in S : <<u, FeedOf[p]>> \in follows
  <2>1. S \subseteq saved
    BY DEF ListOf
  <2> QED
    BY <2>1, FS_Subset DEF TablesOK, ListOf
<1>3. limit \in Nat \ {0}
  BY LimitsAssumption
<1> HIDE DEF S
<1>4. /\ Cut(s) \subseteq S
      /\ \A p \in S : HasOwnMoment(p, S) =>
           /\ offset <= Rank(p, S) /\ Rank(p, S) < offset + limit => p \in Cut(s)
           /\ Cardinality(Cut(s)) < limit => Rank(p, S) < offset + limit
  BY <1>2, <1>3, PageIsCut
<1> HIDE DEF Cut
<1>5. page.rows = Cut(s) /\ page.list = S /\ page.readAt = now
  BY <1>1
<1>6. Key(u, limit, offset) = <<u, limit, offset>> /\ now \in Nat
  BY DEF Key, TablesOK
<1> QED
  BY <1>2, <1>4, <1>5, <1>6 DEF PageOK

\* A page that has come for the key that was asked for takes the walk on.
LEMMA Received ==
    ASSUME TablesOK, WalksOK, NEW c \in Clients, NEW u \in Users, NEW limit \in Limits,
           NEW offset \in Nat, Asked(c, u, limit, offset), NEW page,
           PageOK(Key(u, limit, offset), page), now - page.readAt <= TTL + FillTime,
           Receive(c, u, limit, offset, page), UNCHANGED follows
    PROVE  /\ WalksOK'
           /\ walk' = [d \in Clients |-> walk'[d]]
<1> DEFINE before == walk[c]
           after == [user    |-> u,
                     limit   |-> limit,
                     offset  |-> offset + limit,
                     done    |-> Cardinality(page.rows) < limit,
                     seen    |-> page.rows \union (IF offset = 0 THEN {} ELSE before.seen),
                     known   |-> IF offset = 0 THEN page.list ELSE before.known,
                     list    |-> page.list,
                     age     |-> now - page.readAt,
                     forward |-> offset = 0 \/ (before.forward /\ before.list \subseteq page.list)]
<1>1. walk' = [walk EXCEPT ![c] = after]
  BY DEF Receive
<1>2. /\ walk' = [d \in Clients |-> walk'[d]]
      /\ walk'[c] = after
      /\ \A d \in Clients : d # c => walk'[d] = walk[d]
  BY <1>1 DEF TablesOK
<1>3. limit \in Nat \ {0}
  BY LimitsAssumption
<1>4. /\ page.list \subseteq Posts /\ IsFiniteSet(page.list) /\ page.rows \subseteq page.list
      /\ \A p \in page.list : <<u, FeedOf[p]>> \in follows
      /\ \A p \in page.list : HasOwnMoment(p, page.list) =>
           /\ offset <= Rank(p, page.list) /\ Rank(p, page.list) < offset + limit
                 => p \in page.rows
           /\ Cardinality(page.rows) < limit => Rank(p, page.list) < offset + limit
  BY DEF PageOK, Key
<1>5. offset # 0 => /\ u = before.user /\ offset = before.offset /\ ~before.done
                     /\ WalkOK(before)
  <2>1. offset # 0 => u = before.user /\ offset = before.offset /\ ~before.done
    BY DEF Asked
  <2>2. ~before.done => before # NoWalk
    BY DEF NoWalk
  <2> QED
    BY <2>1, <2>2 DEF WalksOK
<1>6. ASSUME after.forward
      PROVE  /\ after.known \subseteq page.list
             /\ \A p \in after.known : HasOwnMoment(p, page.list) =>
                   \/ p \in after.seen
                   \/ ~after.done /\ offset + limit <= Rank(p, page.list)
  <2>1. after.known \subseteq page.list
    BY <1>5, <1>6 DEF WalkOK
  <2>2. ASSUME NEW p \in after.known, HasOwnMoment(p, page.list)
        PROVE  p \in after.seen \/ offset <= Rank(p, page.list)
    <3>1. Rank(p, page.list) \in Nat
      BY <1>4, RankGrows
    <3>2. CASE offset = 0
      BY <3>1, <3>2
    <3>3. CASE offset # 0
      <4>1. /\ before.list \subseteq page.list /\ p \in before.known
            /\ HasOwnMoment(p, before.list)
        BY <1>6, <2>2, <3>3 DEF HasOwnMoment
      <4>2. p \in before.seen \/ offset <= Rank(p, before.list)
        BY <1>5, <1>6, <3>3, <4>1 DEF WalkOK
      <4>3. Rank(p, before.list) \in Nat /\ Rank(p, before.list) <= Rank(p, page.list)
        BY <1>4, <4>1, RankGrows
      <4> QED
        BY <3>1, <3>3, <4>2, <4>3
    <3> QED
      BY <3>2, <3>3
  <2>3. ASSUME NEW p \in after.known, HasOwnMoment(p, page.list)
        PROVE  p \in after.seen \/ (~after.done /\ offset + limit <= Rank(p, page.list))
    <3>1. Rank(p, page.list) \in Nat /\ p \in page.list
      BY <1>4, <2>1, RankGrows
    <3>2. CASE Rank(p, page.list) < offset + limit
      <4>1. p \in after.seen \/ p \in page.rows
        BY <1>4, <2>2, <2>3, <3>1, <3>2
      <4> QED
        BY <4>1
    <3>3. CASE ~(Rank(p, page.list) < offset + limit)
      <4>1. ~(Cardinality(page.rows) < limit)
        BY <1>4, <2>3, <3>1, <3>3
      <4>2. ~after.done
        BY <4>1
      <4>3. offset + limit <= Rank(p, page.list)
        BY <1>3, <3>1, <3>3
      <4> QED
        BY <4>2, <4>3
    <3> QED
      BY <3>2, <3>3
  <2> QED
    BY <2>1, <2>3
<1>7. \A p \in after.seen : <<u, FeedOf[p]>> \in follows
  BY <1>4, <1>5 DEF WalkOK
<1>8. offset + limit \in Nat
  BY <1>3
<1>9. WalkOK(after)
  BY <1>4, <1>6, <1>7, <1>8 DEF WalkOK
<1> HIDE DEF after
<1>10. \A d \in Clients : walk'[d] = NoWalk \/ WalkOK(walk[d])'
  <2> SUFFICES ASSUME NEW d \in Clients, walk'[d] # NoWalk PROVE WalkOK(walk[d])'
    OBVIOUS
  <2>1. WalkOK(walk'[d])
    BY <1>2, <1>9 DEF WalksOK
  <2> QED
    BY <2>1 DEF WalkOK
<1> QED
  BY <1>2, <1>10 DEF WalksOK

LEMMA OffsetsAreNumbers ==
    ASSUME WalksOK, NEW c \in Clients, NEW offset \in Offsets(c)
    PROVE  offset \in Nat
<1>1. NoWalk.done = TRUE
  BY DEF NoWalk
<1> QED
  BY <1>1 DEF Offsets, WalksOK, WalkOK

-----------------------------------------------------------------------------
(* The steps.                                                              *)

LEMMA InitIInv == Init => IInv
BY FS_EmptySet DEF Init, IInv, TablesOK, CacheOK, FillsOK, WalksOK

LEMMA HitKeeps ==
    ASSUME IInv, NEW c \in Clients, NEW u \in Users, NEW limit \in Limits,
           NEW offset \in Offsets(c), Hit(c, u, limit, offset)
    PROVE  IInv'
<1>1. offset \in Nat
  BY OffsetsAreNumbers DEF IInv
<1>2. PICK entry \in cache : /\ entry.key = Key(u, limit, offset)
                             /\ Receive(c, u, limit, offset, entry.page)
  BY DEF Hit
<1>3. PageOK(Key(u, limit, offset), entry.page)
  BY <1>2 DEF IInv, CacheOK
<1>4. now - entry.page.readAt <= TTL + FillTime
  BY <1>3, TimesAssumption DEF IInv, CacheOK, TablesOK, PageOK
<1>5. Asked(c, u, limit, offset) /\ UNCHANGED <<now, saved, follows, cache, fills>>
  BY DEF Hit
<1>6. WalksOK' /\ walk' = [d \in Clients |-> walk'[d]]
  BY <1>1, <1>2, <1>3, <1>4, <1>5, Received DEF IInv
<1>7. CacheOK' /\ FillsOK'
  BY <1>5 DEF IInv, CacheOK, FillsOK, PageOK, Rank, Newer, HasOwnMoment
<1> QED
  BY <1>5, <1>6, <1>7 DEF IInv, TablesOK

LEMMA MissKeeps ==
    ASSUME IInv, NEW c \in Clients, NEW u \in Users, NEW limit \in Limits,
           NEW offset \in Offsets(c), Miss(c, u, limit, offset)
    PROVE  IInv'
<1>1. offset \in Nat
  BY OffsetsAreNumbers DEF IInv
<1>2. PICK page \in GetPosts(u, limit, offset) :
        /\ Receive(c, u, limit, offset, page)
        /\ fills' = fills \union
              {[key |-> Key(u, limit, offset), page |-> page, until |-> now + FillTime]}
  BY DEF Miss
<1>3. PageOK(Key(u, limit, offset), page) /\ page.readAt = now
  BY <1>1, PageRead DEF IInv
<1>4. now \in Nat /\ now - page.readAt <= TTL + FillTime
  BY <1>3, TimesAssumption DEF IInv, TablesOK
<1>5. Asked(c, u, limit, offset) /\ UNCHANGED <<now, saved, follows, cache>>
  BY DEF Miss
<1>6. WalksOK' /\ walk' = [d \in Clients |-> walk'[d]]
  BY <1>1, <1>2, <1>3, <1>4, <1>5, Received DEF IInv
<1>7. CacheOK'
  BY <1>5 DEF IInv, CacheOK, PageOK, Rank, Newer, HasOwnMoment
<1>8. FillsOK'
  <2> SUFFICES ASSUME NEW fill \in fills'
               PROVE  /\ PageOK(fill.key, fill.page)'
                      /\ fill.until = fill.page.readAt + FillTime
                      /\ now' <= fill.until
    BY DEF FillsOK
  <2>1. /\ PageOK(fill.key, fill.page)
        /\ fill.until = fill.page.readAt + FillTime
        /\ now <= fill.until
    <3>1. CASE fill \in fills
      BY <3>1 DEF IInv, FillsOK
    <3>2. CASE fill = [key |-> Key(u, limit, offset), page |-> page, until |-> now + FillTime]
      BY <1>3, <1>4, <3>2, TimesAssumption
    <3> QED
      BY <1>2, <3>1, <3>2
  <2>2. PageOK(fill.key, fill.page)'
    BY <1>4, <1>5, <2>1, PageKept
  <2> QED
    BY <1>5, <2>1, <2>2
<1> QED
  BY <1>5, <1>6, <1>7, <1>8 DEF IInv, TablesOK

LEMMA FillKeeps ==
    ASSUME IInv, NEW fill \in fills, Fill(fill)
    PROVE  IInv'
<1>1. fills' \subseteq fills /\ UNCHANGED <<now, saved, follows, walk>>
  BY DEF Fill
<1>2. now \in Nat
  BY DEF IInv, TablesOK
<1>3. TablesOK' /\ WalksOK'
  BY <1>1 DEF IInv, TablesOK, WalksOK, WalkOK
<1>4. FillsOK'
  BY <1>1, <1>2, PageKept DEF IInv, FillsOK
<1>5. CacheOK'
  <2> SUFFICES ASSUME NEW entry \in cache'
               PROVE  /\ PageOK(entry.key, entry.page)'
                      /\ entry.expires \in Nat /\ now < entry.expires
                      /\ entry.expires <= entry.page.readAt + FillTime + TTL
    BY <1>1 DEF CacheOK
  <2>1. \/ entry \in cache
        \/ entry = [key |-> fill.key, page |-> fill.page, expires |-> now + TTL]
    BY DEF Fill, Expiry
  <2>2. /\ PageOK(entry.key, entry.page)
        /\ entry.expires \in Nat /\ now < entry.expires
        /\ entry.expires <= entry.page.readAt + FillTime + TTL
    <3>1. CASE entry \in cache
      BY <3>1 DEF IInv, CacheOK
    <3>2. CASE entry = [key |-> fill.key, page |-> fill.page, expires |-> now + TTL]
      <4>1. /\ PageOK(fill.key, fill.page) /\ fill.page.readAt \in Nat
            /\ now <= fill.page.readAt + FillTime
        BY DEF IInv, FillsOK, PageOK
      <4> QED
        BY <1>2, <3>2, <4>1, TimesAssumption
    <3> QED
      BY <2>1, <3>1, <3>2
  <2> QED
    BY <1>1, <1>2, <2>2, PageKept
<1> QED
  BY <1>3, <1>4, <1>5 DEF IInv

\* Posts are saved and feeds followed, and nothing cached is touched.
LEMMA TablesGrow ==
    ASSUME IInv, follows \subseteq follows', UNCHANGED <<now, cache, fills, walk>>,
           saved' \subseteq Posts, IsFiniteSet(saved')
    PROVE  IInv'
<1>1. now \in Nat /\ now' = now
  BY DEF IInv, TablesOK
<1>2. TablesOK'
  BY DEF IInv, TablesOK
<1>3. CacheOK' /\ FillsOK'
  BY <1>1, PageKept DEF IInv, CacheOK, FillsOK
<1>4. WalksOK'
  <2> SUFFICES ASSUME NEW c \in Clients, NEW w, w = walk[c], w # NoWalk PROVE WalkOK(w)'
    BY DEF WalksOK, WalkOK
  <2> QED
    BY WalkKept DEF IInv, WalksOK
<1> QED
  BY <1>2, <1>3, <1>4 DEF IInv

LEMMA TickKeeps ==
    ASSUME IInv, Tick
    PROVE  IInv'
<1>1. /\ now \in Nat /\ now' = now + 1 /\ UNCHANGED <<saved, follows, fills, walk>>
      /\ \A fill \in fills : now < fill.until
      /\ cache' \subseteq cache /\ \A entry \in cache' : now' < entry.expires
  BY DEF IInv, TablesOK, Tick
<1>2. TablesOK' /\ WalksOK'
  BY <1>1 DEF IInv, TablesOK, WalksOK, WalkOK
<1>3. CacheOK'
  BY <1>1, PageKept DEF IInv, CacheOK
<1>4. FillsOK'
  <2>1. \A fill \in fills : fill.until \in Nat
    BY TimesAssumption DEF IInv, FillsOK, PageOK
  <2> QED
    BY <1>1, <2>1, PageKept DEF IInv, FillsOK
<1> QED
  BY <1>2, <1>3, <1>4 DEF IInv

LEMMA LeaveKeeps ==
    ASSUME IInv, NEW c \in Clients, Leave(c)
    PROVE  IInv'
<1>1. /\ walk' = [walk EXCEPT ![c] = NoWalk]
      /\ UNCHANGED <<now, saved, follows, cache, fills>>
  BY DEF Leave
<1>2. TablesOK' /\ CacheOK' /\ FillsOK'
  BY <1>1 DEF IInv, TablesOK, CacheOK, FillsOK, PageOK, Rank, Newer, HasOwnMoment
<1>3. WalksOK'
  BY <1>1 DEF IInv, TablesOK, WalksOK, WalkOK
<1> QED
  BY <1>2, <1>3 DEF IInv

LEMMA IInvInductive == IInv /\ [Next]_vars => IInv'
<1> SUFFICES ASSUME IInv, [Next]_vars PROVE IInv'
  OBVIOUS
<1>1. ASSUME NEW p \in Posts, SavePost(p) PROVE IInv'
  <2>1. saved' \subseteq Posts /\ IsFiniteSet(saved')
    BY <1>1, FS_AddElement DEF SavePost, IInv, TablesOK
  <2> QED
    BY <1>1, <2>1, TablesGrow DEF SavePost
<1>2. ASSUME NEW u \in Users, NEW f \in Feeds, FollowFeed(u, f) PROVE IInv'
  BY <1>2, TablesGrow DEF FollowFeed, IInv, TablesOK
<1>3. CASE UNCHANGED vars
  BY <1>3, TablesGrow DEF vars, IInv, TablesOK
<1> QED
  BY <1>1, <1>2, <1>3, HitKeeps, MissKeeps, LeaveKeeps, FillKeeps, TickKeeps DEF Next

LEMMA InvariantHolds == Spec => []IInv
<1> QED
  BY InitIInv, IInvInductive, PTL DEF Spec

-----------------------------------------------------------------------------
(* The theorems.                                                           *)

\* GetPostsForUser joins feed_follows and the cache key names the user: no page,
\* fresh or cached, shows a post of a feed the user does not follow.
THEOREM OwnPostsTheorem == Spec => []OwnPosts
<1>1. IInv => OwnPosts
  BY DEF IInv, WalksOK, WalkOK, OwnPosts, NoWalk
<1> QED
  BY <1>1, InvariantHolds, PTL

\* LIMIT and OFFSET over a list that only grows: a client that reads on to the
\* last page has seen every post that was there when it began, for every page
\* size and whatever is saved or followed meanwhile, as long as the cache takes
\* it no page back in time and posts do not share their date.
THEOREM WalkCompleteTheorem == Spec => []WalkComplete
<1>1. IInv => WalkComplete
  BY DEF IInv, WalksOK, WalkOK, WalkComplete
<1> QED
  BY <1>1, InvariantHolds, PTL

\* SetPost counts its minute from the end of the background write: a page is
\* never older than both together, for every time to live.
THEOREM StaleForAMinuteTheorem == Spec => []StaleForAMinute
<1>1. IInv => StaleForAMinute
  BY DEF IInv, WalksOK, WalkOK, StaleForAMinute
<1> QED
  BY <1>1, InvariantHolds, PTL

=============================================================================
