------------------------- MODULE FeedCatalogueProofs -------------------------
(***************************************************************************)
(* The walks of FeedCatalogue are ordered and complete, for every number   *)
(* of feeds and clients, all page sizes and any number of cache writes in  *)
(* flight.  A walk has shown exactly the known feeds up to its cursor, and *)
(* nothing beyond it: the next page begins where the last one ended,       *)
(* whatever was added meanwhile and wherever the first page came from.     *)
(***************************************************************************)
EXTENDS FeedCatalogue, FiniteSetTheorems, SequenceTheorems, TLAPS

-----------------------------------------------------------------------------
(* The inductive invariant.                                                *)

\* Feeds are only ever added, so every page read is a part of the table.
TablesOK ==
    /\ feeds \subseteq Ids /\ IsFiniteSet(feeds)
    /\ \A page \in cache \union fills : page \subseteq feeds
    /\ walk = [c \in Clients |-> walk[c]]

Ascending(s) == \A i, k \in DOMAIN s : i < k => s[i] < s[k]

WalkOK(w) ==
    /\ w.known \subseteq feeds
    /\ w.seen \in Seq(Ids) /\ Ascending(w.seen)
    /\ w.phase = "walking" =>
          /\ w.cursor \in Nat
          /\ \A x \in Range(w.seen) : x <= w.cursor
          /\ \A x \in w.known : x <= w.cursor => x \in Range(w.seen)
    /\ w.phase = "done" => w.known \subseteq Range(w.seen)

IInv == TablesOK /\ \A c \in Clients : WalkOK(walk[c])

-----------------------------------------------------------------------------
(* The pages.                                                              *)

\* The rows of a query are all feeds behind the cursor, in order.
LEMMA RowsInOrder ==
    ASSUME NEW S, S \subseteq Ids, IsFiniteSet(S), NEW s \in Orders(S)
    PROVE  /\ s \in Seq(S) /\ Ascending(s)
           /\ \A x \in S : \E i \in 1..Len(s) : s[i] = x
<1> DEFINE n == Cardinality(S)
<1>1. /\ n \in Nat
      /\ s \in [1..n -> S]
      /\ \A i, j \in 1..n : i # j => s[i] # s[j]
      /\ Ascending(s)
  BY FS_CardinalityType DEF Orders, SetToSeqs, Ascending
<1>2. s \in Injection(1..n, S)
  BY <1>1 DEF Injection, IsInjective
<1>3. IsFiniteSet(1..n) /\ Cardinality(1..n) = n
  BY <1>1, FS_Interval
<1>4. s \in Surjection(1..n, S)
  BY <1>2, <1>3, FS_Injection
<1>5. s \in Seq(S) /\ Len(s) = n
  BY <1>1, SeqDef
<1> QED
  BY <1>1, <1>4, <1>5 DEF Surjection

\* LIMIT and rows[:n] keep a beginning of the rows.
LEMMA FirstRowsOf ==
    ASSUME NEW S, NEW s \in Seq(S), NEW n \in Nat, NEW r, r = FirstRows(s, n)
    PROVE  /\ r \in Seq(S)
           /\ Len(r) = IF Len(s) > n THEN n ELSE Len(s)
           /\ \A i \in 1..Len(r) : r[i] = s[i]
<1>1. CASE Len(s) > n
  <2>1. r = SubSeq(s, 1, n) /\ Len(s) \in Nat
    BY <1>1, LenProperties DEF FirstRows
  <2>2. \A i \in 1..n : s[i] \in S
    BY <1>1, <2>1, ElementOfSeq
  <2>3. r = [i \in 1..n |-> s[i]]
    BY <1>1, <2>1, <2>2
  <2> QED
    BY <1>1, <2>2, <2>3, SeqDef
<1>2. CASE ~(Len(s) > n)
  BY <1>2 DEF FirstRows
<1> QED
  BY <1>1, <1>2

\* A page goes on behind "after"; with a cursor it ends there and leaves out no
\* feed before, without one it leaves out none at all.
LEMMA PageIsCut ==
    ASSUME NEW S, S \subseteq Ids, IsFiniteSet(S), NEW after \in Nat,
           NEW limit \in Limits, NEW rows \in GetFeedsPage(S, after, limit),
           NEW shown, shown = FirstRows(rows, limit)
    PROVE  /\ shown \in Seq(Ids) /\ Ascending(shown)
           /\ \A x \in Range(shown) : x > after
           /\ Len(rows) > limit =>
                 /\ rows[limit] \in Range(shown)
                 /\ \A x \in Range(shown) : x <= rows[limit]
                 /\ \A x \in Behind(S, after) : x <= rows[limit] => x \in Range(shown)
           /\ ~(Len(rows) > limit) => Behind(S, after) \subseteq Range(shown)
<1> DEFINE B == Behind(S, after)
<1>1. B \subseteq S /\ IsFiniteSet(B) /\ \A x \in B : x > after
  BY FS_Subset DEF Behind
<1>2. /\ limit \in Nat /\ limit # 0 /\ limit + 1 \in Nat
      /\ B \subseteq Ids /\ \A x \in B : x \in Nat
  <2>1. limit \in Nat \ {0}
    BY LimitsAssumption
  <2>2. limit \in Nat /\ limit # 0
    BY <2>1
  <2>3. limit + 1 \in Nat
    BY <2>2
  <2>4. B \subseteq Ids
    BY <1>1
  <2>5. \A x \in Ids : x \in Nat
    BY IdsAssumption
  <2> QED
    BY <2>2, <2>3, <2>4, <2>5
<1>3. PICK s \in Orders(B) : rows = FirstRows(s, limit + 1)
  BY DEF GetFeedsPage
<1> HIDE DEF B
<1>4. /\ s \in Seq(B) /\ Ascending(s) /\ Len(s) \in Nat
      /\ \A x \in B : \E i \in 1..Len(s) : s[i] = x
  BY <1>1, <1>3, RowsInOrder, LenProperties
<1>5. /\ rows \in Seq(B)
      /\ Len(rows) = IF Len(s) > limit + 1 THEN limit + 1 ELSE Len(s)
      /\ \A i \in 1..Len(rows) : rows[i] = s[i]
  <2> DEFINE m == limit + 1
  <2>1. m \in Nat /\ rows = FirstRows(s, m)
    BY <1>2, <1>3
  <2> HIDE DEF m
  <2>2. /\ rows \in Seq(B)
        /\ Len(rows) = IF Len(s) > m THEN m ELSE Len(s)
        /\ \A i \in 1..Len(rows) : rows[i] = s[i]
    BY <1>4, <2>1, FirstRowsOf
  <2> QED
    BY <2>2 DEF m
<1>6. /\ shown \in Seq(B)
      /\ Len(shown) = IF Len(rows) > limit THEN limit ELSE Len(rows)
      /\ \A i \in 1..Len(shown) : shown[i] = rows[i]
  BY <1>2, <1>5, FirstRowsOf
<1>7. /\ Len(shown) \in Nat /\ Len(rows) \in Nat
      /\ Len(shown) = IF Len(s) > limit THEN limit ELSE Len(s)
      /\ \A i \in 1..Len(shown) : shown[i] = s[i] /\ shown[i] \in B
      /\ DOMAIN shown = 1..Len(shown) /\ DOMAIN s = 1..Len(s)
      /\ Len(rows) > limit <=> Len(s) > limit
  <2>1. \A i \in 1..Len(shown) : shown[i] \in B
    BY <1>6, ElementOfSeq
  <2>2. /\ Len(shown) \in Nat /\ Len(rows) \in Nat
        /\ DOMAIN shown = 1..Len(shown) /\ DOMAIN s = 1..Len(s)
    BY <1>4, <1>5, <1>6, LenProperties
  <2>3. /\ Len(shown) = IF Len(s) > limit THEN limit ELSE Len(s)
        /\ Len(rows) > limit <=> Len(s) > limit
        /\ Len(shown) <= Len(rows)
    <3>1. /\ limit \in Nat /\ Len(s) \in Nat
          /\ Len(shown) \in Nat /\ Len(rows) \in Nat
      BY <1>2, <1>4, <2>2
    <3>2. /\ Len(rows) = IF Len(s) > limit + 1 THEN limit + 1 ELSE Len(s)
          /\ Len(shown) = IF Len(rows) > limit THEN limit ELSE Len(rows)
      BY <1>5, <1>6
    <3>3. Len(shown) = IF Len(s) > limit THEN limit ELSE Len(s)
      BY <3>1, <3>2
    <3>4. Len(rows) > limit <=> Len(s) > limit
      BY <3>1, <3>2
    <3>5. Len(shown) <= Len(rows)
      BY <3>1, <3>2
    <3> QED
      BY <3>3, <3>4, <3>5
  <2>4. \A i \in 1..Len(shown) : shown[i] = s[i]
    BY <1>5, <1>6, <2>2, <2>3
  <2> QED
    BY <2>1, <2>2, <2>3, <2>4
<1>8. Range(shown) = {shown[i] : i \in 1..Len(shown)}
  BY <1>7 DEF Range
<1>9. Ascending(shown)
  BY <1>2, <1>4, <1>7 DEF Ascending
<1>10. shown \in Seq(Ids)
  BY <1>2, <1>6
<1>11. ASSUME Len(rows) > limit
       PROVE  /\ rows[limit] \in Range(shown)
              /\ \A x \in Range(shown) : x <= rows[limit]
              /\ \A x \in B : x <= rows[limit] => x \in Range(shown)
  <2>1. rows[limit] = s[limit] /\ Len(shown) = limit /\ limit \in 1..Len(shown)
        /\ limit \in 1..Len(s)
    <3>1. limit \in Nat /\ limit # 0 /\ Len(s) > limit /\ Len(s) \in Nat
      BY <1>2, <1>4, <1>7, <1>11
    <3>2. Len(shown) = limit /\ limit \in 1..Len(s)
      BY <1>7, <3>1
    <3>3. limit \in 1..Len(rows)
      BY <1>7, <1>11, <3>1
    <3> QED
      BY <1>5, <3>1, <3>2, <3>3
  <2>2. s[limit] \in B /\ s[limit] \in Nat
    BY <1>2, <1>7, <2>1
  <2>3. ASSUME NEW i \in 1..Len(shown) PROVE shown[i] <= s[limit]
    <3>1. i = limit \/ i < limit
      BY <1>2, <1>7, <2>1
    <3>2. i \in DOMAIN s /\ limit \in DOMAIN s
      BY <1>2, <1>4, <1>7, <2>1
    <3>3. i = limit \/ s[i] < s[limit]
      BY <1>4, <3>1, <3>2 DEF Ascending
    <3> QED
      BY <1>2, <1>7, <2>2, <3>3
  <2>4. ASSUME NEW x \in B, x <= s[limit] PROVE x \in Range(shown)
    <3>1. PICK i \in 1..Len(s) : s[i] = x
      BY <1>4
    <3>2. ~(limit < i)
      <4>1. limit < i => s[limit] < x
        BY <1>4, <1>7, <2>1, <3>1 DEF Ascending
      <4>2. x \in Nat
        BY <1>2
      <4> QED
        BY <2>2, <2>4, <4>1, <4>2
    <3>3. i \in 1..Len(shown)
      BY <1>2, <1>4, <2>1, <3>2
    <3> QED
      BY <1>7, <1>8, <3>1, <3>3
  <2>5. s[limit] \in Range(shown)
    BY <1>7, <1>8, <2>1
  <2> QED
    BY <1>8, <2>1, <2>3, <2>4, <2>5
<1>12. ASSUME ~(Len(rows) > limit), NEW x \in B PROVE x \in Range(shown)
  BY <1>4, <1>7, <1>8, <1>12
<1> QED
  BY <1>1, <1>7, <1>8, <1>9, <1>10, <1>11, <1>12 DEF B

\* Rows that come behind everything shown before keep the order.
LEMMA Appended ==
    ASSUME NEW s \in Seq(Ids), NEW t \in Seq(Ids), Ascending(s), Ascending(t),
           \A x \in Range(s) : \A y \in Range(t) : x < y
    PROVE  /\ s \o t \in Seq(Ids) /\ Ascending(s \o t)
           /\ Range(s \o t) = Range(s) \union Range(t)
<1> DEFINE u == s \o t
<1>1. /\ Len(s) \in Nat /\ DOMAIN s = 1..Len(s)
      /\ Len(t) \in Nat /\ DOMAIN t = 1..Len(t)
  BY LenProperties
<1>2. /\ u \in Seq(Ids) /\ Len(u) = Len(s) + Len(t) /\ DOMAIN u = 1..Len(u)
      /\ \A i \in 1..Len(u) : u[i] = IF i <= Len(s) THEN s[i] ELSE t[i - Len(s)]
  BY ConcatProperties, LenProperties
<1> HIDE DEF u
<1>3. \A i \in 1..Len(s) : i \in 1..Len(u) /\ u[i] = s[i]
  BY <1>1, <1>2
<1>4. \A i \in 1..Len(t) : i + Len(s) \in 1..Len(u) /\ u[i + Len(s)] = t[i]
  BY <1>1, <1>2
<1>5. \A i \in 1..Len(u) : i \in 1..Len(s) \/ i - Len(s) \in 1..Len(t)
  BY <1>1, <1>2
<1>6. Range(u) = Range(s) \union Range(t)
  <2>1. Range(u) \subseteq Range(s) \union Range(t)
    BY <1>1, <1>2, <1>5 DEF Range
  <2>2. Range(s) \subseteq Range(u)
    BY <1>1, <1>2, <1>3 DEF Range
  <2>3. Range(t) \subseteq Range(u)
    BY <1>1, <1>2, <1>4 DEF Range
  <2> QED
    BY <2>1, <2>2, <2>3
<1>7. ASSUME NEW i \in 1..Len(u), NEW k \in 1..Len(u), i < k PROVE u[i] < u[k]
  <2>1. CASE k <= Len(s)
    BY <1>1, <1>2, <1>7, <2>1 DEF Ascending
  <2>2. CASE i <= Len(s) /\ ~(k <= Len(s))
    <3>1. u[i] = s[i] /\ i \in DOMAIN s /\ u[k] = t[k - Len(s)] /\ k - Len(s) \in DOMAIN t
      BY <1>1, <1>2, <2>2
    <3> QED
      BY <3>1 DEF Range
  <2>3. CASE ~(i <= Len(s))
    <3>1. /\ u[i] = t[i - Len(s)] /\ i - Len(s) \in DOMAIN t
          /\ u[k] = t[k - Len(s)] /\ k - Len(s) \in DOMAIN t
          /\ i - Len(s) < k - Len(s)
      BY <1>1, <1>2, <1>7, <2>3
    <3> QED
      BY <3>1 DEF Ascending
  <2> QED
    BY <2>1, <2>2, <2>3
<1> QED
  BY <1>2, <1>6, <1>7 DEF Ascending, u

-----------------------------------------------------------------------------
(* The steps.                                                              *)

\* A page that goes on where the walk stood keeps what is said of the walk.
LEMMA Received ==
    ASSUME TablesOK, NEW c \in Clients, NEW S, S \subseteq feeds,
           NEW after \in Nat, NEW limit \in Limits,
           NEW rows \in GetFeedsPage(S, after, limit),
           NEW before \in Seq(Ids), Ascending(before),
           \A x \in Range(before) : x <= after,
           NEW known, known \subseteq S,
           \A x \in known : x <= after => x \in Range(before),
           NEW promised, Receive(c, rows, limit, before, known, promised),
           feeds' = feeds
    PROVE  /\ walk' = [x \in Clients |-> walk'[x]]
           /\ WalkOK(walk[c])'
           /\ \A x \in Clients \ {c} : walk'[x] = walk[x]
<1> DEFINE shown == FirstRows(rows, limit)
           w == walk'[c]
<1>1. /\ walk' = [x \in Clients |-> walk'[x]]
      /\ \A x \in Clients \ {c} : walk'[x] = walk[x]
      /\ w = [phase |-> IF Len(rows) > limit THEN "walking" ELSE "done",
              cursor |-> IF Len(rows) > limit THEN rows[limit] ELSE Start,
              seen |-> before \o shown, known |-> known, promised |-> promised]
  BY DEF TablesOK, Receive, Cursor
<1>2. S \subseteq Ids /\ IsFiniteSet(S) /\ \A x \in S : x \in Nat
  BY FS_Subset, IdsAssumption DEF TablesOK
<1>3. /\ shown \in Seq(Ids) /\ Ascending(shown)
      /\ \A x \in Range(shown) : x > after
      /\ Len(rows) > limit =>
            /\ rows[limit] \in Range(shown)
            /\ \A x \in Range(shown) : x <= rows[limit]
            /\ \A x \in Behind(S, after) : x <= rows[limit] => x \in Range(shown)
      /\ ~(Len(rows) > limit) => Behind(S, after) \subseteq Range(shown)
  BY <1>2, PageIsCut
<1>4. /\ \A x \in Range(before) : x \in Nat
      /\ \A x \in Range(shown) : x \in Nat
  <2>1. \A x \in Range(before) : x \in Ids
    BY ElementOfSeq, LenProperties DEF Range
  <2>2. \A x \in Range(shown) : x \in Ids
    BY <1>3, ElementOfSeq, LenProperties DEF Range
  <2> QED
    BY <2>1, <2>2, IdsAssumption
<1> HIDE DEF shown, w
<1>5. /\ before \o shown \in Seq(Ids) /\ Ascending(before \o shown)
      /\ Range(before \o shown) = Range(before) \union Range(shown)
  <2>1. \A x \in Range(before) : \A y \in Range(shown) : x < y
    BY <1>3, <1>4
  <2> QED
    BY <1>3, <2>1, Appended
<1>6. /\ w.phase = "walking" <=> Len(rows) > limit
      /\ w.phase = "done" <=> ~(Len(rows) > limit)
      /\ w.seen = before \o shown /\ w.known = known
      /\ Len(rows) > limit => w.cursor = rows[limit]
  BY <1>1
<1>7. ASSUME NEW x \in known PROVE x \in Range(before) \/ x \in Behind(S, after)
  BY <1>2 DEF Behind
<1>8. ASSUME Len(rows) > limit, NEW x \in Range(before) PROVE x <= rows[limit]
  BY <1>3, <1>4, <1>8
<1>9. WalkOK(walk[c])'
  <2>1. w.phase = "walking" =>
          /\ w.cursor \in Nat
          /\ \A x \in Range(w.seen) : x <= w.cursor
          /\ \A x \in w.known : x <= w.cursor => x \in Range(w.seen)
    BY <1>3, <1>4, <1>5, <1>6, <1>7, <1>8
  <2>2. w.phase = "done" => w.known \subseteq Range(w.seen)
    BY <1>3, <1>5, <1>6, <1>7
  <2>3. w.known \subseteq feeds /\ w.seen \in Seq(Ids) /\ Ascending(w.seen)
    BY <1>5, <1>6
  <2> QED
    BY <2>1, <2>2, <2>3 DEF WalkOK, w
<1> QED
  BY <1>1, <1>9 DEF w, WalkOK

\* A walk that is left alone stays right while the table grows.
LEMMA WalkKept ==
    ASSUME NEW c \in Clients, WalkOK(walk[c]), walk'[c] = walk[c], feeds \subseteq feeds'
    PROVE  WalkOK(walk[c])'
BY DEF WalkOK

LEMMA InitIInv == Init => IInv
<1> SUFFICES ASSUME Init PROVE IInv
  OBVIOUS
<1>1. TablesOK
  BY FS_EmptySet DEF Init, TablesOK
<1>2. ASSUME NEW c \in Clients PROVE WalkOK(walk[c])
  <2>1. walk[c].phase = "idle" /\ walk[c].seen = <<>> /\ walk[c].known = {}
    BY DEF Init
  <2> QED
    BY <2>1 DEF WalkOK, Ascending
<1> QED
  BY <1>1, <1>2 DEF IInv

\* The three ways to a page.
LEMMA FirstPageKeeps ==
    ASSUME IInv, NEW c \in Clients, NEW S, S \subseteq feeds, NEW limit \in Limits,
           NEW rows \in GetFeedsPage(S, Start, limit), NEW promised,
           Receive(c, rows, limit, <<>>, S, promised),
           feeds' = feeds, cache' = cache,
           \A page \in fills' : page \subseteq feeds
    PROVE  IInv'
<1>1. TablesOK /\ \A x \in Clients : WalkOK(walk[x])
  BY DEF IInv
<1>2. /\ Start \in Nat /\ <<>> \in Seq(Ids) /\ Ascending(<<>>) /\ Range(<<>>) = {}
      /\ \A x \in S : ~(x <= Start)
  BY <1>1, IdsAssumption DEF Start, Ascending, Range, TablesOK
<1>3. /\ walk' = [x \in Clients |-> walk'[x]]
      /\ WalkOK(walk[c])'
      /\ \A x \in Clients \ {c} : walk'[x] = walk[x]
  BY <1>1, <1>2, Received
<1>4. TablesOK'
  BY <1>1, <1>3 DEF TablesOK
<1>5. ASSUME NEW x \in Clients PROVE WalkOK(walk[x])'
  <2>1. x # c => WalkOK(walk[x])'
    BY <1>1, <1>3, WalkKept
  <2> QED
    BY <1>3, <2>1
<1> QED
  BY <1>4, <1>5 DEF IInv

LEMMA FirstPageHitKeeps ==
    ASSUME IInv, NEW c \in Clients, FirstPageHit(c)
    PROVE  IInv'
<1>1. PICK page \in cache : \E rows \in GetFeedsPage(page, Start, DefaultLimit) :
          Receive(c, rows, DefaultLimit, <<>>, page, announced)
  BY DEF FirstPageHit
<1>2. PICK rows \in GetFeedsPage(page, Start, DefaultLimit) :
          Receive(c, rows, DefaultLimit, <<>>, page, announced)
  BY <1>1
<1>3. /\ page \subseteq feeds /\ DefaultLimit \in Limits
      /\ \A f \in fills' : f \subseteq feeds
      /\ feeds' = feeds /\ cache' = cache
  BY LimitsAssumption DEF FirstPageHit, IInv, TablesOK
<1> QED
  BY <1>2, <1>3, FirstPageKeeps

LEMMA FirstPageReadKeeps ==
    ASSUME IInv, NEW c \in Clients, NEW limit \in Limits, FirstPageRead(c, limit)
    PROVE  IInv'
<1>1. PICK rows \in GetFeedsPage(feeds, Start, limit) :
          Receive(c, rows, limit, <<>>, feeds, announced)
  BY DEF FirstPageRead
<1>2. fills' \subseteq fills \union {feeds} /\ feeds' = feeds /\ cache' = cache
  BY DEF FirstPageRead
<1>3. \A f \in fills' : f \subseteq feeds
  BY <1>2 DEF IInv, TablesOK
<1> QED
  BY <1>1, <1>2, <1>3, FirstPageKeeps

LEMMA NextPageKeeps ==
    ASSUME IInv, NEW c \in Clients, NEW limit \in Limits, NextPage(c, limit)
    PROVE  IInv'
<1> DEFINE w == walk[c]
<1>1. TablesOK /\ WalkOK(w) /\ \A x \in Clients : WalkOK(walk[x])
  BY DEF IInv
<1>2. PICK rows \in GetFeedsPage(feeds, w.cursor, limit) :
          Receive(c, rows, limit, w.seen, w.known, w.promised)
  BY DEF NextPage
<1>3. w.phase = "walking" /\ UNCHANGED <<feeds, cache, fills>>
  BY DEF NextPage
<1>4. /\ w.cursor \in Nat /\ w.seen \in Seq(Ids) /\ Ascending(w.seen)
      /\ \A x \in Range(w.seen) : x <= w.cursor
      /\ w.known \subseteq feeds
      /\ \A x \in w.known : x <= w.cursor => x \in Range(w.seen)
  BY <1>1, <1>3 DEF WalkOK
<1>5. /\ walk' = [x \in Clients |-> walk'[x]]
      /\ WalkOK(walk[c])'
      /\ \A x \in Clients \ {c} : walk'[x] = walk[x]
  <2> HIDE DEF w
  <2> QED
    BY <1>1, <1>2, <1>3, <1>4, Received
<1>6. TablesOK'
  BY <1>1, <1>3, <1>5 DEF TablesOK
<1>7. ASSUME NEW x \in Clients PROVE WalkOK(walk[x])'
  <2>1. x # c => WalkOK(walk[x])'
    BY <1>1, <1>3, <1>5, WalkKept
  <2> QED
    BY <1>5, <2>1
<1> QED
  BY <1>6, <1>7 DEF IInv

LEMMA LeaveKeeps ==
    ASSUME IInv, NEW c \in Clients, Leave(c)
    PROVE  IInv'
<1>1. /\ TablesOK /\ \A x \in Clients : WalkOK(walk[x])
      /\ walk' = [walk EXCEPT ![c].phase = "idle"]
      /\ UNCHANGED <<feeds, cache, fills>>
  BY DEF IInv, Leave
<1>2. TablesOK'
  BY <1>1 DEF TablesOK
<1>3. ASSUME NEW x \in Clients PROVE WalkOK(walk[x])'
  <2>1. CASE x = c
    <3>1. walk'[c] = [walk[c] EXCEPT !.phase = "idle"]
      BY <1>1 DEF TablesOK
    <3>2. /\ walk'[c].known = walk[c].known /\ walk'[c].seen = walk[c].seen
          /\ walk'[c].phase # "walking" /\ walk'[c].phase # "done"
      BY <3>1, <1>1
    <3> QED
      BY <1>1, <2>1, <3>2 DEF WalkOK
  <2>2. CASE x # c
    <3>1. walk'[x] = walk[x]
      BY <1>1, <2>2 DEF TablesOK
    <3> QED
      BY <1>1, <3>1, WalkKept
  <2> QED
    BY <2>1, <2>2
<1> QED
  BY <1>2, <1>3 DEF IInv

\* What happens to the table and to Redis disturbs no walk.
LEMMA WorldKeeps ==
    ASSUME IInv, walk' = walk, feeds \subseteq feeds', feeds' \subseteq Ids,
           IsFiniteSet(feeds'), \A page \in cache' \union fills' : page \subseteq feeds
    PROVE  IInv'
<1>1. TablesOK /\ \A x \in Clients : WalkOK(walk[x])
  BY DEF IInv
<1>2. TablesOK'
  BY <1>1 DEF TablesOK
<1>3. \A x \in Clients : WalkOK(walk[x])'
  BY <1>1, WalkKept
<1> QED
  BY <1>2, <1>3 DEF IInv

LEMMA IInvInductive == IInv /\ [Next]_vars => IInv'
<1> SUFFICES ASSUME IInv, [Next]_vars PROVE IInv'
  OBVIOUS
<1>1. /\ feeds \subseteq Ids /\ IsFiniteSet(feeds)
      /\ \A page \in cache \union fills : page \subseteq feeds
  BY DEF IInv, TablesOK
<1>2. ASSUME NEW c \in Clients, FirstPageHit(c) PROVE IInv'
  BY <1>2, FirstPageHitKeeps
<1>3. ASSUME NEW c \in Clients, Leave(c) PROVE IInv'
  BY <1>3, LeaveKeeps
<1>4. ASSUME NEW c \in Clients, NEW limit \in Limits, FirstPageRead(c, limit) PROVE IInv'
  BY <1>4, FirstPageReadKeeps
<1>5. ASSUME NEW c \in Clients, NEW limit \in Limits, NextPage(c, limit) PROVE IInv'
  BY <1>5, NextPageKeeps
<1>6. ASSUME NEW page \in fills, Fill(page) PROVE IInv'
  BY <1>1, <1>6, WorldKeeps DEF Fill
<1>7. CASE Expire
  BY <1>1, <1>7, WorldKeeps DEF Expire
<1>8. ASSUME NEW id \in Ids, AddFeed(id) PROVE IInv'
  <2>1. IsFiniteSet(feeds \union {id})
    BY <1>1, FS_AddElement
  <2> QED
    BY <1>1, <1>8, <2>1, WorldKeeps DEF AddFeed
<1>9. ASSUME NEW id \in Ids, Answer(id) PROVE IInv'
  BY <1>1, <1>9, WorldKeeps DEF Answer
<1>10. CASE UNCHANGED vars
  BY <1>1, <1>10, WorldKeeps DEF vars
<1> QED
  BY <1>2, <1>3, <1>4, <1>5, <1>6, <1>7, <1>8, <1>9, <1>10 DEF Next

LEMMA InvariantHolds == Spec => []IInv
BY InitIInv, IInvInductive, PTL DEF Spec

-----------------------------------------------------------------------------
(* The theorems.                                                           *)

\* A client that follows the cursors is shown every feed at most once and in
\* the order of the ids (GetAllFeeds, writeFeedsPage).
THEOREM WalkOrderedTheorem == Spec => []WalkOrdered
<1>1. IInv => WalkOrdered
  BY DEF IInv, WalkOK, Ascending, WalkOrdered
<1> QED
  BY <1>1, InvariantHolds, PTL

\* A client that has come to the page without X-Next-Cursor has been shown all
\* feeds of the list its first page was cut from.
THEOREM WalkCompleteTheorem == Spec => []WalkComplete
<1>1. IInv => WalkComplete
  BY DEF IInv, WalkOK, WalkComplete
<1> QED
  BY <1>1, InvariantHolds, PTL

=============================================================================
