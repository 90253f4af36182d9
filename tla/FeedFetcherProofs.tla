-------------------------- MODULE FeedFetcherProofs --------------------------
(***************************************************************************)
(* The RSS worker, for every set of feeds and documents and every size of  *)
(* the batches: what the order of the table says of the feeds that have    *)
(* overtaken others.                                                       *)
(***************************************************************************)
EXTENDS FeedFetcher, FiniteSetTheorems, SequenceTheorems, TLAPS

-----------------------------------------------------------------------------
(* The inductive invariant.                                                *)

\* What a goroutine has gone past is stored, or of no use.
ItemsOK ==
    \A f \in Feeds : job[f].phase = "items" =>
        \A i \in DOMAIN job[f].doc : i < job[f].next =>
            job[f].doc[i] \in posts \union {Invalid}

Before(s, x, y) == \A i, k \in DOMAIN s : s[i] = x /\ s[k] = y => i < k

\* A feed that has overtaken another one stands behind it, and so it is in no
\* later batch without it; in the batch in which it overtook it is marked.
PassedOK ==
    \A f, g \in Feeds : <<f, g>> \in passed =>
        /\ f \in Known /\ g \in Known
        /\ g \notin batch
        /\ f \in batch => f \in marked
        /\ Before(queue, g, f)

IInv == TypeOK /\ ItemsOK /\ PassedOK

-----------------------------------------------------------------------------
(* Sequences: one element more or less.                                    *)

LEMMA Inserted ==
    ASSUME NEW S, NEW s \in Seq(S), NEW e \in S, NEW i \in 1..(Len(s) + 1),
           NEW w, w = InsertAt(s, i, e)
    PROVE  /\ w \in Seq(S) /\ Len(w) = Len(s) + 1
           /\ \A k \in 1..(Len(s) + 1) :
                 w[k] = IF k < i THEN s[k] ELSE IF k = i THEN e ELSE s[k - 1]
<1> DEFINE u == SubSeq(s, 1, i - 1)
           v == SubSeq(s, i, Len(s))
           n == Len(s)
           m == u \o <<e>>
<1>0. n \in Nat /\ i \in Nat /\ 1 <= i /\ i <= n + 1
  OBVIOUS
<1>1. u \in Seq(S) /\ Len(u) = i - 1 /\ \A k \in 1..(i - 1) : u[k] = s[k]
  OBVIOUS
<1>2. v \in Seq(S) /\ Len(v) = n - (i - 1) /\ \A k \in 1..(n - (i - 1)) : v[k] = s[k + (i - 1)]
  OBVIOUS
<1>3. w = m \o v
  BY DEF InsertAt
<1>4. <<e>> \in Seq(S) /\ Len(<<e>>) = 1 /\ <<e>>[1] = e
  OBVIOUS
<1> HIDE DEF u, v
<1>5. /\ m \in Seq(S) /\ Len(m) = i
      /\ \A k \in 1..i : m[k] = IF k < i THEN s[k] ELSE e
  <2>1. /\ m \in Seq(S) /\ Len(m) = Len(u) + 1
        /\ \A k \in 1..(Len(u) + 1) :
              m[k] = IF k <= Len(u) THEN u[k] ELSE <<e>>[k - Len(u)]
    BY <1>1, <1>4, ConcatProperties
  <2> HIDE DEF m
  <2>2. ASSUME NEW k \in 1..i PROVE m[k] = IF k < i THEN s[k] ELSE e
    <3>1. CASE k < i
      BY <1>0, <1>1, <2>1, <3>1
    <3>2. CASE k = i
      BY <1>0, <1>1, <1>4, <2>1, <3>2
    <3> QED
      BY <1>0, <3>1, <3>2
  <2> QED
    BY <1>0, <1>1, <2>1, <2>2
<1>9. m \in Seq(S) /\ v \in Seq(S)
  BY <1>2, <1>5
<1> HIDE DEF m
<1>6. /\ w \in Seq(S) /\ Len(w) = Len(m) + Len(v)
      /\ \A k \in 1..(Len(m) + Len(v)) :
            w[k] = IF k <= Len(m) THEN m[k] ELSE v[k - Len(m)]
  BY <1>3, <1>9, ConcatProperties
<1>7. Len(w) = n + 1
  BY <1>0, <1>2, <1>5, <1>6
<1>8. ASSUME NEW k \in 1..(n + 1)
      PROVE  w[k] = IF k < i THEN s[k] ELSE IF k = i THEN e ELSE s[k - 1]
  <2>0. k \in 1..(Len(m) + Len(v))
    BY <1>0, <1>2, <1>5
  <2>1. CASE k <= i
    BY <1>0, <1>5, <1>6, <2>0, <2>1
  <2>2. CASE i < k
    <3> DEFINE j == k - i
    <3>1. j \in 1..(n - (i - 1)) /\ j + (i - 1) = k - 1
      BY <1>0, <2>2
    <3>2. ~(k <= Len(m)) /\ k - Len(m) = j
      BY <1>0, <1>5, <2>2
    <3> HIDE DEF j
    <3>3. w[k] = v[j]
      BY <1>6, <2>0, <3>2
    <3>4. v[j] = s[k - 1]
      BY <1>2, <3>1
    <3> QED
      BY <1>0, <2>2, <3>3, <3>4
  <2> QED
    BY <1>0, <2>1, <2>2
<1> QED
  BY <1>6, <1>7, <1>8

LEMMA Removed ==
    ASSUME NEW S, NEW s \in Seq(S), NEW p \in DOMAIN s,
           NEW w, w = RemoveAt(s, p)
    PROVE  /\ w \in Seq(S) /\ Len(w) = Len(s) - 1
           /\ \A k \in 1..(Len(s) - 1) : w[k] = IF k < p THEN s[k] ELSE s[k + 1]
<1> DEFINE u == SubSeq(s, 1, p - 1)
           v == SubSeq(s, p + 1, Len(s))
           n == Len(s)
<1>0. n \in Nat /\ p \in Nat /\ 1 <= p /\ p <= n
  OBVIOUS
<1>1. u \in Seq(S) /\ Len(u) = p - 1 /\ \A k \in 1..(p - 1) : u[k] = s[k]
  OBVIOUS
<1>2. v \in Seq(S) /\ Len(v) = n - p /\ \A k \in 1..(n - p) : v[k] = s[p + k]
  OBVIOUS
<1>3. w = u \o v
  BY DEF RemoveAt
<1> HIDE DEF u, v
<1>4. /\ w \in Seq(S) /\ Len(w) = Len(u) + Len(v)
      /\ \A k \in 1..(Len(u) + Len(v)) :
            w[k] = IF k <= Len(u) THEN u[k] ELSE v[k - Len(u)]
  <2>1. u \in Seq(S) /\ v \in Seq(S)
    BY <1>1, <1>2
  <2> QED
    BY <1>3, <2>1, ConcatProperties
<1>5. Len(w) = n - 1
  BY <1>0, <1>1, <1>2, <1>4
<1>6. ASSUME NEW k \in 1..(n - 1)
      PROVE  w[k] = IF k < p THEN s[k] ELSE s[k + 1]
  <2>0. k \in 1..(Len(u) + Len(v))
    BY <1>0, <1>1, <1>2
  <2>1. CASE k < p
    BY <1>0, <1>1, <1>4, <2>0, <2>1
  <2>2. CASE ~(k < p)
    <3> DEFINE j == k - (p - 1)
    <3>1. j \in 1..(n - p) /\ p + j = k + 1
      BY <1>0, <2>2
    <3>2. ~(k <= Len(u)) /\ k - Len(u) = j
      BY <1>0, <1>1, <2>2
    <3> HIDE DEF j
    <3>3. w[k] = v[j]
      BY <1>4, <2>0, <3>2
    <3> QED
      BY <1>2, <2>2, <3>1, <3>3
  <2> QED
    BY <2>1, <2>2
<1> QED
  BY <1>4, <1>5, <1>6

\* What the order of the table is: no feed twice.
Distinct(s) == \A i, k \in DOMAIN s : i < k => s[i] # s[k]

\* An element put into a sequence leaves the order of the others as it is; it
\* stands behind those in front of its place and before the others.
LEMMA InsertedOrder ==
    ASSUME NEW S, NEW s \in Seq(S), Distinct(s), NEW e \in S, e \notin Range(s),
           NEW i \in 1..(Len(s) + 1),
           NEW w, w = InsertAt(s, i, e)
    PROVE  /\ w \in Seq(S) /\ Distinct(w) /\ Range(w) = Range(s) \union {e}
           /\ \A x, y \in Range(s) : Before(w, x, y) <=> Before(s, x, y)
           /\ \A k \in DOMAIN s : IF k < i THEN Before(w, s[k], e) ELSE Before(w, e, s[k])
<1> DEFINE n == Len(s)
           Up(k) == IF k < i THEN k ELSE k + 1
<1>0. n \in Nat /\ i \in Nat /\ 1 <= i /\ i <= n + 1 /\ DOMAIN s = 1..n
  OBVIOUS
<1>1. /\ w \in Seq(S) /\ Len(w) = n + 1 /\ DOMAIN w = 1..(n + 1)
      /\ \A k \in 1..(n + 1) :
            w[k] = IF k < i THEN s[k] ELSE IF k = i THEN e ELSE s[k - 1]
  <2>1. /\ w \in Seq(S) /\ Len(w) = n + 1
        /\ \A k \in 1..(n + 1) :
              w[k] = IF k < i THEN s[k] ELSE IF k = i THEN e ELSE s[k - 1]
    BY Inserted
  <2> HIDE DEF n
  <2> QED
    BY <2>1
<1> HIDE DEF n
<1>2. /\ \A k \in 1..n : Up(k) \in 1..(n + 1) /\ w[Up(k)] = s[k] /\ Up(k) # i
      /\ w[i] = e
      /\ \A j \in 1..(n + 1) : j = i \/ \E k \in 1..n : j = Up(k)
      /\ \A k, l \in 1..n : k < l <=> Up(k) < Up(l)
  <2>1. ASSUME NEW k \in 1..n PROVE Up(k) \in 1..(n + 1) /\ w[Up(k)] = s[k] /\ Up(k) # i
    BY <1>0, <1>1
  <2>2. w[i] = e
    BY <1>0, <1>1
  <2>3. ASSUME NEW j \in 1..(n + 1), j # i PROVE \E k \in 1..n : j = Up(k)
    <3>1. CASE j < i
      BY <1>0, <3>1
    <3>2. CASE i < j
      <4>1. j - 1 \in 1..n /\ j = Up(j - 1)
        BY <1>0, <3>2
      <4> QED
        BY <4>1
    <3> QED
      BY <1>0, <2>3, <3>1, <3>2
  <2>4. \A k, l \in 1..n : k < l <=> Up(k) < Up(l)
    BY <1>0
  <2> QED
    BY <2>1, <2>2, <2>3, <2>4
<1>3. \A k \in 1..n : IF k < i THEN Up(k) < i ELSE i < Up(k)
  BY <1>0
<1>4. \A k \in 1..n : s[k] # e
  BY <1>0 DEF Range
<1> HIDE DEF Up
<1>5. Range(w) = Range(s) \union {e}
  <2>1. ASSUME NEW x \in Range(w) PROVE x \in Range(s) \union {e}
    <3>1. PICK j \in 1..(n + 1) : x = w[j]
      BY <1>1 DEF Range
    <3> QED
      BY <1>0, <1>2, <3>1 DEF Range
  <2>2. ASSUME NEW x \in Range(s) PROVE x \in Range(w)
    <3>1. PICK k \in 1..n : x = s[k]
      BY <1>0 DEF Range
    <3> QED
      BY <1>1, <1>2, <3>1 DEF Range
  <2>3. e \in Range(w)
    <3>1. i \in DOMAIN w /\ w[i] = e
      BY <1>0, <1>1, <1>2
    <3> QED
      BY <3>1 DEF Range
  <2> QED
    BY <2>1, <2>2, <2>3
<1>6. Distinct(w)
  <2> SUFFICES ASSUME NEW a \in 1..(n + 1), NEW b \in 1..(n + 1), a < b
               PROVE  w[a] # w[b]
    BY <1>1 DEF Distinct
  <2>1. CASE a = i \/ b = i
    BY <1>0, <1>2, <1>4, <2>1
  <2>2. CASE a # i /\ b # i
    <3>1. PICK k \in 1..n, l \in 1..n : a = Up(k) /\ b = Up(l)
      BY <1>2, <2>2
    <3>2. k < l /\ w[a] = s[k] /\ w[b] = s[l]
      BY <1>2, <3>1
    <3> QED
      BY <1>0, <3>2 DEF Distinct
  <2> QED
    BY <2>1, <2>2
<1>7. ASSUME NEW x \in Range(s), NEW y \in Range(s)
      PROVE  Before(w, x, y) <=> Before(s, x, y)
  <2>1. x # e /\ y # e
    BY <1>0, <1>4 DEF Range
  <2>2. Before(s, x, y) => Before(w, x, y)
    <3> SUFFICES ASSUME Before(s, x, y), NEW a \in 1..(n + 1), NEW b \in 1..(n + 1),
                        w[a] = x, w[b] = y
                 PROVE  a < b
      BY <1>1 DEF Before
    <3>1. PICK k \in 1..n, l \in 1..n : a = Up(k) /\ b = Up(l)
      BY <1>2, <2>1
    <3>2. s[k] = x /\ s[l] = y
      BY <1>2, <3>1
    <3>3. k < l
      BY <1>0, <3>2 DEF Before
    <3> QED
      BY <1>2, <3>1, <3>3
  <2>3. Before(w, x, y) => Before(s, x, y)
    <3> SUFFICES ASSUME Before(w, x, y), NEW k \in 1..n, NEW l \in 1..n,
                        s[k] = x, s[l] = y
                 PROVE  k < l
      BY <1>0 DEF Before
    <3>1. Up(k) < Up(l)
      BY <1>1, <1>2 DEF Before
    <3> QED
      BY <1>2, <3>1
  <2> QED
    BY <2>2, <2>3
<1>8. ASSUME NEW k \in 1..n
      PROVE  IF k < i THEN Before(w, s[k], e) ELSE Before(w, e, s[k])
  <2>1. \A a \in 1..(n + 1) : w[a] = e => a = i
    BY <1>2, <1>4
  <2>2. \A a \in 1..(n + 1) : w[a] = s[k] => a = Up(k)
    <3> SUFFICES ASSUME NEW a \in 1..(n + 1), w[a] = s[k]
                 PROVE  a = Up(k)
      OBVIOUS
    <3>1. Up(k) \in 1..(n + 1) /\ w[Up(k)] = s[k]
      BY <1>2
    <3>2. ~(a < Up(k)) /\ ~(Up(k) < a)
      BY <1>1, <1>6, <3>1 DEF Distinct
    <3> QED
      BY <1>0, <3>1, <3>2
  <2> QED
    BY <1>1, <1>3, <2>1, <2>2 DEF Before
<1> QED
  BY <1>0, <1>1, <1>5, <1>6, <1>7, <1>8

LEMMA RemovedOrder ==
    ASSUME NEW S, NEW s \in Seq(S), Distinct(s), NEW p \in DOMAIN s,
           NEW w, w = RemoveAt(s, p)
    PROVE  /\ w \in Seq(S) /\ Distinct(w) /\ Range(w) = Range(s) \ {s[p]}
           /\ \A x, y \in Range(w) : Before(w, x, y) <=> Before(s, x, y)
<1> DEFINE n == Len(s)
           Up(k) == IF k < p THEN k ELSE k + 1
<1>0. n \in Nat /\ p \in Nat /\ 1 <= p /\ p <= n /\ DOMAIN s = 1..n
  OBVIOUS
<1>1. /\ w \in Seq(S) /\ Len(w) = n - 1 /\ DOMAIN w = 1..(n - 1)
      /\ \A k \in 1..(n - 1) : w[k] = IF k < p THEN s[k] ELSE s[k + 1]
  BY Removed
<1> HIDE DEF n
<1>2. /\ \A k \in 1..(n - 1) : Up(k) \in 1..n /\ Up(k) # p /\ w[k] = s[Up(k)]
      /\ \A j \in 1..n : j = p \/ \E k \in 1..(n - 1) : j = Up(k)
      /\ \A k, l \in 1..(n - 1) : k < l <=> Up(k) < Up(l)
  <2>1. ASSUME NEW k \in 1..(n - 1)
        PROVE  Up(k) \in 1..n /\ Up(k) # p /\ w[k] = s[Up(k)]
    BY <1>0, <1>1
  <2>2. ASSUME NEW j \in 1..n, j # p PROVE \E k \in 1..(n - 1) : j = Up(k)
    <3>1. CASE j < p
      <4>1. j \in 1..(n - 1) /\ j = Up(j)
        BY <1>0, <3>1
      <4> QED
        BY <4>1
    <3>2. CASE p < j
      <4>1. j - 1 \in 1..(n - 1) /\ j = Up(j - 1)
        BY <1>0, <3>2
      <4> QED
        BY <4>1
    <3> QED
      BY <1>0, <2>2, <3>1, <3>2
  <2>3. \A k, l \in 1..(n - 1) : k < l <=> Up(k) < Up(l)
    BY <1>0
  <2> QED
    BY <2>1, <2>2, <2>3
<1> HIDE DEF Up
<1>3. Distinct(w)
  BY <1>0, <1>1, <1>2 DEF Distinct
<1>4. \A j \in 1..n : s[j] = s[p] => j = p
  BY <1>0 DEF Distinct
<1>5. Range(w) = Range(s) \ {s[p]}
  <2>1. ASSUME NEW x \in Range(w) PROVE x \in Range(s) /\ x # s[p]
    <3>1. PICK k \in 1..(n - 1) : x = w[k]
      BY <1>1 DEF Range
    <3>2. Up(k) \in 1..n /\ Up(k) # p /\ x = s[Up(k)]
      BY <1>2, <3>1
    <3> QED
      BY <1>0, <1>4, <3>2 DEF Range
  <2>2. ASSUME NEW x \in Range(s), x # s[p] PROVE x \in Range(w)
    <3>1. PICK j \in 1..n : x = s[j]
      BY <1>0 DEF Range
    <3> QED
      BY <1>1, <1>2, <2>2, <3>1 DEF Range
  <2> QED
    BY <2>1, <2>2
<1>6. ASSUME NEW x \in Range(w), NEW y \in Range(w)
      PROVE  Before(w, x, y) <=> Before(s, x, y)
  <2>0. x # s[p] /\ y # s[p]
    BY <1>5
  <2>1. Before(s, x, y) => Before(w, x, y)
    BY <1>0, <1>1, <1>2 DEF Before
  <2>2. Before(w, x, y) => Before(s, x, y)
    <3> SUFFICES ASSUME Before(w, x, y), NEW a \in 1..n, NEW b \in 1..n,
                        s[a] = x, s[b] = y
                 PROVE  a < b
      BY <1>0 DEF Before
    <3>1. PICK k \in 1..(n - 1), l \in 1..(n - 1) : a = Up(k) /\ b = Up(l)
      BY <1>2, <2>0
    <3>2. w[k] = x /\ w[l] = y
      BY <1>2, <3>1
    <3>3. k < l
      BY <1>1, <3>2 DEF Before
    <3> QED
      BY <1>2, <3>1, <3>3
  <2> QED
    BY <2>1, <2>2
<1> QED
  BY <1>1, <1>3, <1>5, <1>6

-----------------------------------------------------------------------------
(* The steps.                                                              *)

\* The table as TypeOK states it, and feeds that were never fetched first.
LEMMA TableOK ==
    ASSUME TypeOK
    PROVE  /\ queue \in Seq(Feeds) /\ Distinct(queue)
           /\ \A i, k \in DOMAIN queue :
                 i < k /\ queue[i] \in fetched => queue[k] \in fetched
           /\ Known \subseteq Feeds
BY DEF TypeOK, Distinct, Known, Range

LEMMA InitIInv == Init => IInv
<1> SUFFICES ASSUME Init PROVE IInv
  OBVIOUS
<1>1. Cardinality({}) = 0
  BY FS_EmptySet
<1>2. TypeOK
  BY <1>1, ConcurrencyAssumption DEF Init, TypeOK, Known, Busy, Jobs, NoJob, Range
<1>3. ItemsOK /\ PassedOK
  BY DEF Init, ItemsOK, PassedOK, NoJob
<1> QED
  BY <1>2, <1>3 DEF IInv

\* A batch has at most Concurrency feeds, those at the head of the table.
LEMMA NextFeedsAreFirst ==
    ASSUME TypeOK
    PROVE  /\ NextFeeds \subseteq Known
           /\ Cardinality(NextFeeds) <= Concurrency
           /\ \A f \in NextFeeds, g \in Known : Before(queue, g, f) => g \in NextFeeds
<1> DEFINE D == {k \in DOMAIN queue : k <= Concurrency}
           first == [k \in D |-> queue[k]]
<1>1. queue \in Seq(Feeds) /\ Concurrency \in Nat /\ DOMAIN queue \subseteq Nat \ {0}
  BY TableOK, ConcurrencyAssumption
<1>2. NextFeeds = {queue[k] : k \in D}
  BY DEF NextFeeds, FirstOf
<1>3. NextFeeds \subseteq Known
  BY <1>2 DEF Known, Range
<1>4. Cardinality(NextFeeds) <= Concurrency
  <2>1. D \subseteq 1..Concurrency
    BY <1>1
  <2>2. IsFiniteSet(1..Concurrency) /\ Cardinality(1..Concurrency) = Concurrency
    BY <1>1, FS_Interval
  <2>3. /\ IsFiniteSet(D) /\ Cardinality(D) \in Nat
        /\ Cardinality(D) <= Concurrency
    <3> HIDE DEF D
    <3> QED
      BY <2>1, <2>2, FS_Subset, FS_CardinalityType
  <2>4. first \in Surjection(D, NextFeeds)
    BY <1>2 DEF Surjection
  <2> HIDE DEF D, first
  <2>5. /\ IsFiniteSet(NextFeeds) /\ Cardinality(NextFeeds) <= Cardinality(D)
    BY <2>3, <2>4, FS_Surjection
  <2>6. Cardinality(NextFeeds) \in Nat
    BY <2>5, FS_CardinalityType
  <2> QED
    BY <1>1, <2>3, <2>5, <2>6
<1>5. ASSUME NEW f \in NextFeeds, NEW g \in Known, Before(queue, g, f)
      PROVE  g \in NextFeeds
  <2>1. PICK k \in D : queue[k] = f
    BY <1>2
  <2>2. PICK i \in DOMAIN queue : queue[i] = g
    BY DEF Known, Range
  <2>3. i < k
    BY <1>5, <2>1, <2>2 DEF Before
  <2>4. i \in D
    BY <1>1, <2>1, <2>2, <2>3
  <2> QED
    BY <1>2, <2>2, <2>4
<1> QED
  BY <1>3, <1>4, <1>5

\* Whoever is in the new batch has everybody it has overtaken with it.
LEMMA StartBatchKeeps ==
    ASSUME IInv, StartBatch
    PROVE  IInv'
<1>0. /\ TypeOK /\ ItemsOK /\ PassedOK
      /\ UNCHANGED <<queue, fetched, posts>> /\ marked' = {}
      /\ batch' = NextFeeds
      /\ job' = [f \in Feeds |-> IF f \in NextFeeds THEN Downloading ELSE job[f]]
      /\ passed' = {p \in passed : p[2] \notin NextFeeds}
      /\ Busy = {}
  BY DEF IInv, StartBatch
<1>1. TypeOK'
  <2>1. job' \in [Feeds -> Jobs]
    BY <1>0 DEF TypeOK, Jobs
  <2>2. Busy' \subseteq NextFeeds
    BY <1>0 DEF Busy
  <2>3. Known' = Known
    BY <1>0 DEF Known
  <2> QED
    BY <1>0, <2>1, <2>2, <2>3, NextFeedsAreFirst DEF TypeOK
<1>2. ItemsOK'
  BY <1>0 DEF ItemsOK, Downloading
<1>3. PassedOK'
  <2> SUFFICES ASSUME NEW f \in Feeds, NEW g \in Feeds, <<f, g>> \in passed'
               PROVE  /\ f \in Known' /\ g \in Known'
                      /\ g \notin batch'
                      /\ f \in batch' => f \in marked'
                      /\ Before(queue, g, f)'
    BY DEF PassedOK
  <2>1. /\ f \in Known /\ g \in Known /\ Before(queue, g, f)
        /\ g \notin NextFeeds
    BY <1>0 DEF PassedOK
  <2>2. f \notin NextFeeds
    BY <1>0, <2>1, NextFeedsAreFirst
  <2> QED
    BY <1>0, <2>1, <2>2 DEF Known, Before
<1> QED
  BY <1>1, <1>2, <1>3 DEF IInv

LEMMA AddFeedKeeps ==
    ASSUME IInv, NEW f \in Feeds, AddFeed(f)
    PROVE  IInv'
<1>0. /\ TypeOK /\ ItemsOK /\ PassedOK /\ f \notin Known
      /\ UNCHANGED <<fetched, batch, job, marked, posts, passed>>
  BY DEF IInv, AddFeed
<1>1. PICK i \in 1..(Len(queue) + 1) :
          /\ \A k \in 1..(i - 1) : queue[k] \notin fetched
          /\ queue' = InsertAt(queue, i, f)
  BY DEF AddFeed
<1>2. /\ queue' \in Seq(Feeds) /\ Distinct(queue') /\ Known' = Known \union {f}
      /\ \A x, y \in Known : Before(queue', x, y) <=> Before(queue, x, y)
  BY <1>0, <1>1, TableOK, InsertedOrder DEF Known
<1>3. \A k, l \in DOMAIN queue' :
          k < l /\ queue'[k] \in fetched => queue'[l] \in fetched
  <2>1. /\ queue \in Seq(Feeds) /\ Len(queue') = Len(queue) + 1
        /\ \A k \in 1..(Len(queue) + 1) :
              queue'[k] = IF k < i THEN queue[k] ELSE IF k = i THEN f ELSE queue[k - 1]
    BY <1>0, <1>1, TableOK, Inserted
  <2>2. f \notin fetched
    BY <1>0 DEF TypeOK
  <2>3. DOMAIN queue' = 1..(Len(queue) + 1) /\ DOMAIN queue = 1..Len(queue)
        /\ Len(queue) \in Nat
    BY <1>2, <2>1
  <2> SUFFICES ASSUME NEW k \in 1..(Len(queue) + 1), NEW l \in 1..(Len(queue) + 1),
                      k < l, queue'[k] \in fetched
               PROVE  queue'[l] \in fetched
    BY <2>3
  <2>4. i < k
    BY <1>1, <2>1, <2>2, <2>3
  <2>5. /\ k - 1 \in 1..Len(queue) /\ l - 1 \in 1..Len(queue) /\ k - 1 < l - 1
        /\ queue'[k] = queue[k - 1] /\ queue'[l] = queue[l - 1]
    BY <2>1, <2>3, <2>4
  <2> QED
    BY <1>0, <2>3, <2>5, TableOK
<1>4. TypeOK'
  BY <1>0, <1>2, <1>3 DEF TypeOK, Distinct, Busy
<1>5. ItemsOK'
  BY <1>0 DEF ItemsOK
<1>6. PassedOK'
  BY <1>0, <1>2 DEF PassedOK
<1> QED
  BY <1>4, <1>5, <1>6 DEF IInv

\* The steps of a goroutine before the last one, and those that give up.
LEMMA WorkKeeps ==
    ASSUME IInv,
           \/ \E f \in Feeds : Download(f) \/ SaveItem(f) \/ SkipItem(f) \/ GiveUp(f)
           \/ Stop
    PROVE  IInv'
<1>0. /\ TypeOK /\ ItemsOK /\ PassedOK
      /\ UNCHANGED <<queue, fetched, batch, marked, passed>>
  BY DEF IInv, Download, SaveItem, SkipItem, GiveUp, Stop
<1>1. PassedOK'
  BY <1>0 DEF PassedOK, Known
<1>2. ASSUME job' \in [Feeds -> Jobs], Busy' \subseteq Busy, posts' \subseteq Urls
      PROVE  TypeOK'
  BY <1>0, <1>2 DEF TypeOK, Known
<1>3. job \in [Feeds -> Jobs] /\ posts \subseteq Urls
  BY <1>0 DEF TypeOK
<1>4. ASSUME NEW f \in Feeds, Download(f)
      PROVE  TypeOK' /\ ItemsOK'
  <2>1. PICK d \in Documents :
            job' = [job EXCEPT ![f] = [phase |-> "items", doc |-> d, next |-> 1]]
    BY <1>4 DEF Download
  <2>2. job[f] # NoJob /\ posts' = posts
    BY <1>4 DEF Download, NoJob, Downloading
  <2>3. job' \in [Feeds -> Jobs]
    BY <1>3, <2>1 DEF Jobs
  <2>4. Busy' \subseteq Busy
    BY <1>3, <2>1, <2>2 DEF Busy
  <2>5. d \in Seq(Urls \union {Invalid})
    BY DocumentsAssumption
  <2>6. ItemsOK'
    <3> SUFFICES ASSUME NEW g \in Feeds, job'[g].phase = "items",
                        NEW i \in DOMAIN job'[g].doc, i < job'[g].next
                 PROVE  job'[g].doc[i] \in posts \union {Invalid}
      BY <2>2 DEF ItemsOK
    <3>1. CASE g = f
      BY <1>3, <2>1, <2>5, <3>1
    <3>2. CASE g # f
      BY <1>0, <1>3, <2>1, <3>2 DEF ItemsOK
    <3> QED
      BY <3>1, <3>2
  <2> QED
    BY <1>2, <1>3, <2>2, <2>3, <2>4, <2>6
<1>5. ASSUME NEW f \in Feeds, HasItem(f), job' = [job EXCEPT ![f].next = @ + 1],
             posts \subseteq posts', Item(f) \in posts' \union {Invalid},
             posts' \subseteq Urls
      PROVE  TypeOK' /\ ItemsOK'
  <2>1. /\ job[f] \in [phase : {"items"}, doc : Documents, next : Nat \ {0}]
    BY <1>3, <1>5 DEF HasItem, Jobs, NoJob, Downloading
  <2>2. /\ job'[f] \in [phase : {"items"}, doc : Documents, next : Nat \ {0}]
        /\ job'[f].doc = job[f].doc /\ job'[f].next = job[f].next + 1
        /\ \A g \in Feeds \ {f} : job'[g] = job[g]
    BY <1>3, <1>5, <2>1
  <2>3. job' \in [Feeds -> Jobs]
    BY <1>3, <1>5, <2>2 DEF Jobs
  <2>4. Busy' \subseteq Busy
    BY <2>1, <2>2 DEF Busy, NoJob
  <2>5. job[f].doc \in Seq(Urls \union {Invalid})
    BY <2>1, DocumentsAssumption
  <2>6. ItemsOK'
    <3> SUFFICES ASSUME NEW g \in Feeds, job'[g].phase = "items",
                        NEW i \in DOMAIN job'[g].doc, i < job'[g].next
                 PROVE  job'[g].doc[i] \in posts' \union {Invalid}
      BY DEF ItemsOK
    <3>1. CASE g = f
      <4>1. i < job[f].next \/ i = job[f].next
        BY <2>1, <2>2, <2>5, <3>1
      <4> QED
        BY <1>0, <1>5, <2>1, <2>2, <3>1, <4>1 DEF ItemsOK, Item
    <3>2. CASE g # f
      BY <1>0, <1>5, <2>2, <3>2 DEF ItemsOK
    <3> QED
      BY <3>1, <3>2
  <2> QED
    BY <1>2, <1>5, <2>3, <2>4, <2>6
<1>6. ASSUME NEW f \in Feeds, SaveItem(f)
      PROVE  TypeOK' /\ ItemsOK'
  <2>1. Item(f) \in Urls
    <3>1. job[f] \in [phase : {"items"}, doc : Documents, next : Nat \ {0}]
      BY <1>3, <1>6 DEF SaveItem, HasItem, Jobs, NoJob, Downloading
    <3>2. job[f].doc \in Seq(Urls \union {Invalid})
      BY <3>1, DocumentsAssumption
    <3> QED
      BY <1>6, <3>1, <3>2 DEF SaveItem, HasItem, Item
  <2> QED
    BY <1>3, <1>5, <1>6, <2>1 DEF SaveItem
<1>7. ASSUME NEW f \in Feeds, SkipItem(f)
      PROVE  TypeOK' /\ ItemsOK'
  BY <1>3, <1>5, <1>7 DEF SkipItem
<1>8. ASSUME Stop \/ \E f \in Feeds : GiveUp(f)
      PROVE  TypeOK' /\ ItemsOK'
  <2>1. /\ job' \in [Feeds -> Jobs] /\ posts' = posts
        /\ \A g \in Feeds : job'[g] = NoJob \/ job'[g] = job[g]
    BY <1>3, <1>8 DEF GiveUp, Stop, Jobs
  <2>2. Busy' \subseteq Busy
    BY <2>1 DEF Busy
  <2>3. ItemsOK'
    BY <1>0, <2>1 DEF ItemsOK, NoJob
  <2> QED
    BY <1>2, <1>3, <2>1, <2>2, <2>3
<1> QED
  BY <1>0, <1>1, <1>4, <1>6, <1>7, <1>8 DEF IInv

\* A feed that has just been marked stands behind all that the batch did not
\* have, and it was in front of none of those it had overtaken before.
LEMMA MarkKeeps ==
    ASSUME IInv, NEW f \in Feeds, Mark(f)
    PROVE  /\ IInv'
           /\ f \in batch \ marked
           /\ \A i \in DOMAIN job[f].doc : job[f].doc[i] \in posts \union {Invalid}
<1>0. /\ TypeOK /\ ItemsOK /\ PassedOK
      /\ job[f].phase = "items" /\ ~HasItem(f)
      /\ fetched' = fetched \union {f} /\ marked' = marked \union {f}
      /\ passed' = passed \union {<<f, g>> : g \in Known \ batch}
      /\ job' = [job EXCEPT ![f] = NoJob]
      /\ UNCHANGED <<batch, posts>>
  BY DEF IInv, Mark
<1>11. PICK p \in DOMAIN queue :
          /\ queue[p] = f
          /\ LET rest == RemoveAt(queue, p)
             IN \E i \in 1..(Len(rest) + 1) :
                   /\ \A k \in i..Len(rest) : rest[k] \in marked
                   /\ queue' = InsertAt(rest, i, f)
  BY DEF Mark
<1> DEFINE others == RemoveAt(queue, p)
           n == Len(others)
<1>1. PICK i \in 1..(n + 1) :
          /\ queue[p] = f
          /\ \A k \in i..n : others[k] \in marked
          /\ queue' = InsertAt(others, i, f)
  BY <1>11
<1>2. f \in batch \ marked
  BY <1>0 DEF TypeOK, Busy, NoJob
<1>3. /\ others \in Seq(Feeds) /\ Distinct(others) /\ Range(others) = Known \ {f}
      /\ \A x, y \in Range(others) : Before(others, x, y) <=> Before(queue, x, y)
  BY <1>0, <1>1, TableOK, RemovedOrder DEF Known
<1>4. \A k, l \in DOMAIN others :
          k < l /\ others[k] \in fetched => others[l] \in fetched
  <2>1. /\ queue \in Seq(Feeds) /\ Len(others) = Len(queue) - 1
        /\ \A k \in 1..(Len(queue) - 1) :
              others[k] = IF k < p THEN queue[k] ELSE queue[k + 1]
    BY <1>0, TableOK, Removed
  <2>2. /\ DOMAIN others = 1..(Len(queue) - 1) /\ DOMAIN queue = 1..Len(queue)
        /\ Len(queue) \in Nat /\ p \in 1..Len(queue)
    BY <1>3, <2>1
  <2> HIDE DEF others
  <2> SUFFICES ASSUME NEW k \in 1..(Len(queue) - 1), NEW l \in 1..(Len(queue) - 1),
                      k < l, others[k] \in fetched
               PROVE  others[l] \in fetched
    BY <2>2
  <2>3. PICK a \in 1..Len(queue), b \in 1..Len(queue) :
            a < b /\ others[k] = queue[a] /\ others[l] = queue[b]
    <3>1. CASE l < p
      BY <2>1, <2>2, <3>1
    <3>2. CASE ~(l < p) /\ k < p
      BY <2>1, <2>2, <3>2
    <3>3. CASE ~(k < p)
      BY <2>1, <2>2, <3>3
    <3> QED
      BY <2>2, <3>1, <3>2, <3>3
  <2> QED
    BY <1>0, <2>2, <2>3, TableOK
<1> HIDE DEF others
<1>5. /\ queue' \in Seq(Feeds) /\ Distinct(queue') /\ Known' = Known
      /\ \A x, y \in Known \ {f} : Before(queue', x, y) <=> Before(queue, x, y)
      /\ \A k \in DOMAIN others :
            IF k < i THEN Before(queue', others[k], f) ELSE Before(queue', f, others[k])
  <2>1. f \notin Range(others) /\ i \in 1..(Len(others) + 1) /\ queue' = InsertAt(others, i, f)
    BY <1>1, <1>3 DEF others
  <2>2. /\ queue' \in Seq(Feeds) /\ Distinct(queue') /\ Range(queue') = Range(others) \union {f}
        /\ \A x, y \in Range(others) : Before(queue', x, y) <=> Before(others, x, y)
        /\ \A k \in DOMAIN others :
              IF k < i THEN Before(queue', others[k], f) ELSE Before(queue', f, others[k])
    BY <1>3, <2>1, InsertedOrder
  <2>3. f \in Known
    BY <1>0, <1>2 DEF TypeOK
  <2> QED
    BY <1>3, <2>2, <2>3 DEF Known
<1>6. ASSUME NEW g \in Known \ {f}, g \notin batch
      PROVE  Before(queue', g, f)
  <2>1. PICK k \in DOMAIN others : others[k] = g
    BY <1>3, <1>6 DEF Range
  <2>2. g \notin marked
    BY <1>0, <1>6 DEF TypeOK
  <2>3. k \in 1..n /\ n \in Nat
    BY <1>3, <2>1
  <2>4. \A j \in i..n : others[j] \in marked
    BY <1>1 DEF others
  <2>5. k < i
    <3>1. k \notin i..n
      BY <2>1, <2>2, <2>4
    <3>2. i \in 1..(n + 1)
      BY <1>1 DEF others
    <3> QED
      BY <2>3, <3>1, <3>2
  <2> QED
    BY <1>5, <2>1, <2>5
<1>7. \A k, l \in DOMAIN queue' :
          k < l /\ queue'[k] \in fetched' => queue'[l] \in fetched'
  <2>1. /\ Len(queue') = n + 1 /\ n \in Nat /\ DOMAIN others = 1..n
        /\ \A k \in 1..(n + 1) :
              queue'[k] = IF k < i THEN others[k] ELSE IF k = i THEN f ELSE others[k - 1]
    <3>1. i \in 1..(Len(others) + 1) /\ queue' = InsertAt(others, i, f)
      BY <1>1 DEF others
    <3>2. others \in Seq(Feeds) /\ n \in Nat /\ DOMAIN others = 1..n
      BY <1>3
    <3> HIDE DEF n
    <3>3. /\ Len(queue') = Len(others) + 1
          /\ \A k \in 1..(Len(others) + 1) :
                queue'[k] = IF k < i THEN others[k] ELSE IF k = i THEN f ELSE others[k - 1]
      <4> DEFINE w == queue'
      <4>1. w = InsertAt(others, i, f)
        BY <3>1
      <4> HIDE DEF w
      <4>2. /\ Len(w) = Len(others) + 1
            /\ \A k \in 1..(Len(others) + 1) :
                  w[k] = IF k < i THEN others[k] ELSE IF k = i THEN f ELSE others[k - 1]
        BY <3>1, <3>2, <4>1, Inserted
      <4> QED
        BY <4>2 DEF w
    <3> QED
      BY <3>2, <3>3 DEF n
  <2>2. i \in 1..(n + 1) /\ \A k \in i..n : others[k] \in fetched
    <3>1. i \in 1..(n + 1) /\ \A k \in i..n : others[k] \in marked
      BY <1>1 DEF others
    <3> QED
      BY <1>0, <3>1 DEF TypeOK
  <2>3. DOMAIN queue' = 1..(n + 1)
    BY <1>5, <2>1
  <2>4. ASSUME NEW k \in 1..n, others[k] \in fetched
        PROVE  \A l \in (k + 1)..n : others[l] \in fetched
    BY <1>4, <2>1, <2>4
  <2> HIDE DEF n
  <2> SUFFICES ASSUME NEW k \in 1..(n + 1), NEW l \in 1..(n + 1),
                      k < l, queue'[k] \in fetched'
               PROVE  queue'[l] \in fetched'
    BY <2>3
  <2>5. CASE l = i
    BY <1>0, <2>1, <2>5
  <2>6. CASE i < l
    <3>1. l - 1 \in i..n /\ queue'[l] = others[l - 1]
      BY <2>1, <2>2, <2>6
    <3> QED
      BY <1>0, <2>2, <3>1
  <2>7. CASE l < i
    <3>1. /\ k \in 1..n /\ l \in (k + 1)..n
          /\ queue'[k] = others[k] /\ queue'[l] = others[l]
      BY <2>1, <2>2, <2>7
    <3>2. others[k] # f
      BY <1>3, <2>1, <3>1 DEF Range
    <3> QED
      BY <1>0, <2>4, <3>1, <3>2
  <2> QED
    BY <2>1, <2>2, <2>5, <2>6, <2>7
<1>8. TypeOK'
  <2>1. job' \in [Feeds -> Jobs] /\ Busy' = Busy \ {f}
    BY <1>0 DEF TypeOK, Jobs, Busy
  <2>2. passed' \subseteq Feeds \X Feeds
    BY <1>0, TableOK DEF TypeOK
  <2>3. /\ fetched' \subseteq Known' /\ batch' \subseteq Known'
        /\ Cardinality(batch') <= Concurrency
        /\ Busy' \subseteq batch' \ marked'
        /\ marked' \subseteq batch' \intersect fetched'
        /\ posts' \subseteq Urls
    BY <1>0, <1>2, <1>5, <2>1 DEF TypeOK
  <2>4. \A k, l \in DOMAIN queue' : k < l => queue'[k] # queue'[l]
    BY <1>5 DEF Distinct
  <2> QED
    BY <1>5, <1>7, <2>1, <2>2, <2>3, <2>4 DEF TypeOK
<1>9. ItemsOK'
  BY <1>0 DEF ItemsOK, NoJob, TypeOK
<1>10. PassedOK'
  <2> SUFFICES ASSUME NEW x \in Feeds, NEW g \in Feeds, <<x, g>> \in passed'
               PROVE  /\ x \in Known' /\ g \in Known'
                      /\ g \notin batch'
                      /\ x \in batch' => x \in marked'
                      /\ Before(queue', g, x)
    BY DEF PassedOK, Before
  <2>1. CASE <<x, g>> \in passed
    <3>1. /\ x \in Known /\ g \in Known /\ g \notin batch
          /\ x \in batch => x \in marked
          /\ Before(queue, g, x)
      BY <1>0, <2>1 DEF PassedOK
    <3>2. x # f /\ g # f
      BY <1>2, <3>1
    <3> QED
      BY <1>0, <1>5, <3>1, <3>2
  <2>2. CASE <<x, g>> \notin passed
    <3>1. x = f /\ g \in Known /\ g \notin batch
      BY <1>0, <2>2
    <3>2. g # f
      BY <1>2, <3>1
    <3> QED
      BY <1>0, <1>2, <1>5, <1>6, <3>1, <3>2 DEF TypeOK
  <2> QED
    BY <2>1, <2>2
<1>12. \A k \in DOMAIN job[f].doc : job[f].doc[k] \in posts \union {Invalid}
  <2>1. job[f] \in [phase : {"items"}, doc : Documents, next : Nat \ {0}]
    BY <1>0 DEF TypeOK, Jobs, NoJob, Downloading
  <2>2. job[f].doc \in Seq(Urls \union {Invalid})
    BY <2>1, DocumentsAssumption
  <2>3. \A k \in DOMAIN job[f].doc : k < job[f].next
    BY <1>0, <2>1, <2>2 DEF HasItem
  <2> QED
    BY <1>0, <2>3 DEF ItemsOK
<1> QED
  BY <1>2, <1>8, <1>9, <1>10, <1>12 DEF IInv

LEMMA NextIInv == IInv /\ [Next]_vars => IInv'
<1> SUFFICES ASSUME IInv, [Next]_vars PROVE IInv'
  OBVIOUS
<1>1. CASE StartBatch
  BY <1>1, StartBatchKeeps
<1>2. CASE Stop
  BY <1>2, WorkKeeps
<1>3. ASSUME NEW f \in Feeds, AddFeed(f) \/ ScrapeFeed(f) PROVE IInv'
  BY <1>3, AddFeedKeeps, WorkKeeps, MarkKeeps DEF ScrapeFeed
<1>4. CASE UNCHANGED vars
  BY <1>4 DEF vars, IInv, TypeOK, ItemsOK, PassedOK, Known, Busy, Before
<1> QED
  BY <1>1, <1>2, <1>3, <1>4 DEF Next

LEMMA SpecIInv == Spec => []IInv
BY InitIInv, NextIInv, PTL DEF Spec

\* A goroutine marks its feed, and nobody else does.
LEMMA OnlyMarkMarks ==
    ASSUME IInv, [Next]_vars, NEW f \in marked' \ marked
    PROVE  f \in Feeds /\ Mark(f)
<1>1. ~UNCHANGED vars /\ ~Stop
  BY DEF vars, Stop
<1>2. ~StartBatch
  BY DEF StartBatch
<1>3. PICK g \in Feeds : AddFeed(g) \/ ScrapeFeed(g)
  BY <1>1, <1>2 DEF Next
<1>4. Mark(g)
  BY <1>3 DEF AddFeed, ScrapeFeed, Download, SaveItem, SkipItem, GiveUp
<1> QED
  BY <1>4 DEF Mark

-----------------------------------------------------------------------------
(* The theorems.                                                           *)

\* The table is ordered as GetNextFeedsToFetch reads it, a batch has at most
\* Concurrency feeds, and goroutines work on unmarked feeds of the batch only.
THEOREM TypeCorrect == Spec => []TypeOK
<1>1. IInv => TypeOK
  BY DEF IInv
<1> QED
  BY <1>1, SpecIInv, PTL

\* No feed is fetched twice while another one waits for its turn.
THEOREM OvertakenOnceTheorem == Spec => OvertakenOnce
<1>1. IInv /\ [Next]_vars =>
          [\A f \in marked' \ marked : \A g \in Feeds : <<f, g>> \notin passed]_vars
  <2> SUFFICES ASSUME IInv, [Next]_vars, NEW f \in marked' \ marked, NEW g \in Feeds
               PROVE  <<f, g>> \notin passed
    OBVIOUS
  <2>1. f \in Feeds /\ f \in batch \ marked
    BY OnlyMarkMarks, MarkKeeps
  <2> QED
    BY <2>1 DEF IInv, PassedOK
<1> QED
  BY <1>1, SpecIInv, PTL DEF Spec, OvertakenOnce

\* A feed gets its last_fetched_at only when every usable item is stored.
THEOREM FetchedMeansSavedTheorem == Spec => FetchedMeansSaved
<1>1. IInv /\ [Next]_vars =>
          [\A f \in marked' \ marked :
              \A i \in DOMAIN job[f].doc : job[f].doc[i] \in posts \union {Invalid}]_vars
  BY OnlyMarkMarks, MarkKeeps
<1> QED
  BY <1>1, SpecIInv, PTL DEF Spec, FetchedMeansSaved

=============================================================================
