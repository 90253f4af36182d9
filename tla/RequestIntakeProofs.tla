------------------------ MODULE RequestIntakeProofs ------------------------
(***************************************************************************)
(* The safety properties of RequestIntake, for every number of posts,      *)
(* users, relays and partitions and every number of faults.  The records   *)
(* of the log only grow in number; the invariant counts them, row by row,  *)
(* against the marks and the faults, and ties each relay to its row.       *)
(***************************************************************************)
EXTENDS RequestIntake, FiniteSetTheorems, SequenceTheorems, TLAPS

-----------------------------------------------------------------------------
(* The inductive invariant.                                                *)

\* A row of the outbox was written for a follower of the feed its post came
\* from, and a feed's items are remembered only once they are stored.
OutboxOK ==
    /\ IsFiniteSet(posts)
    /\ \A s \in scraped : Stored(s[1])
    /\ \A r \in Outbox : \E f \in Feeds :
          <<r[1], f>> \in posts /\ <<r[1], f, r[2]>> \in scraped

\* A relay has locked a row of the outbox that is neither marked nor deferred,
\* and no other relay has locked it.
RelayOK ==
    /\ \A p \in Relays : relay[p] # NoTx =>
          /\ relay[p].row \in Outbox
          /\ relay[p].row \notin published \union deferred
    /\ \A p, q \in Relays :
          relay[p] # NoTx /\ relay[q] # NoTx /\ relay[p].row = relay[q].row => p = q

\* What is in the log came from the outbox and lies in the partition of its key.
RecordsOK ==
    \A k \in Partitions : \A i \in 1..Len(log[k]) :
       log[k][i] \in Outbox /\ Partition(log[k][i]) = k

\* Acknowledged to a relay that has not yet marked the row.
Acked(r) == \E p \in Relays : relay[p].phase = "acked" /\ relay[p].row = r

Settled(r) == r \in published \/ Acked(r)

\* A row that is marked or acknowledged has a record, and each record of a row
\* is accounted for by the mark, the acknowledgement or a fault.
CopiesOK ==
    \A r \in Requests :
       /\ Settled(r) => Copies(r) # {}
       /\ Cardinality(Copies(r)) <= faults[r] + (IF Settled(r) THEN 1 ELSE 0)

\* The record at position i of partition k has been accepted or put aside.
IsHandled(k, i) == log[k][i] \in inbox \/ <<k, i>> \in dlq

\* The consumer is at or below the end of each partition and in the middle of
\* one record at most, and it says of no record that it is handled which is not.
ConsumerOK ==
    /\ \A k \in Partitions : offset[k] <= Len(log[k])
    /\ \A k \in Partitions : \A i \in 1..offset[k] : IsHandled(k, i)
    /\ inHand # NoPartition => offset[inHand] < Len(log[inHand])
    /\ inHand # NoPartition /\ handled => IsHandled(inHand, offset[inHand] + 1)
    /\ inbox \subseteq Outbox
    /\ \A r \in inbox : r[1] \in Acceptable

IInv == TypeOK /\ OutboxOK /\ RelayOK /\ RecordsOK /\ CopiesOK /\ ConsumerOK

-----------------------------------------------------------------------------
(* Lemmas about rows, transactions and the log.                            *)

LEMMA RequestParts ==
    ASSUME NEW r \in Requests
    PROVE  r[1] \in Urls /\ r[2] \in Users /\ Partition(r) \in Partitions
           /\ r = <<r[1], r[2]>>
BY PartitionAssumption DEF Requests, Partition

\* What a relay has in hand is NoTx or a transaction, told apart by the phase.
LEMMA RelayParts ==
    ASSUME TypeOK, NEW p \in Relays
    PROVE  /\ relay[p] = NoTx <=> relay[p].phase = "idle"
           /\ relay[p] # NoTx => /\ relay[p] \in Transactions
                                 /\ relay[p].phase \in {"locked", "acked", "failed"}
                                 /\ relay[p].row \in Requests
<1>1. relay[p] \in Transactions \union {NoTx}
  BY DEF TypeOK
<1>2. NoTx.phase = "idle"
  BY DEF NoTx
<1>3. \A t \in Transactions : t.phase \in {"locked", "acked", "failed"} /\ t.row \in Requests
  BY DEF Transactions
<1> QED
  BY <1>1, <1>2, <1>3

\* A row that a relay has in hand is not eligible for another one.
LEMMA LockedRows ==
    ASSUME TypeOK, NEW p \in Relays, relay[p] # NoTx
    PROVE  relay[p].row \in Locked
<1>1. relay[p].row \in Urls \X Users
  BY RelayParts DEF Requests
<1>2. relay[p].row # NoRow
  BY <1>1 DEF NoRow
<1> QED
  BY <1>2 DEF Locked

LEMMA LogParts ==
    ASSUME TypeOK, NEW k \in Partitions
    PROVE  /\ log[k] \in Seq(Requests)
           /\ Len(log[k]) \in Nat
           /\ DOMAIN log[k] = 1..Len(log[k])
           /\ \A i \in 1..Len(log[k]) : log[k][i] \in Requests
<1>1. log[k] \in Seq(Requests)
  BY DEF TypeOK
<1> QED
  BY <1>1, LenProperties, ElementOfSeq

\* One more record at the end of the partition of its key, and the others stay.
LEMMA AppendedLog ==
    ASSUME TypeOK, NEW r \in Requests, AppendRecord(r)
    PROVE  /\ log' \in [Partitions -> Seq(Requests)]
           /\ \A k \in Partitions :
                 /\ Len(log'[k]) = IF k = Partition(r) THEN Len(log[k]) + 1 ELSE Len(log[k])
                 /\ \A i \in 1..Len(log[k]) : log'[k][i] = log[k][i]
           /\ log'[Partition(r)][Len(log[Partition(r)]) + 1] = r
<1>1. Partition(r) \in Partitions
  BY RequestParts
<1>2. log' = [log EXCEPT ![Partition(r)] = Append(log[Partition(r)], r)]
  BY DEF AppendRecord
<1>3. log \in [Partitions -> Seq(Requests)]
  BY DEF TypeOK
<1>4. log'[Partition(r)] = Append(log[Partition(r)], r)
  BY <1>1, <1>2, <1>3
<1>5. \A k \in Partitions : k # Partition(r) => log'[k] = log[k]
  BY <1>2, <1>3
<1>6. /\ Append(log[Partition(r)], r) \in Seq(Requests)
      /\ Len(Append(log[Partition(r)], r)) = Len(log[Partition(r)]) + 1
      /\ \A i \in 1..Len(log[Partition(r)]) :
            Append(log[Partition(r)], r)[i] = log[Partition(r)][i]
      /\ Append(log[Partition(r)], r)[Len(log[Partition(r)]) + 1] = r
  BY <1>1, <1>3, AppendProperties
<1>7. \A k \in Partitions : Len(log[k]) \in Nat
  BY LogParts
<1>8. log' \in [Partitions -> Seq(Requests)]
  BY <1>1, <1>2, <1>3, <1>6
<1>9. ASSUME NEW k \in Partitions
      PROVE  /\ Len(log'[k]) = IF k = Partition(r) THEN Len(log[k]) + 1 ELSE Len(log[k])
             /\ \A i \in 1..Len(log[k]) : log'[k][i] = log[k][i]
  <2>1. CASE k = Partition(r)
    BY <1>4, <1>6, <2>1
  <2>2. CASE k # Partition(r)
    BY <1>5, <1>7, <2>2
  <2> QED
    BY <2>1, <2>2
<1>10. log'[Partition(r)][Len(log[Partition(r)]) + 1] = r
  BY <1>4, <1>6
<1> QED
  BY <1>8, <1>9, <1>10

\* The positions of a value after one more element.
LEMMA PositionsGrow ==
    ASSUME NEW old, NEW new, NEW n \in Nat, NEW v,
           \A i \in 1..n : new[i] = old[i]
    PROVE  {i \in 1..(n + 1) : new[i] = v} =
              {i \in 1..n : old[i] = v} \union (IF new[n + 1] = v THEN {n + 1} ELSE {})
<1>1. 1..(n + 1) = 1..n \union {n + 1}
  OBVIOUS
<1> QED
  BY <1>1

\* ... and one more copy of its row.
LEMMA AppendedCopies ==
    ASSUME TypeOK, NEW r \in Requests, AppendRecord(r)
    PROVE  /\ Copies(r)' = Copies(r) \union {Len(log[Partition(r)]) + 1}
           /\ \A q \in Requests : q # r => Copies(q)' = Copies(q)
<1>1. \A k \in Partitions : DOMAIN log[k] = 1..Len(log[k]) /\ Len(log[k]) \in Nat
  BY LogParts
<1>2. log' \in [Partitions -> Seq(Requests)]
  BY AppendedLog
<1>3. \A k \in Partitions : DOMAIN log'[k] = 1..Len(log'[k])
  BY <1>2, LenProperties
<1>4. ASSUME NEW q \in Requests
      PROVE  /\ Partition(q) \in Partitions
             /\ Copies(q) = {i \in 1..Len(log[Partition(q)]) : log[Partition(q)][i] = q}
             /\ Copies(q)' = {i \in 1..Len(log'[Partition(q)]) : log'[Partition(q)][i] = q}
  <2>1. Partition(q) \in Partitions
    BY RequestParts
  <2> QED
    BY <1>1, <1>3, <2>1 DEF Copies, Partition
<1>5. \A k \in Partitions :
        /\ Len(log'[k]) = IF k = Partition(r) THEN Len(log[k]) + 1 ELSE Len(log[k])
        /\ \A i \in 1..Len(log[k]) : log'[k][i] = log[k][i]
  BY AppendedLog
<1>6. log'[Partition(r)][Len(log[Partition(r)]) + 1] = r
  BY AppendedLog
<1>7. ASSUME NEW q \in Requests
      PROVE  Copies(q)' = Copies(q) \union
                (IF q = r THEN {Len(log[Partition(r)]) + 1} ELSE {})
  <2>1. /\ Partition(q) \in Partitions
        /\ Len(log[Partition(q)]) \in Nat
        /\ \A i \in 1..Len(log[Partition(q)]) : log'[Partition(q)][i] = log[Partition(q)][i]
    BY <1>1, <1>4, <1>5
  <2>2. CASE Partition(q) = Partition(r)
    <3>1. Len(log'[Partition(q)]) = Len(log[Partition(q)]) + 1
      BY <1>5, <2>1, <2>2
    <3>2. log'[Partition(q)][Len(log[Partition(q)]) + 1] = r
      BY <1>6, <2>2
    <3> QED
      BY <1>4, <2>1, <2>2, <3>1, <3>2, PositionsGrow
  <2>3. CASE Partition(q) # Partition(r)
    <3>1. Len(log'[Partition(q)]) = Len(log[Partition(q)])
      BY <1>5, <2>1, <2>3
    <3> QED
      BY <1>4, <2>1, <2>3, <3>1
  <2> QED
    BY <2>2, <2>3
<1> QED
  BY <1>7

LEMMA CopiesAreFinite ==
    ASSUME TypeOK, NEW r \in Requests
    PROVE  IsFiniteSet(Copies(r)) /\ Cardinality(Copies(r)) \in Nat
<1>1. Partition(r) \in Partitions
  BY RequestParts
<1>2. Copies(r) \subseteq 1..Len(log[Partition(r)])
  BY <1>1, LogParts DEF Copies
<1>3. IsFiniteSet(1..Len(log[Partition(r)]))
  BY <1>1, LogParts, FS_Interval
<1> QED
  BY <1>2, <1>3, FS_Subset, FS_CardinalityType

-----------------------------------------------------------------------------
(* What SavePost leaves behind.                                            *)

\* A post that is stored stays stored, and rows are only added, for followers
\* of the feed of a post that was not stored before.
LEMMA SavedRows ==
    ASSUME TypeOK, OutboxOK, NEW url \in Urls, NEW f \in Feeds, SavePost(url, f)
    PROVE  /\ posts \subseteq posts' /\ IsFiniteSet(posts') /\ Stored(url)'
           /\ posts' \subseteq Urls \X Feeds
           /\ scraped' \subseteq Urls \X Feeds \X Users
           /\ created' \in [Requests -> Nat]
           /\ Outbox \subseteq Outbox'
           /\ \A r \in Outbox' \ Outbox : /\ ~Stored(url) /\ r[1] = url
                                          /\ <<url, f>> \in posts'
                                          /\ r[2] \in Followers(f)
<1>1. /\ posts' = IF Stored(url) THEN posts ELSE posts \union {<<url, f>>}
      /\ scraped' = scraped \union
            IF \E s \in scraped : s[1] = url /\ s[2] = f THEN {}
            ELSE {<<url, f, u>> : u \in Followers(f)}
  BY DEF SavePost
<1>2. PICK now \in Ranks :
        created' = [r \in Requests |->
           IF ~Stored(url) /\ r[1] = url /\ r[2] \in Followers(f) THEN now ELSE created[r]]
  BY DEF SavePost, Recipients
<1>3. now \in Nat /\ now > 0
  <2>1. Cardinality(posts) \in Nat
    BY FS_CardinalityType DEF OutboxOK
  <2> QED
    BY <1>2, <2>1 DEF Ranks
<1>4. created \in [Requests -> Nat]
  BY DEF TypeOK
<1>5. IsFiniteSet(posts')
  BY <1>1, FS_AddElement DEF OutboxOK
<1>6. Stored(url)'
  BY <1>1 DEF Stored
<1>7. posts' \subseteq Urls \X Feeds
  BY <1>1 DEF TypeOK
<1>8. scraped' \subseteq Urls \X Feeds \X Users
  <2>1. \A u \in Followers(f) : <<url, f, u>> \in Urls \X Feeds \X Users
    BY DEF Followers
  <2> QED
    BY <1>1, <2>1 DEF TypeOK
<1>9. created' \in [Requests -> Nat]
  BY <1>2, <1>3, <1>4
<1>10. Outbox \subseteq Outbox'
  BY <1>2, <1>3, <1>4 DEF Outbox
<1>11. \A r \in Outbox' \ Outbox : ~Stored(url) /\ r[1] = url /\ r[2] \in Followers(f)
  BY <1>2, <1>4 DEF Outbox
<1> QED
  BY <1>1, <1>5, <1>6, <1>7, <1>8, <1>9, <1>10, <1>11

-----------------------------------------------------------------------------
(* The initial states.                                                     *)

LEMMA InitIInv == Init => IInv
<1> SUFFICES ASSUME Init PROVE IInv
  OBVIOUS
<1> USE DEF Init
<1>1. TypeOK
  <2>1. <<>> \in Seq(Requests)
    BY EmptySeq
  <2>2. 0 \in 0..MaxFaults
    BY MaxFaultsAssumption
  <2> QED
    BY <2>1, <2>2 DEF TypeOK
<1>2. Outbox = {}
  BY DEF Outbox
<1>3. OutboxOK
  BY <1>2, FS_EmptySet DEF OutboxOK
<1>4. \A p \in Relays : relay[p] = NoTx
  OBVIOUS
<1>5. RelayOK
  BY <1>4 DEF RelayOK
<1>6. \A k \in Partitions : log[k] = <<>> /\ Len(log[k]) = 0
  BY EmptySeq
<1>7. \A r \in Requests : Copies(r) = {}
  BY <1>6, RequestParts DEF Copies
<1>8. RecordsOK
  BY <1>6 DEF RecordsOK
<1>9. ASSUME NEW r \in Requests
      PROVE  ~Settled(r) /\ Cardinality(Copies(r)) = 0 /\ faults[r] = 0
  <2>1. NoTx.phase # "acked"
    BY DEF NoTx
  <2> QED
    BY <1>4, <1>7, <2>1, FS_EmptySet DEF Settled, Acked
<1>10. CopiesOK
  BY <1>9 DEF CopiesOK
<1>11. ConsumerOK
  BY <1>6 DEF ConsumerOK
<1> QED
  BY <1>1, <1>3, <1>5, <1>8, <1>10, <1>11 DEF IInv

-----------------------------------------------------------------------------
(* The steps, conjunct by conjunct.                                        *)

LEMMA TypeInductive == TypeOK /\ OutboxOK /\ ConsumerOK /\ [Next]_vars => TypeOK'
<1> SUFFICES ASSUME TypeOK, OutboxOK, ConsumerOK, [Next]_vars PROVE TypeOK'
  OBVIOUS
<1> USE DEF postVars, outboxVars, consumerVars
<1>1. ASSUME NEW u \in Users, NEW f \in Feeds, FollowFeed(u, f) PROVE TypeOK'
  BY <1>1 DEF FollowFeed, TypeOK
<1>2. ASSUME NEW url \in Urls, NEW f \in Feeds, SavePost(url, f) PROVE TypeOK'
  BY <1>2, SavedRows DEF SavePost, TypeOK
<1>3. ASSUME NEW p \in Relays, SelectRow(p) PROVE TypeOK'
  BY <1>3 DEF SelectRow, TypeOK, Transactions
<1>4. ASSUME NEW p \in Relays, Produce(p) PROVE TypeOK'
  <2>1. relay[p] \in Transactions /\ relay[p].row \in Requests
    BY <1>4, RelayParts DEF Produce
  <2>2. relay' \in [Relays -> Transactions \union {NoTx}]
    BY <1>4, <2>1 DEF Produce, TypeOK, Transactions
  <2>3. log' \in [Partitions -> Seq(Requests)]
    BY <1>4, <2>1, AppendedLog DEF Produce
  <2> QED
    BY <1>4, <2>2, <2>3 DEF Produce, TypeOK
<1>5. ASSUME NEW p \in Relays, ProduceFails(p) PROVE TypeOK'
  <2>1. relay[p] \in Transactions /\ relay[p].row \in Requests
    BY <1>5, RelayParts DEF ProduceFails
  <2>2. relay' \in [Relays -> Transactions \union {NoTx}]
    BY <1>5, <2>1 DEF ProduceFails, TypeOK, Transactions
  <2>3. log' \in [Partitions -> Seq(Requests)]
    BY <1>5, <2>1, AppendedLog DEF ProduceFails, TypeOK
  <2>4. faults' \in [Requests -> 0..MaxFaults]
    <3>1. CASE UNCHANGED faults
      BY <3>1 DEF TypeOK
    <3>2. CASE /\ faults[relay[p].row] < MaxFaults
               /\ faults' = [faults EXCEPT ![relay[p].row] = @ + 1]
      BY <2>1, <3>2, MaxFaultsAssumption DEF TypeOK
    <3> QED
      BY <1>5, <3>1, <3>2 DEF ProduceFails
  <2> QED
    BY <1>5, <2>2, <2>3, <2>4 DEF ProduceFails, TypeOK
<1>6. ASSUME NEW p \in Relays, MarkPublished(p) PROVE TypeOK'
  <2>1. relay[p].row \in Requests
    BY <1>6, RelayParts DEF MarkPublished
  <2> QED
    BY <1>6, <2>1 DEF MarkPublished, TypeOK
<1>7. ASSUME NEW p \in Relays, ScheduleRetry(p) PROVE TypeOK'
  <2>1. relay[p].row \in Requests
    BY <1>7, RelayParts DEF ScheduleRetry
  <2> QED
    BY <1>7, <2>1 DEF ScheduleRetry, TypeOK
<1>8. ASSUME NEW p \in Relays, RelayStops(p) PROVE TypeOK'
  <2>1. relay[p].row \in Requests
    BY <1>8, RelayParts DEF RelayStops
  <2>2. faults' \in [Requests -> 0..MaxFaults]
    BY <1>8, <2>1, MaxFaultsAssumption DEF RelayStops, TypeOK
  <2> QED
    BY <1>8, <2>2 DEF RelayStops, TypeOK
<1>9. ASSUME NEW r \in Requests, BackoffEnds(r) PROVE TypeOK'
  BY <1>9 DEF BackoffEnds, TypeOK
<1>10. ASSUME NEW k \in Partitions, Poll(k) PROVE TypeOK'
  BY <1>10 DEF Poll, TypeOK
<1>11. ASSUME NEW k \in Partitions, Process(k) PROVE TypeOK'
  <2>1. Current(k) \in Requests /\ offset[k] + 1 \in Nat \ {0}
    BY <1>11, LogParts, NoPartitionAssumption DEF Process, ConsumerOK, Current, TypeOK
  <2>2. inbox' \subseteq Requests /\ dlq' \subseteq Partitions \X (Nat \ {0})
    BY <1>11, <2>1 DEF Process, Store, TypeOK
  <2> QED
    BY <1>11, <2>2 DEF Process, TypeOK
<1>12. ASSUME NEW k \in Partitions, Commit(k) PROVE TypeOK'
  <2>1. offset' \in [Partitions -> Nat]
    BY <1>12 DEF Commit, TypeOK
  <2> QED
    BY <1>12, <2>1 DEF Commit, TypeOK
<1>13. CASE ConsumerStops
  BY <1>13 DEF ConsumerStops, TypeOK
<1>14. CASE UNCHANGED vars
  BY <1>14 DEF vars, TypeOK
<1> QED
  BY <1>1, <1>2, <1>3, <1>4, <1>5, <1>6, <1>7, <1>8, <1>9, <1>10, <1>11, <1>12,
     <1>13, <1>14 DEF Next, RelayNext, ConsumerNext

LEMMA OutboxInductive == TypeOK /\ OutboxOK /\ [Next]_vars => OutboxOK'
<1> SUFFICES ASSUME TypeOK, OutboxOK, [Next]_vars PROVE OutboxOK'
  OBVIOUS
<1> USE DEF postVars, outboxVars, consumerVars
<1>1. ASSUME NEW url \in Urls, NEW f \in Feeds, SavePost(url, f) PROVE OutboxOK'
  <2>1. scraped \subseteq scraped' /\ \A s \in scraped' : s \in scraped \/ s[1] = url
    BY <1>1 DEF SavePost
  <2>2. \A s \in scraped' : Stored(s[1])'
    <3>1. \A s \in scraped : Stored(s[1])'
      BY <1>1, SavedRows DEF OutboxOK, Stored
    <3> QED
      BY <1>1, <2>1, <3>1, SavedRows
  <2>3. ASSUME NEW r \in Outbox'
        PROVE  \E g \in Feeds : <<r[1], g>> \in posts' /\ <<r[1], g, r[2]>> \in scraped'
    <3>1. CASE r \in Outbox
      BY <1>1, <2>1, <3>1, SavedRows DEF OutboxOK
    <3>2. CASE r \notin Outbox
      <4>1. ~Stored(url) /\ r[1] = url /\ <<url, f>> \in posts' /\ r[2] \in Followers(f)
        BY <1>1, <2>3, <3>2, SavedRows
      <4>2. ~\E s \in scraped : s[1] = url /\ s[2] = f
        BY <4>1 DEF OutboxOK
      <4>3. <<url, f, r[2]>> \in scraped'
        BY <1>1, <4>1, <4>2 DEF SavePost
      <4> QED
        BY <4>1, <4>3
    <3> QED
      BY <3>1, <3>2
  <2> QED
    BY <1>1, <2>2, <2>3, SavedRows DEF OutboxOK
<1>2. CASE UNCHANGED <<posts, scraped, created>>
  BY <1>2 DEF OutboxOK, Outbox, Stored
<1>3. (\E url \in Urls, f \in Feeds : SavePost(url, f)) \/ UNCHANGED <<posts, scraped, created>>
  BY DEF Next, RelayNext, ConsumerNext, vars, FollowFeed, SelectRow, Produce, ProduceFails,
         MarkPublished, ScheduleRetry, RelayStops, BackoffEnds, Poll, Process, Commit,
         ConsumerStops
<1> QED
  BY <1>1, <1>2, <1>3

LEMMA OutboxGrows == TypeOK /\ OutboxOK /\ [Next]_vars => Outbox \subseteq Outbox'
<1> SUFFICES ASSUME TypeOK, OutboxOK, [Next]_vars PROVE Outbox \subseteq Outbox'
  OBVIOUS
<1>1. (\E url \in Urls, f \in Feeds : SavePost(url, f)) \/ UNCHANGED created
  BY DEF Next, RelayNext, ConsumerNext, vars, outboxVars, FollowFeed, SelectRow, Produce,
         ProduceFails, MarkPublished, ScheduleRetry, RelayStops, BackoffEnds, Poll, Process,
         Commit, ConsumerStops
<1>2. CASE UNCHANGED created
  BY <1>2 DEF Outbox
<1> QED
  BY <1>1, <1>2, SavedRows

\* A relay that ends its transaction leaves the other rows as they are.
LEMMA RelayReleased ==
    ASSUME TypeOK, RelayOK, Outbox \subseteq Outbox', NEW p \in Relays, relay[p] # NoTx,
           relay' = [relay EXCEPT ![p] = NoTx],
           published' \union deferred' \subseteq published \union deferred \union {relay[p].row}
    PROVE  RelayOK'
<1>1. \A q \in Relays : relay'[q] # NoTx => q # p /\ relay'[q] = relay[q]
  BY DEF TypeOK
<1>2. \A q \in Relays : relay'[q] # NoTx => relay'[q].row # relay[p].row
  BY <1>1 DEF RelayOK
<1> QED
  BY <1>1, <1>2 DEF RelayOK

\* A relay that goes on with its transaction keeps its row.
LEMMA RelayContinues ==
    ASSUME TypeOK, RelayOK, Outbox \subseteq Outbox', NEW p \in Relays, relay[p] # NoTx,
           NEW outcome, relay' = [relay EXCEPT ![p].phase = outcome],
           UNCHANGED <<published, deferred>>
    PROVE  RelayOK'
<1>1. relay[p] \in Transactions
  BY DEF TypeOK
<1>2. \A q \in Relays : /\ relay'[q].row = relay[q].row
                        /\ relay'[q] # NoTx => relay[q] # NoTx
  BY <1>1 DEF TypeOK, Transactions
<1> QED
  BY <1>2 DEF RelayOK

LEMMA RelayInductive == TypeOK /\ OutboxOK /\ RelayOK /\ [Next]_vars => RelayOK'
<1> SUFFICES ASSUME TypeOK, OutboxOK, RelayOK, [Next]_vars PROVE RelayOK'
  OBVIOUS
<1> USE DEF postVars, outboxVars, consumerVars
<1>0. Outbox \subseteq Outbox'
  BY OutboxGrows
<1>1. ASSUME NEW p \in Relays, SelectRow(p) PROVE RelayOK'
  <2>1. PICK r \in Requests : /\ Eligible(r)
                              /\ relay' = [relay EXCEPT ![p] = [phase |-> "locked", row |-> r]]
    BY <1>1 DEF SelectRow
  <2>2. r \in Outbox /\ r \notin published \union deferred /\ r \notin Locked
    BY <2>1 DEF Eligible
  <2>3. \A q \in Relays : relay[q] # NoTx => relay[q].row # r
    BY <2>2, LockedRows
  <2>4. /\ relay'[p].row = r
        /\ \A q \in Relays : q # p => relay'[q] = relay[q]
    BY <2>1 DEF TypeOK
  <2>5. UNCHANGED <<published, deferred>>
    BY <1>1 DEF SelectRow
  <2>6. ASSUME NEW q \in Relays, relay'[q] # NoTx
        PROVE  relay'[q].row \in Outbox' /\ relay'[q].row \notin published' \union deferred'
    BY <1>0, <2>2, <2>4, <2>5, <2>6 DEF RelayOK
  <2>7. ASSUME NEW o \in Relays, NEW q \in Relays, relay'[o] # NoTx, relay'[q] # NoTx,
               relay'[o].row = relay'[q].row
        PROVE  o = q
    BY <2>3, <2>4, <2>7 DEF RelayOK
  <2> QED
    BY <2>6, <2>7 DEF RelayOK
<1>2. ASSUME NEW p \in Relays, Produce(p) PROVE RelayOK'
  BY <1>0, <1>2, RelayParts, RelayContinues DEF Produce
<1>3. ASSUME NEW p \in Relays, ProduceFails(p) PROVE RelayOK'
  BY <1>0, <1>3, RelayParts, RelayContinues DEF ProduceFails
<1>4. ASSUME NEW p \in Relays, MarkPublished(p) PROVE RelayOK'
  BY <1>0, <1>4, RelayParts, RelayReleased DEF MarkPublished
<1>5. ASSUME NEW p \in Relays, ScheduleRetry(p) PROVE RelayOK'
  BY <1>0, <1>5, RelayParts, RelayReleased DEF ScheduleRetry
<1>6. ASSUME NEW p \in Relays, RelayStops(p) PROVE RelayOK'
  BY <1>0, <1>6, RelayReleased DEF RelayStops
<1>7. CASE UNCHANGED <<relay, published>> /\ deferred' \subseteq deferred
  BY <1>0, <1>7 DEF RelayOK
<1>8. \/ \E p \in Relays : RelayNext(p)
      \/ UNCHANGED <<relay, published>> /\ deferred' \subseteq deferred
  BY DEF Next, ConsumerNext, vars, FollowFeed, SavePost, BackoffEnds, Poll, Process, Commit,
         ConsumerStops
<1> QED
  BY <1>1, <1>2, <1>3, <1>4, <1>5, <1>6, <1>7, <1>8 DEF RelayNext

\* Which steps write to the log, and what they write: a row of the outbox.
LEMMA LogSteps ==
    ASSUME TypeOK, RelayOK, [Next]_vars
    PROVE  \/ UNCHANGED log
           \/ /\ \E r \in Outbox : AppendRecord(r)
              /\ UNCHANGED <<created, consumerVars>>
<1>1. ASSUME NEW p \in Relays, Produce(p) \/ ProduceFails(p)
      PROVE  \/ UNCHANGED log
             \/ /\ \E r \in Outbox : AppendRecord(r)
                /\ UNCHANGED <<created, consumerVars>>
  <2>1. relay[p].row \in Outbox
    BY <1>1, RelayParts DEF Produce, ProduceFails, RelayOK
  <2> QED
    BY <1>1, <2>1 DEF Produce, ProduceFails, outboxVars
<1>2. (\E p \in Relays : Produce(p) \/ ProduceFails(p)) \/ UNCHANGED log
  BY DEF Next, RelayNext, ConsumerNext, vars, FollowFeed, SavePost, SelectRow,
         MarkPublished, ScheduleRetry, RelayStops, BackoffEnds, Poll, Process, Commit,
         ConsumerStops
<1> QED
  BY <1>1, <1>2

LEMMA RecordsInductive ==
    TypeOK /\ OutboxOK /\ RelayOK /\ RecordsOK /\ [Next]_vars => RecordsOK'
<1> SUFFICES ASSUME TypeOK, OutboxOK, RelayOK, RecordsOK, [Next]_vars PROVE RecordsOK'
  OBVIOUS
<1>1. Outbox \subseteq Outbox'
  BY OutboxGrows
<1>2. CASE UNCHANGED log
  BY <1>1, <1>2 DEF RecordsOK, Partition
<1>3. ASSUME NEW r \in Outbox, AppendRecord(r) PROVE RecordsOK'
  <2>1. r \in Requests
    BY DEF Outbox
  <2>2. ASSUME NEW k \in Partitions, NEW i \in 1..Len(log'[k])
        PROVE  log'[k][i] \in Outbox' /\ Partition(log'[k][i]) = k
    <3>1. CASE i \in 1..Len(log[k])
      BY <1>1, <1>3, <2>1, <3>1, AppendedLog DEF RecordsOK
    <3>2. CASE i \notin 1..Len(log[k])
      <4>1. k = Partition(r) /\ i = Len(log[k]) + 1
        BY <1>3, <2>1, <2>2, <3>2, AppendedLog, LogParts
      <4> QED
        BY <1>1, <1>3, <2>1, <4>1, AppendedLog
    <3> QED
      BY <3>1, <3>2
  <2> QED
    BY <2>2 DEF RecordsOK, Partition
<1> QED
  BY <1>2, <1>3, LogSteps

\* A relay whose row is not settled: it alone has the row, and has not been acknowledged.
LEMMA LockedIsUnsettled ==
    ASSUME TypeOK, RelayOK, NEW p \in Relays, relay[p].phase \in {"locked", "failed"}
    PROVE  ~Settled(relay[p].row)
<1>1. relay[p] # NoTx
  BY DEF NoTx
<1>2. ASSUME NEW q \in Relays, relay[q].phase = "acked", relay[q].row = relay[p].row
      PROVE  FALSE
  <2>1. relay[q] # NoTx
    BY <1>2 DEF NoTx
  <2> QED
    BY <1>1, <1>2, <2>1 DEF RelayOK
<1> QED
  BY <1>1, <1>2 DEF Settled, Acked, RelayOK

\* Which requests are acknowledged after relay p has moved on.
LEMMA AckedMoves ==
    ASSUME TypeOK, NEW p \in Relays, NEW q \in Requests,
           \A o \in Relays \ {p} : relay'[o] = relay[o]
    PROVE  Acked(q)' <=> \/ \E o \in Relays \ {p} : relay[o].phase = "acked" /\ relay[o].row = q
                         \/ relay'[p].phase = "acked" /\ relay'[p].row = q
BY DEF Acked

\* The step counts right for request q when its records and what accounts for
\* them stay, or grow together.
LEMMA CountKept ==
    ASSUME TypeOK, CopiesOK, TypeOK', NEW q \in Requests, Copies(q)' = Copies(q),
           \/ Settled(q)' = Settled(q) /\ faults'[q] = faults[q]
           \/ Settled(q) /\ faults'[q] = faults[q] + 1
    PROVE  /\ Settled(q)' => Copies(q)' # {}
           /\ Cardinality(Copies(q)') <= faults'[q] + (IF Settled(q)' THEN 1 ELSE 0)
<1>1. faults[q] \in Nat /\ faults'[q] \in Nat
  BY MaxFaultsAssumption DEF TypeOK
<1>2. Cardinality(Copies(q)) \in Nat
  BY CopiesAreFinite
<1>3. /\ Settled(q) => Copies(q) # {}
      /\ Cardinality(Copies(q)) <= faults[q] + (IF Settled(q) THEN 1 ELSE 0)
  BY DEF CopiesOK
<1> QED
  BY <1>1, <1>2, <1>3

\* ... and when a record of an unsettled row comes with the acknowledgement or
\* with a fault.
LEMMA CountGrown ==
    ASSUME TypeOK, CopiesOK, NEW r \in Requests, AppendRecord(r), ~Settled(r),
           \/ Settled(r)' /\ faults'[r] = faults[r]
           \/ ~Settled(r)' /\ faults'[r] = faults[r] + 1
    PROVE  /\ Copies(r)' # {}
           /\ Cardinality(Copies(r)') <= faults'[r] + (IF Settled(r)' THEN 1 ELSE 0)
<1> DEFINE n == Len(log[Partition(r)]) + 1
<1>1. n \notin Copies(r)
  BY RequestParts, LogParts DEF Copies
<1>2. Copies(r)' = Copies(r) \union {n}
  BY AppendedCopies
<1>3. /\ IsFiniteSet(Copies(r)) /\ Cardinality(Copies(r)) \in Nat
      /\ Cardinality(Copies(r)') = Cardinality(Copies(r)) + 1
  BY <1>1, <1>2, CopiesAreFinite, FS_AddElement
<1>4. faults[r] \in Nat
  BY MaxFaultsAssumption DEF TypeOK
<1>5. Cardinality(Copies(r)) <= faults[r]
  BY <1>3, <1>4 DEF CopiesOK
<1> QED
  BY <1>2, <1>3, <1>4, <1>5

LEMMA CopiesInductive ==
    TypeOK /\ TypeOK' /\ RelayOK /\ CopiesOK /\ [Next]_vars => CopiesOK'
<1> SUFFICES ASSUME TypeOK, TypeOK', RelayOK, CopiesOK, [Next]_vars,
                    NEW q \in Requests
             PROVE  /\ Settled(q)' => Copies(q)' # {}
                    /\ Cardinality(Copies(q)') <= faults'[q] + (IF Settled(q)' THEN 1 ELSE 0)
  BY DEF CopiesOK
<1> DEFINE Counted == /\ Settled(q)' => Copies(q)' # {}
                      /\ Cardinality(Copies(q)') <= faults'[q] + (IF Settled(q)' THEN 1 ELSE 0)
<1>0. \A p \in Relays : relay[p].phase = "idle" <=> relay[p] = NoTx
  BY RelayParts
<1>1. ASSUME NEW p \in Relays, SelectRow(p) PROVE Counted
  <2>1. \A o \in Relays \ {p} : relay'[o] = relay[o]
    BY <1>1 DEF SelectRow, TypeOK
  <2>2. relay[p].phase # "acked" /\ relay'[p].phase # "acked"
    BY <1>1 DEF SelectRow, TypeOK, NoTx
  <2>3. Settled(q)' = Settled(q)
    BY <1>1, <2>1, <2>2, AckedMoves DEF SelectRow, outboxVars, Settled, Acked
  <2> QED
    BY <1>1, <2>3, CountKept DEF SelectRow, Copies
<1>2. ASSUME NEW p \in Relays, Produce(p) PROVE Counted
  <2>1. \A o \in Relays \ {p} : relay'[o] = relay[o]
    BY <1>2 DEF Produce, TypeOK
  <2>2. /\ relay[p] \in Transactions /\ relay[p].row \in Requests
        /\ relay[p].phase = "locked"
    BY <1>2, RelayParts DEF Produce, NoTx
  <2>3. relay'[p].phase = "acked" /\ relay'[p].row = relay[p].row
    BY <1>2, <2>2 DEF Produce, TypeOK, Transactions
  <2>4. AppendRecord(relay[p].row) /\ UNCHANGED <<faults, published>>
    BY <1>2 DEF Produce, outboxVars
  <2>5. CASE q = relay[p].row
    <3>1. ~Settled(q) /\ Settled(q)'
      BY <2>2, <2>3, <2>5, LockedIsUnsettled DEF Settled, Acked
    <3> QED
      BY <2>4, <2>5, <3>1, CountGrown
  <2>6. CASE q # relay[p].row
    <3>1. Settled(q)' = Settled(q)
      BY <2>1, <2>2, <2>3, <2>4, <2>6, AckedMoves DEF Settled, Acked
    <3>2. Copies(q)' = Copies(q)
      BY <2>2, <2>4, <2>6, AppendedCopies
    <3> QED
      BY <2>4, <3>1, <3>2, CountKept
  <2> QED
    BY <2>5, <2>6
<1>3. ASSUME NEW p \in Relays, ProduceFails(p) PROVE Counted
  <2>1. \A o \in Relays \ {p} : relay'[o] = relay[o]
    BY <1>3 DEF ProduceFails, TypeOK
  <2>2. /\ relay[p].row \in Requests
        /\ relay[p].phase = "locked" /\ relay'[p].phase = "failed"
    BY <1>3, RelayParts DEF ProduceFails, NoTx, TypeOK, Transactions
  <2>3. Settled(q)' = Settled(q)
    BY <1>3, <2>1, <2>2, AckedMoves DEF ProduceFails, outboxVars, Settled, Acked
  <2>4. CASE UNCHANGED <<log, faults>>
    BY <2>3, <2>4, CountKept DEF Copies
  <2>5. CASE /\ AppendRecord(relay[p].row)
             /\ faults' = [faults EXCEPT ![relay[p].row] = @ + 1]
    <3>1. CASE q = relay[p].row
      <4>1. faults'[q] = faults[q] + 1
        BY <2>5, <3>1 DEF TypeOK
      <4>2. ~Settled(q)
        BY <2>2, <3>1, LockedIsUnsettled
      <4> QED
        BY <2>3, <2>5, <3>1, <4>1, <4>2, CountGrown
    <3>2. CASE q # relay[p].row
      <4>1. faults'[q] = faults[q]
        BY <2>5, <3>2 DEF TypeOK
      <4>2. Copies(q)' = Copies(q)
        BY <2>2, <2>5, <3>2, AppendedCopies
      <4> QED
        BY <2>3, <4>1, <4>2, CountKept
    <3> QED
      BY <3>1, <3>2
  <2> QED
    BY <1>3, <2>4, <2>5 DEF ProduceFails
<1>4. ASSUME NEW p \in Relays, MarkPublished(p) PROVE Counted
  <2>1. /\ \A o \in Relays \ {p} : relay'[o] = relay[o]
        /\ relay[p].phase = "acked" /\ relay'[p].phase # "acked"
    BY <1>4 DEF MarkPublished, TypeOK, NoTx
  <2>2. Settled(q)' = Settled(q)
    BY <1>4, <2>1, AckedMoves DEF MarkPublished, Settled, Acked
  <2> QED
    BY <1>4, <2>2, CountKept DEF MarkPublished, Copies
<1>5. ASSUME NEW p \in Relays, ScheduleRetry(p) PROVE Counted
  <2>1. /\ \A o \in Relays \ {p} : relay'[o] = relay[o]
        /\ relay[p].phase # "acked" /\ relay'[p].phase # "acked"
    BY <1>5 DEF ScheduleRetry, TypeOK, NoTx
  <2>2. Settled(q)' = Settled(q)
    BY <1>5, <2>1, AckedMoves DEF ScheduleRetry, Settled, Acked
  <2> QED
    BY <1>5, <2>2, CountKept DEF ScheduleRetry, Copies
<1>6. ASSUME NEW p \in Relays, RelayStops(p) PROVE Counted
  <2>1. /\ \A o \in Relays \ {p} : relay'[o] = relay[o]
        /\ relay'[p].phase # "acked"
        /\ UNCHANGED <<log, published>>
    BY <1>6 DEF RelayStops, TypeOK, NoTx, outboxVars
  <2>2. relay[p].row \in Requests
    BY <1>6, RelayParts DEF RelayStops
  <2>3. CASE relay[p].phase = "acked" /\ q = relay[p].row
    <3>1. Settled(q)
      BY <2>3 DEF Settled, Acked
    <3>2. faults'[q] = faults[q] + 1
      BY <1>6, <2>3 DEF RelayStops, TypeOK
    <3> QED
      BY <2>1, <3>1, <3>2, CountKept DEF Copies
  <2>4. CASE ~(relay[p].phase = "acked" /\ q = relay[p].row)
    <3>1. Settled(q)' = Settled(q)
      BY <2>1, <2>4, AckedMoves DEF Settled, Acked
    <3>2. faults'[q] = faults[q]
      BY <1>6, <2>4 DEF RelayStops, TypeOK
    <3> QED
      BY <2>1, <3>1, <3>2, CountKept DEF Copies
  <2> QED
    BY <2>3, <2>4
<1>7. CASE UNCHANGED <<relay, published, log, faults>>
  BY <1>7, CountKept DEF Settled, Acked, Copies
<1>8. (\E p \in Relays : RelayNext(p)) \/ UNCHANGED <<relay, published, log, faults>>
  BY DEF Next, ConsumerNext, vars, postVars, outboxVars, consumerVars, FollowFeed, SavePost,
         BackoffEnds, Poll, Process, Commit, ConsumerStops
<1> QED
  BY <1>1, <1>2, <1>3, <1>4, <1>5, <1>6, <1>7, <1>8 DEF RelayNext

LEMMA ConsumerInductive ==
    TypeOK /\ OutboxOK /\ RelayOK /\ RecordsOK /\ ConsumerOK /\ [Next]_vars => ConsumerOK'
<1> SUFFICES ASSUME TypeOK, OutboxOK, RelayOK, RecordsOK, ConsumerOK, [Next]_vars
             PROVE  ConsumerOK'
  OBVIOUS
<1>0. /\ Outbox \subseteq Outbox'
      /\ \A k \in Partitions : Len(log[k]) \in Nat /\ offset[k] \in Nat
  BY OutboxGrows, LogParts DEF TypeOK
<1>1. ASSUME NEW r \in Outbox, AppendRecord(r), UNCHANGED <<created, consumerVars>>
      PROVE  ConsumerOK'
  <2>1. \A k \in Partitions : /\ Len(log'[k]) >= Len(log[k]) /\ Len(log'[k]) \in Nat
                              /\ \A i \in 1..Len(log[k]) : log'[k][i] = log[k][i]
    BY <1>0, <1>1, AppendedLog DEF Outbox
  <2>2. \A k \in Partitions, i \in Nat : i \in 1..Len(log[k]) /\ IsHandled(k, i) => IsHandled(k, i)'
    BY <1>1, <2>1 DEF IsHandled, consumerVars
  <2>3. \A k \in Partitions : offset'[k] <= Len(log'[k])
    BY <1>0, <1>1, <2>1 DEF ConsumerOK, consumerVars
  <2>4. \A k \in Partitions : \A i \in 1..offset'[k] : IsHandled(k, i)'
    <3>1. \A k \in Partitions : \A i \in 1..offset[k] : i \in 1..Len(log[k])
      BY <1>0 DEF ConsumerOK
    <3> QED
      BY <1>0, <1>1, <2>2, <3>1 DEF ConsumerOK, consumerVars
  <2>5. ASSUME inHand # NoPartition
        PROVE  /\ offset[inHand] < Len(log'[inHand])
               /\ handled => IsHandled(inHand, offset[inHand] + 1)'
    <3>1. inHand \in Partitions /\ offset[inHand] < Len(log[inHand])
      BY <2>5 DEF ConsumerOK, TypeOK
    <3>2. offset[inHand] + 1 \in 1..Len(log[inHand])
      BY <1>0, <3>1
    <3>3. offset[inHand] < Len(log'[inHand])
      BY <1>0, <2>1, <3>1
    <3>4. handled => IsHandled(inHand, offset[inHand] + 1)
      BY <2>5 DEF ConsumerOK
    <3>5. log'[inHand][offset[inHand] + 1] = log[inHand][offset[inHand] + 1]
      BY <2>1, <3>1, <3>2
    <3>6. UNCHANGED <<inHand, offset, inbox, dlq>>
      BY <1>1 DEF consumerVars
    <3> QED
      BY <3>3, <3>4, <3>5, <3>6 DEF IsHandled
  <2> QED
    BY <1>0, <1>1, <2>3, <2>4, <2>5 DEF ConsumerOK, consumerVars, IsHandled
<1>2. ASSUME NEW k \in Partitions, Poll(k) PROVE ConsumerOK'
  BY <1>0, <1>2 DEF Poll, ConsumerOK, IsHandled
<1>3. ASSUME NEW k \in Partitions, Process(k) PROVE ConsumerOK'
  <2>1. inHand = k /\ offset[k] < Len(log[k])
    BY <1>3, NoPartitionAssumption DEF Process, ConsumerOK
  <2>2. Current(k) \in Outbox
    BY <1>0, <2>1 DEF Current, RecordsOK
  <2>3. inbox \subseteq inbox' /\ dlq \subseteq dlq'
    BY <1>3 DEF Process, Store
  <2>4. UNCHANGED <<log, offset, inHand>>
    BY <1>3 DEF Process
  <2>5. \A j \in Partitions : \A i \in 1..offset[j] : IsHandled(j, i)'
    BY <2>3, <2>4 DEF IsHandled, ConsumerOK
  <2>6. IsHandled(k, offset[k] + 1)'
    BY <1>3, <2>4 DEF IsHandled, Process, Store, Current
  <2>7. inbox' \subseteq Outbox' /\ \A r \in inbox' : r[1] \in Acceptable
    BY <1>0, <1>3, <2>2 DEF Process, Store, ConsumerOK
  <2> QED
    BY <2>1, <2>4, <2>5, <2>6, <2>7 DEF ConsumerOK, IsHandled
<1>4. ASSUME NEW k \in Partitions, Commit(k) PROVE ConsumerOK'
  <2>1. /\ offset[k] < Len(log[k]) /\ IsHandled(k, offset[k] + 1)
        /\ offset' = [offset EXCEPT ![k] = offset[k] + 1]
        /\ UNCHANGED <<log, inbox, dlq>> /\ inHand' = NoPartition
    BY <1>4, NoPartitionAssumption DEF Commit, ConsumerOK
  <2>2. ASSUME NEW j \in Partitions
        PROVE  /\ offset'[j] <= Len(log[j])
               /\ \A i \in 1..offset'[j] : IsHandled(j, i)
    <3>1. CASE j = k
      <4>1. offset'[j] = offset[k] + 1
        BY <2>1, <3>1 DEF TypeOK
      <4>2. \A i \in 1..(offset[k] + 1) : i \in 1..offset[k] \/ i = offset[k] + 1
        BY <1>0
      <4> QED
        BY <1>0, <2>1, <3>1, <4>1, <4>2 DEF ConsumerOK
    <3>2. CASE j # k
      BY <2>1, <3>2 DEF ConsumerOK, TypeOK
    <3> QED
      BY <3>1, <3>2
  <2> QED
    BY <1>0, <2>1, <2>2 DEF ConsumerOK, IsHandled
<1>5. CASE ConsumerStops
  BY <1>0, <1>5 DEF ConsumerStops, ConsumerOK, IsHandled
<1>6. CASE UNCHANGED <<log, consumerVars>>
  BY <1>0, <1>6 DEF ConsumerOK, IsHandled, consumerVars
<1>7. \/ ConsumerNext \/ ConsumerStops \/ UNCHANGED <<log, consumerVars>>
      \/ \E r \in Outbox : AppendRecord(r) /\ UNCHANGED <<created, consumerVars>>
  <2>1. ConsumerNext \/ ConsumerStops \/ UNCHANGED consumerVars
    BY DEF Next, RelayNext, vars, FollowFeed, SavePost, SelectRow, Produce, ProduceFails,
           MarkPublished, ScheduleRetry, RelayStops, BackoffEnds
  <2> QED
    BY <2>1, LogSteps
<1> QED
  BY <1>1, <1>2, <1>3, <1>4, <1>5, <1>6, <1>7 DEF ConsumerNext

-----------------------------------------------------------------------------
(* The theorems.                                                           *)

LEMMA IInvInductive == IInv /\ [Next]_vars => IInv'
BY TypeInductive, OutboxInductive, RelayInductive, RecordsInductive, CopiesInductive,
   ConsumerInductive DEF IInv

LEMMA InvariantHolds == Spec => []IInv
<1> QED
  BY InitIInv, IInvInductive, PTL DEF Spec

\* The tables, the transactions of the relays, the log and the consumer's
\* position have the values the schema and the code allow.
THEOREM TypeCorrect == Spec => []TypeOK
<1>1. IInv => TypeOK
  BY DEF IInv
<1> QED
  BY <1>1, InvariantHolds, PTL

\* Consume commits an offset only after Process has accepted or put aside the
\* record, whenever it stops and starts again.
THEOREM CommittedIsHandledTheorem == Spec => []CommittedIsHandled
<1>1. IInv => CommittedIsHandled
  <2> SUFFICES ASSUME IInv, NEW k \in Partitions, NEW i \in 1..offset[k]
               PROVE  i \in DOMAIN log[k] /\ (log[k][i] \in inbox \/ <<k, i>> \in dlq)
    BY DEF CommittedIsHandled
  <2>1. offset[k] \in Nat /\ offset[k] <= Len(log[k])
    BY DEF IInv, TypeOK, ConsumerOK
  <2>2. i \in DOMAIN log[k]
    BY <2>1, LogParts DEF IInv
  <2> QED
    BY <2>2 DEF IInv, ConsumerOK, IsHandled
<1> QED
  BY <1>1, InvariantHolds, PTL

\* A published row has a record, and a record the consumer has passed is in the
\* inbox or among the dead letters: SavePost's row survives every stop of a
\* relay or of the consumer.
THEOREM NoRequestLostTheorem == Spec => []NoRequestLost
<1>1. IInv => NoRequestLost
  <2> SUFFICES ASSUME IInv, NEW r \in Outbox, r \in published
               PROVE  \/ \E i \in Copies(r) : i > offset[Partition(r)]
                      \/ r \in inbox
                      \/ \E i \in Copies(r) : <<Partition(r), i>> \in dlq
    BY DEF NoRequestLost
  <2>1. r \in Requests /\ Partition(r) \in Partitions
    BY RequestParts DEF Outbox
  <2>2. PICK i \in Copies(r) : TRUE
    BY <2>1 DEF IInv, CopiesOK, Settled
  <2>3. i \in Nat \ {0} /\ log[Partition(r)][i] = r
    BY <2>1, <2>2, LogParts DEF Copies, IInv
  <2>4. CASE i > offset[Partition(r)]
    BY <2>2, <2>4
  <2>5. CASE ~(i > offset[Partition(r)])
    <3>1. i \in 1..offset[Partition(r)]
      BY <2>1, <2>3, <2>5 DEF IInv, TypeOK
    <3> QED
      BY <2>1, <2>2, <2>3, <3>1 DEF IInv, ConsumerOK, IsHandled
  <2> QED
    BY <2>4, <2>5
<1> QED
  BY <1>1, InvariantHolds, PTL

\* FOR UPDATE SKIP LOCKED and the mark in the same transaction: any number of
\* relays write a row once, and once more for each disturbed production.
THEOREM DuplicatesNeedFaultsTheorem == Spec => []DuplicatesNeedFaults
<1>1. IInv => DuplicatesNeedFaults
  <2> SUFFICES ASSUME IInv, NEW r \in Requests PROVE Cardinality(Copies(r)) <= 1 + faults[r]
    BY DEF DuplicatesNeedFaults
  <2>1. Cardinality(Copies(r)) \in Nat /\ faults[r] \in Nat
    BY CopiesAreFinite, MaxFaultsAssumption DEF IInv, TypeOK
  <2>2. Cardinality(Copies(r)) <= faults[r] + (IF Settled(r) THEN 1 ELSE 0)
    BY DEF IInv, CopiesOK
  <2> QED
    BY <2>1, <2>2
<1> QED
  BY <1>1, InvariantHolds, PTL

\* What the consumer accepts was written by SavePost for a follower of the feed
\* whose item became the post.
THEOREM InboxIsIntendedTheorem == Spec => []InboxIsIntended
<1>1. IInv => InboxIsIntended
  BY DEF IInv, ConsumerOK, OutboxOK, InboxIsIntended
<1> QED
  BY <1>1, InvariantHolds, PTL

=============================================================================
