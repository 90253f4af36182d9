---------------------------- MODULE RequestIntake ----------------------------
(***************************************************************************)
(* The way of a notification request from a new post to the inbox of the   *)
(* notification service: SavePost writes one outbox row per follower, the  *)
(* requests relay publishes the rows to Kafka, the consumer accepts them   *)
(* into the inbox or puts them aside in the dead letter topic.  Relays and *)
(* the consumer stop between any two steps and start again.                *)
(*                                                                         *)
(* A request is the pair of its post and its user: the unique index on     *)
(* (aggregate_id, partition_key) makes it one outbox row with one event_id.*)
(***************************************************************************)
EXTENDS Integers, Sequences, FiniteSets

CONSTANTS
    Urls,         \* url column of posts: the identity of an item
    Feeds,
    Users,
    Partitions,   \* of the requests topic
    PartitionOf,  \* the partition of a record key, which is the user
    Acceptable,   \* urls whose requests DecodeRequested takes
    Relays,       \* relay processes of source "requests"
    MaxFaults     \* bound: records that can be produced twice, per row

ASSUME PartitionAssumption == PartitionOf \in [Users -> Partitions]
ASSUME AcceptableAssumption == Acceptable \subseteq Urls
ASSUME MaxFaultsAssumption == MaxFaults \in Nat

Requests == Urls \X Users
Partition(r) == PartitionOf[r[2]]

NoRow == <<>>
NoPartition == "none"

ASSUME NoPartitionAssumption == NoPartition \notin Partitions

VARIABLES
    follows,    \* feed_follows: <<user, feed>> pairs
    posts,      \* posts: <<url, feed>> pairs
    scraped,    \* history: <<url, feed, user>>, a follower when the feed first had it
    created,    \* outbox_events.created_at as a rank, 0: no row
    deferred,   \* rows whose available_at lies in the future
    published,  \* rows with published_at set
    relay,      \* per relay: the row it has locked and how Publish ended
    log,        \* the records of each partition of the requests topic
    faults,     \* per row: productions that were not followed by the mark
    offset,     \* committed offset of the consumer group, per partition
    inHand,     \* partition of the record the consumer works on
    handled,    \* Process has returned nil for it
    inbox,      \* notification_inbox
    dlq         \* <<partition, offset>> of records put aside, by publishInvalid

postVars == <<follows, posts, scraped>>
outboxVars == <<created, deferred, published>>
consumerVars == <<offset, inHand, handled, inbox, dlq>>
vars == <<postVars, outboxVars, relay, log, faults, consumerVars>>

Outbox == {r \in Requests : created[r] > 0}
NoTx == [phase |-> "idle", row |-> NoRow]
Transactions == [phase : {"locked", "acked", "failed"}, row : Requests]
Locked == {relay[p].row : p \in Relays} \ {NoRow}

\* Positions of the log of r's partition that hold r.
Copies(r) == {k \in DOMAIN log[Partition(r)] : log[Partition(r)][k] = r}

Init ==
    /\ follows = {}
    /\ posts = {}
    /\ scraped = {}
    /\ created = [r \in Requests |-> 0]
    /\ deferred = {}
    /\ published = {}
    /\ relay = [p \in Relays |-> NoTx]
    /\ log = [k \in Partitions |-> <<>>]
    /\ faults = [r \in Requests |-> 0]
    /\ offset = [k \in Partitions |-> 0]
    /\ inHand = NoPartition
    /\ handled = FALSE
    /\ inbox = {}
    /\ dlq = {}

-----------------------------------------------------------------------------
(* The monolith.                                                           *)

FollowFeed(u, f) ==
    /\ <<u, f>> \notin follows
    /\ follows' = follows \union {<<u, f>>}
    /\ UNCHANGED <<posts, scraped, outboxVars, relay, log, faults, consumerVars>>

Followers(f) == {u \in Users : <<u, f>> \in follows}
Stored(url) == \E f \in Feeds : <<url, f>> \in posts

\* All rows of a post share its now, which is read before the statement runs:
\* a post stored later by another goroutine can have an earlier one.
Ranks == 1..(1 + Cardinality(posts))

\* Mutant: a row for every user, feed_follows is not joined.
EveryUser(f) == Users

Recipients(f) == Followers(f)

\* One statement: the post, unless a post with this url exists, and a row for
\* every follower of its feed.
SavePost(url, f) ==
    /\ scraped' = scraped \union
          IF \E s \in scraped : s[1] = url /\ s[2] = f THEN {}
          ELSE {<<url, f, u>> : u \in Followers(f)}
    /\ posts' = IF Stored(url) THEN posts ELSE posts \union {<<url, f>>}
    /\ \E now \in Ranks :
          created' = [r \in Requests |->
             IF ~Stored(url) /\ r[1] = url /\ r[2] \in Recipients(f) THEN now ELSE created[r]]
    /\ UNCHANGED <<follows, deferred, published, relay, log, faults, consumerVars>>

-----------------------------------------------------------------------------
(* The requests relay, PublishOne: the row stays locked from the SELECT to *)
(* the end of the transaction.                                             *)

\* Mutant: FOR UPDATE without SKIP LOCKED on a plain read.
EligibleLocked(r) == r \in Outbox \ (published \union deferred)

Eligible(r) == r \in Outbox \ (published \union deferred \union Locked)

\* ORDER BY created_at, id LIMIT 1: ids of one post are in random order.
SelectRow(p) ==
    /\ relay[p] = NoTx
    /\ \E r \in Requests :
          /\ Eligible(r)
          /\ \A other \in Requests : Eligible(other) => created[r] <= created[other]
          /\ relay' = [relay EXCEPT ![p] = [phase |-> "locked", row |-> r]]
    /\ UNCHANGED <<postVars, outboxVars, log, faults, consumerVars>>

\* Mutant: the record carries its key in the place of the payload.
AppendKey(r) == log' = [log EXCEPT ![Partition(r)] = Append(@, r[2])]

AppendRecord(r) == log' = [log EXCEPT ![Partition(r)] = Append(@, r)]

\* ProduceSync acknowledged by all replicas.
Produce(p) ==
    /\ relay[p].phase = "locked"
    /\ AppendRecord(relay[p].row)
    /\ relay' = [relay EXCEPT ![p].phase = "acked"]
    /\ UNCHANGED <<postVars, outboxVars, faults, consumerVars>>

\* An error or the 20 second timeout; the record may be in the log all the same.
ProduceFails(p) ==
    /\ relay[p].phase = "locked"
    /\ relay' = [relay EXCEPT ![p].phase = "failed"]
    /\ \/ UNCHANGED <<log, faults>>
       \/ /\ faults[relay[p].row] < MaxFaults
          /\ AppendRecord(relay[p].row)
          /\ faults' = [faults EXCEPT ![relay[p].row] = @ + 1]
    /\ UNCHANGED <<postVars, outboxVars, consumerVars>>

\* Mutant: the row is marked whether or not the broker acknowledged it.
MarkAnyway(p) ==
    /\ relay[p].phase \in {"acked", "failed"}
    /\ published' = published \union {relay[p].row}
    /\ relay' = [relay EXCEPT ![p] = NoTx]
    /\ UNCHANGED <<postVars, created, deferred, log, faults, consumerVars>>

MarkPublished(p) ==
    /\ relay[p].phase = "acked"
    /\ published' = published \union {relay[p].row}
    /\ relay' = [relay EXCEPT ![p] = NoTx]
    /\ UNCHANGED <<postVars, created, deferred, log, faults, consumerVars>>

\* Mutant: a row that could not be published is given up.
GiveUp(p) ==
    /\ relay[p].phase = "failed"
    /\ published' = published \union {relay[p].row}
    /\ relay' = [relay EXCEPT ![p] = NoTx]
    /\ UNCHANGED <<postVars, created, deferred, log, faults, consumerVars>>

\* available_at moves on by 1, 2, 4 ... 64 seconds and the transaction commits.
ScheduleRetry(p) ==
    /\ relay[p].phase = "failed"
    /\ deferred' = deferred \union {relay[p].row}
    /\ relay' = [relay EXCEPT ![p] = NoTx]
    /\ UNCHANGED <<postVars, created, published, log, faults, consumerVars>>

BackoffEnds(r) ==
    /\ r \in deferred
    /\ deferred' = deferred \ {r}
    /\ UNCHANGED <<postVars, created, published, relay, log, faults, consumerVars>>

\* The process dies, or the UPDATE or the commit fails: rollback.
RelayStops(p) ==
    /\ relay[p] # NoTx
    /\ IF relay[p].phase = "acked"
         THEN /\ faults[relay[p].row] < MaxFaults
              /\ faults' = [faults EXCEPT ![relay[p].row] = @ + 1]
         ELSE UNCHANGED faults
    /\ relay' = [relay EXCEPT ![p] = NoTx]
    /\ UNCHANGED <<postVars, outboxVars, log, consumerVars>>

-----------------------------------------------------------------------------
(* The consumer: one record at a time, its offset committed after Process. *)

Poll(k) ==
    /\ inHand = NoPartition
    /\ offset[k] < Len(log[k])
    /\ inHand' = k
    /\ handled' = FALSE
    /\ UNCHANGED <<postVars, outboxVars, relay, log, faults, offset, inbox, dlq>>

Current(k) == log[k][offset[k] + 1]

\* A duplicate finds its event_id in the inbox and changes nothing.  The id of
\* a dead letter is made of partition and offset, so it repeats itself.
Store(k) == IF Current(k)[1] \in Acceptable
              THEN inbox' = inbox \union {Current(k)} /\ UNCHANGED dlq
              ELSE dlq' = dlq \union {<<k, offset[k] + 1>>} /\ UNCHANGED inbox

Process(k) ==
    /\ inHand = k
    /\ ~handled
    /\ Store(k)
    /\ handled' = TRUE
    /\ UNCHANGED <<postVars, outboxVars, relay, log, faults, offset, inHand>>

\* Mutant: the offset is committed before the record is processed.
CommitPolled(k) ==
    /\ inHand = k
    /\ offset' = [offset EXCEPT ![k] = @ + 1]
    /\ inHand' = NoPartition
    /\ handled' = FALSE
    /\ UNCHANGED <<postVars, outboxVars, relay, log, faults, inbox, dlq>>

Commit(k) ==
    /\ inHand = k
    /\ handled
    /\ offset' = [offset EXCEPT ![k] = @ + 1]
    /\ inHand' = NoPartition
    /\ handled' = FALSE
    /\ UNCHANGED <<postVars, outboxVars, relay, log, faults, inbox, dlq>>

\* Run returns an error or the process dies; the next one starts at the
\* committed offsets.
ConsumerStops ==
    /\ inHand # NoPartition
    /\ inHand' = NoPartition
    /\ handled' = FALSE
    /\ UNCHANGED <<postVars, outboxVars, relay, log, faults, offset, inbox, dlq>>

-----------------------------------------------------------------------------

RelayNext(p) ==
    \/ SelectRow(p) \/ Produce(p) \/ ProduceFails(p)
    \/ MarkPublished(p) \/ ScheduleRetry(p) \/ RelayStops(p)

ConsumerNext == \E k \in Partitions : Poll(k) \/ Process(k) \/ Commit(k)

Next ==
    \/ \E u \in Users, f \in Feeds : FollowFeed(u, f)
    \/ \E url \in Urls, f \in Feeds : SavePost(url, f)
    \/ \E p \in Relays : RelayNext(p)
    \/ \E r \in Requests : BackoffEnds(r)
    \/ ConsumerNext
    \/ ConsumerStops

Spec == Init /\ [][Next]_vars

(***************************************************************************)
(* Both services are restarted when they stop and their loops run for      *)
(* ever; a row whose publication is tried again and again is published,    *)
(* and a record that is polled again and again is committed one day.       *)
(***************************************************************************)
Fairness ==
    /\ \A p \in Relays :
          /\ WF_vars(SelectRow(p))
          /\ WF_vars(ScheduleRetry(p))
    /\ \A r \in Requests :
          /\ SF_vars(\E p \in Relays : relay[p].row = r /\ Produce(p))
          /\ SF_vars(\E p \in Relays : relay[p].row = r /\ MarkPublished(p))
          /\ WF_vars(BackoffEnds(r))
    /\ \A k \in Partitions :
          /\ SF_vars(Poll(k))
          /\ SF_vars(Process(k))
          /\ SF_vars(Commit(k))

FairSpec == Spec /\ Fairness

-----------------------------------------------------------------------------
(* Properties.                                                             *)

\* The tables, records and process states have the values the schema and the
\* code allow.
TypeOK ==
    /\ follows \subseteq Users \X Feeds
    /\ posts \subseteq Urls \X Feeds
    /\ scraped \subseteq Urls \X Feeds \X Users
    /\ created \in [Requests -> Nat]
    /\ deferred \subseteq Requests
    /\ published \subseteq Requests
    /\ relay \in [Relays -> Transactions \union {NoTx}]
    /\ log \in [Partitions -> Seq(Requests)]
    /\ faults \in [Requests -> 0..MaxFaults]
    /\ offset \in [Partitions -> Nat]
    /\ inHand \in Partitions \union {NoPartition}
    /\ handled \in BOOLEAN
    /\ inbox \subseteq Requests
    /\ dlq \subseteq Partitions \X (Nat \ {0})

\* Every record below the committed offset has been accepted or put aside.
CommittedIsHandled ==
    \A k \in Partitions : \A i \in 1..offset[k] :
       i \in DOMAIN log[k] /\ (log[k][i] \in inbox \/ <<k, i>> \in dlq)

\* No request is lost on its way: it is still in the outbox, in Kafka beyond
\* the committed offset, in the inbox or in the dead letter topic.
NoRequestLost ==
    \A r \in Outbox :
       \/ r \notin published
       \/ \E i \in Copies(r) : i > offset[Partition(r)]
       \/ r \in inbox
       \/ \E i \in Copies(r) : <<Partition(r), i>> \in dlq

\* Only rows whose publication was disturbed between the broker's write and
\* the mark have more than one record, one more for each disturbance: several
\* relays do not publish the same row.
DuplicatesNeedFaults ==
    \A r \in Requests : Cardinality(Copies(r)) <= 1 + faults[r]

\* The inbox holds requests of the outbox only, for posts that exist and users
\* that followed the feed of the post when it appeared.
InboxIsIntended ==
    \A r \in inbox :
       /\ r \in Outbox /\ r[1] \in Acceptable
       /\ \E f \in Feeds : <<r[1], f>> \in posts /\ <<r[1], f, r[2]>> \in scraped

\* Who follows a feed is notified of the items it first carries from then on
\* ("Users ... get ... notifications about new posts", README).
FollowersAreNotified ==
    \A s \in scraped : <<s[1], s[3]>> \in Outbox

\* Every row of the outbox reaches the inbox or the dead letter topic.
RequestsArrive ==
    \A r \in Requests :
       created[r] > 0 ~> \/ r \in inbox
                         \/ \E i \in Copies(r) : <<Partition(r), i>> \in dlq

=============================================================================
