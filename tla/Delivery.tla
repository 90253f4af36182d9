------------------------------ MODULE Delivery ------------------------------
(***************************************************************************)
(* The delivery state machine of the notification service: the tables      *)
(* notification_inbox, notification_deliveries, notification_channels and  *)
(* notification_dispatch_outbox, and everyone who writes them -- the Kafka *)
(* consumer, the delivery workers, the lease recovery, the dispatch relay  *)
(* and the channel API.                                                    *)
(*                                                                         *)
(* One action is one database transaction or one call to a provider.  Row  *)
(* locks make the transactions of the code atomic towards each other, with *)
(* one exception: DeleteChannel cancels deliveries before it touches the   *)
(* channel row, so another transaction fits between its two statements.    *)
(* It is two actions here, and the rows it has updated stay locked between *)
(* them.                                                                   *)
(***************************************************************************)
EXTENDS Integers, FiniteSets

CONSTANTS
    Events,              \* event_id values
    Users,               \* user_id values
    Channels,            \* ids of notification channels
    Owner,               \* the user each channel belongs to
    Registered,          \* channels whose channel_type has a sender
    Requests,            \* requests that can arrive: [event, user] records
    Workers,             \* delivery workers, of all notifier processes
    PolicyMaxAttempts,   \* retry.Policy's MaxAttempts
    RecoverMaxAttempts,  \* the maxAttempts the worker gives RecoverExpired
    RecoverLimit         \* rows one RecoverExpired call may take

ASSUME OwnerAssumption == Owner \in [Channels -> Users]
ASSUME RegisteredAssumption == Registered \subseteq Channels
ASSUME RequestsAssumption == Requests \subseteq [event : Events, user : Users]
ASSUME MaxAttemptsAssumption ==
    /\ PolicyMaxAttempts \in Nat \ {0}
    /\ RecoverMaxAttempts \in Nat \ {0}
ASSUME RecoverLimitAssumption == RecoverLimit \in Nat \ {0}

Deliveries == Events \X Channels     \* unique (event_id, channel_id)
ChannelOf(d) == d[2]

Waiting  == {"pending", "retry_wait"}
Terminal == {"sent", "failed", "cancelled"}
Statuses == {"none", "processing"} \union Waiting \union Terminal

ChannelStates == {"absent", "enabled", "disabled", "deleted"}

NoToken == 0

\* Rows of notification_dispatch_outbox; the row is also the Kafka record.
DispatchRows == [id : Deliveries, kind : {"retry", "dlq"}, attempt : Nat]
RetryRow(d, n) == [id |-> d, kind |-> "retry", attempt |-> n]
DlqRow(d, n)   == [id |-> d, kind |-> "dlq", attempt |-> n]

\* What a worker holds: the task Claim returned and how its Send ended.
Outcomes == {"ok", "retryable", "permanent"}
Tasks == [phase : {"claimed"} \union Outcomes, id : Deliveries,
          token : Nat, attempts : Nat]
Idle == [phase |-> "idle"]

VARIABLES
    channel,     \* notification_channels: existence and the enabled column
    inbox,       \* notification_inbox: the stored requests
    status,      \* notification_deliveries.status, "none" before the row
    attempts,    \* ... .attempts
    token,       \* ... .claim_token, NoToken for NULL
    expired,     \* lease_expires_at lies in the past
    dispatch,    \* rows of notification_dispatch_outbox
    published,   \* the rows of it whose published_at is set
    retryTopic,  \* records in the retry topics whose offset is uncommitted
    dlqTopic,    \* records the relay put in the dead letter topic
    task,        \* per worker: the task in hand
    deleting,    \* channels with a DeleteChannel transaction in progress
    locked,      \* deliveries such a transaction has updated and still locks
    lastToken,   \* the last claim token generated (gen_random_uuid)
    accepted     \* history: <<delivery, attempt>> the provider took

rowVars == <<status, attempts, token, expired>>
outboxVars == <<dispatch, published>>
kafkaVars == <<retryTopic, dlqTopic>>
channelVars == <<channel, deleting, locked>>
workerVars == <<task, lastToken, accepted>>
vars == <<channelVars, inbox, rowVars, outboxVars, kafkaVars, workerVars>>

\* Mutant: the channel must exist, its enabled column is not looked at.
EnabledIfExists(d) == channel[ChannelOf(d)] \in {"enabled", "disabled"}

Enabled(d) == channel[ChannelOf(d)] = "enabled"

Init ==
    /\ channel = [c \in Channels |-> "absent"]
    /\ inbox = {}
    /\ status = [d \in Deliveries |-> "none"]
    /\ attempts = [d \in Deliveries |-> 0]
    /\ token = [d \in Deliveries |-> NoToken]
    /\ expired = [d \in Deliveries |-> FALSE]
    /\ dispatch = {}
    /\ published = {}
    /\ retryTopic = {}
    /\ dlqTopic = {}
    /\ task = [w \in Workers |-> Idle]
    /\ deleting = {}
    /\ locked = {}
    /\ lastToken = NoToken
    /\ accepted = {}

-----------------------------------------------------------------------------
(* The consumer's two transactions.                                        *)

\* Mutant: the whole request is the key of the inbox, not its event_id.
IsNewByRequest(r) == r \notin inbox

\* INSERT ... ON CONFLICT (event_id) DO NOTHING inserts the row.
IsNew(r) == \A stored \in inbox : stored.event # r.event

\* A request seen before changes nothing: it is compared with the stored one
\* and either committed or refused with ErrIdentityConflict.  The enabled
\* channels of the user are locked FOR SHARE until the commit.
AcceptRequest(r) ==
    /\ IsNew(r)
    /\ inbox' = inbox \union {r}
    /\ status' = [d \in Deliveries |->
          IF d[1] = r.event /\ Owner[ChannelOf(d)] = r.user /\ Enabled(d)
            THEN "pending" ELSE status[d]]
    /\ UNCHANGED <<channelVars, attempts, token, expired, outboxVars,
                   kafkaVars, workerVars>>

\* Mutants: the attempt number of the record is not compared, or compared
\* with the attempt to come.
ResumableAnyAttempt(r) == status[r.id] = "retry_wait" /\ Enabled(r.id)
ResumableNextAttempt(r) ==
    ResumableAnyAttempt(r) /\ r.attempt = attempts[r.id] + 1

Resumable(r) ==
    /\ status[r.id] = "retry_wait"
    /\ attempts[r.id] = r.attempt
    /\ Enabled(r.id)

\* The consumer processes a retry record and commits its offset; when the
\* commit fails or the process dies in between, the record stays.  The UPDATE
\* waits for a row that DeleteChannel holds.
ResumeRetry(r) ==
    /\ r \in retryTopic
    /\ Resumable(r) => r.id \notin locked
    /\ status' = [status EXCEPT ![r.id] = IF Resumable(r) THEN "pending" ELSE @]
    /\ UNCHANGED <<channelVars, inbox, attempts, token, expired, outboxVars,
                   dlqTopic, workerVars>>

\* Mutant: the offset is committed before the record is processed.
CommitFirst(r) ==
    /\ r \in retryTopic
    /\ retryTopic' = retryTopic \ {r}
    /\ UNCHANGED <<channelVars, inbox, rowVars, outboxVars, dlqTopic, workerVars>>

ConsumeRetry(r)       == ResumeRetry(r) /\ retryTopic' = retryTopic \ {r}
ConsumeUncommitted(r) == ResumeRetry(r) /\ UNCHANGED retryTopic

-----------------------------------------------------------------------------
(* The delivery worker.                                                    *)

\* Mutant: rows that another transaction has locked are claimed as well.
ClaimableLocked(d) ==
    status[d] = "pending" /\ Enabled(d) /\ ChannelOf(d) \in Registered

Claimable(d) ==
    /\ status[d] = "pending"
    /\ Enabled(d)
    /\ ChannelOf(d) \in Registered
    /\ d \notin locked                       \* SKIP LOCKED

\* Worker w takes d as its n-th attempt, under a fresh claim token.
Take(w, d, n) ==
    /\ task[w] = Idle
    /\ lastToken' = lastToken + 1
    /\ status' = [status EXCEPT ![d] = "processing"]
    /\ attempts' = [attempts EXCEPT ![d] = n]
    /\ token' = [token EXCEPT ![d] = lastToken']
    /\ expired' = [expired EXCEPT ![d] = FALSE]
    /\ task' = [task EXCEPT ![w] =
          [phase |-> "claimed", id |-> d, token |-> lastToken', attempts |-> n]]
    /\ UNCHANGED <<channelVars, inbox, outboxVars, kafkaVars, accepted>>

\* Mutant: the attempt is not counted when it is claimed.
ClaimUncounted(w, d) == Claimable(d) /\ Take(w, d, attempts[d])

Claim(w, d) == Claimable(d) /\ Take(w, d, attempts[d] + 1)

\* One call to the provider.  An error does not mean that the message was not
\* taken: a timeout or an unreadable answer can follow an accepted message.
Send(w) ==
    /\ task[w].phase = "claimed"
    /\ \E outcome \in Outcomes, taken \in BOOLEAN :
          /\ outcome = "ok" => taken
          /\ task' = [task EXCEPT ![w] = [@ EXCEPT !.phase = outcome]]
          /\ accepted' = IF taken
                           THEN accepted \union {<<task[w].id, task[w].attempts>>}
                           ELSE accepted
    /\ UNCHANGED <<channelVars, inbox, rowVars, outboxVars, kafkaVars, lastToken>>

\* Mutant: the claim token is not compared.
HoldsAnyClaim(w) == status[task[w].id] = "processing"

\* The condition on id, claim_token and status of every closing UPDATE.
HoldsClaim(w) ==
    /\ status[task[w].id] = "processing"
    /\ token[task[w].id] = task[w].token

\* The row leaves "processing": the claim columns become NULL.
Release(w, newStatus) ==
    /\ status' = [status EXCEPT ![task[w].id] = newStatus]
    /\ token' = [token EXCEPT ![task[w].id] = NoToken]
    /\ expired' = [expired EXCEPT ![task[w].id] = FALSE]
    /\ task' = [task EXCEPT ![w] = Idle]

MarkSent(w) ==
    /\ task[w].phase = "ok"
    /\ HoldsClaim(w)
    /\ Release(w, "sent")
    /\ UNCHANGED <<channelVars, inbox, attempts, outboxVars, kafkaVars,
                   lastToken, accepted>>

\* Process turns the provider's error into a delay: positive when the policy
\* allows another attempt, zero otherwise.
WillRetry(w) ==
    task[w].phase = "retryable" /\ task[w].attempts < PolicyMaxAttempts

MarkFailed(w) ==
    /\ task[w].phase \in {"retryable", "permanent"}
    /\ HoldsClaim(w)
    /\ \/ /\ ~Enabled(task[w].id)            \* channelActive: disabled or gone
          /\ Release(w, "cancelled")
          /\ UNCHANGED dispatch
       \/ /\ Enabled(task[w].id) /\ WillRetry(w)
          /\ Release(w, "retry_wait")
          /\ dispatch' = dispatch \union {RetryRow(task[w].id, task[w].attempts)}
       \/ /\ Enabled(task[w].id) /\ ~WillRetry(w)
          /\ Release(w, "failed")
          /\ dispatch' = dispatch \union {DlqRow(task[w].id, task[w].attempts)}
    /\ UNCHANGED <<channelVars, inbox, attempts, published, kafkaVars,
                   lastToken, accepted>>

\* ErrStaleClaim: no row matches, the transaction is rolled back.
StaleClaim(w) ==
    /\ task[w].phase \in Outcomes
    /\ ~HoldsClaim(w)
    /\ task' = [task EXCEPT ![w] = Idle]
    /\ UNCHANGED <<channelVars, inbox, rowVars, outboxVars, kafkaVars,
                   lastToken, accepted>>

\* The process dies, its context is cancelled or the closing transaction
\* fails: the task is forgotten, the row keeps its claim.
Abandon(w) ==
    /\ task[w] # Idle
    /\ task' = [task EXCEPT ![w] = Idle]
    /\ UNCHANGED <<channelVars, inbox, rowVars, outboxVars, kafkaVars,
                   lastToken, accepted>>

-----------------------------------------------------------------------------
(* Leases.                                                                 *)

LeaseExpires(d) ==
    /\ status[d] = "processing"
    /\ ~expired[d]
    /\ expired' = [expired EXCEPT ![d] = TRUE]
    /\ UNCHANGED <<channelVars, inbox, status, attempts, token, outboxVars,
                   kafkaVars, workerVars>>

\* Mutant: recovery does not look at the attempts already made.
RecoveredUnbounded(d) == IF Enabled(d) THEN "pending" ELSE "cancelled"

RecoveredStatus(d) ==
    IF ~Enabled(d) THEN "cancelled"
    ELSE IF attempts[d] >= RecoverMaxAttempts THEN "failed" ELSE "pending"

\* Mutant: recovery gives up without a dead letter.
NoDeadLetters(S) == {}

DeadLetters(S) ==
    {DlqRow(d, attempts[d]) : d \in {x \in S : RecoveredStatus(x) = "failed"}}

\* One transaction over up to RecoverLimit expired rows; rows another
\* transaction has locked are skipped.
RecoverExpired ==
    \E S \in SUBSET {d \in Deliveries : status[d] = "processing" /\ expired[d]} :
       /\ S # {}
       /\ Cardinality(S) <= RecoverLimit
       /\ status' = [d \in Deliveries |->
                       IF d \in S THEN RecoveredStatus(d) ELSE status[d]]
       /\ token' = [d \in Deliveries |-> IF d \in S THEN NoToken ELSE token[d]]
       /\ expired' = [d \in Deliveries |-> d \notin S /\ expired[d]]
       /\ dispatch' = dispatch \union DeadLetters(S)
       /\ UNCHANGED <<channelVars, inbox, attempts, published, kafkaVars, workerVars>>

-----------------------------------------------------------------------------
(* The dispatch relay: it publishes inside the transaction that marks the  *)
(* row, so a record can reach Kafka while its row stays unpublished.       *)

\* Mutants: every row goes to a retry topic; the record carries the attempt
\* to come instead of the one that failed.
PublishAsRetry(r) == retryTopic' = retryTopic \union {r} /\ UNCHANGED dlqTopic
PublishNextAttempt(r) == PublishAsRetry([r EXCEPT !.attempt = @ + 1])

Publish(r) ==
    IF r.kind = "retry"
      THEN retryTopic' = retryTopic \union {r} /\ UNCHANGED dlqTopic
      ELSE dlqTopic' = dlqTopic \union {r} /\ UNCHANGED retryTopic

RelayPublish(r) ==
    /\ r \in dispatch \ published
    /\ Publish(r)
    /\ published' = published \union {r}
    /\ UNCHANGED <<channelVars, inbox, rowVars, dispatch, workerVars>>

RelayUnconfirmed(r) ==
    /\ r \in dispatch \ published
    /\ Publish(r)
    /\ UNCHANGED <<channelVars, inbox, rowVars, outboxVars, workerVars>>

-----------------------------------------------------------------------------
(* The channel API.                                                        *)

RowsOf(c) == {d \in Deliveries : ChannelOf(d) = c}

CreateChannel(c) ==
    /\ channel[c] = "absent"
    /\ channel' = [channel EXCEPT ![c] = "enabled"]
    /\ UNCHANGED <<deleting, locked, inbox, rowVars, outboxVars, kafkaVars,
                   workerVars>>

\* SetChannelEnabled.  Setting the value a channel already has changes nothing:
\* a disabled channel has no waiting delivery left to cancel.
EnableChannel(c) ==
    /\ channel[c] = "disabled"
    /\ channel' = [channel EXCEPT ![c] = "enabled"]
    /\ UNCHANGED <<deleting, locked, inbox, rowVars, outboxVars, kafkaVars,
                   workerVars>>

\* The cancelling UPDATE waits for rows an open DeleteChannel holds.
DisableChannel(c) ==
    /\ channel[c] = "enabled"
    /\ RowsOf(c) \intersect locked = {}
    /\ channel' = [channel EXCEPT ![c] = "disabled"]
    /\ status' = [d \in Deliveries |->
          IF ChannelOf(d) = c /\ status[d] \in Waiting THEN "cancelled" ELSE status[d]]
    /\ UNCHANGED <<deleting, locked, inbox, attempts, token, expired,
                   outboxVars, kafkaVars, workerVars>>

\* First statement: the waiting deliveries are cancelled, which only the
\* transaction itself sees; to the others they are locked rows.
DeleteBegin(c) ==
    /\ channel[c] \in {"enabled", "disabled"}
    /\ c \notin deleting
    /\ deleting' = deleting \union {c}
    /\ locked' = locked \union {d \in RowsOf(c) : status[d] \in Waiting}
    /\ UNCHANGED <<channel, inbox, rowVars, outboxVars, kafkaVars, workerVars>>

\* Second statement and commit.
DeleteCommit(c) ==
    /\ c \in deleting
    /\ channel' = [channel EXCEPT ![c] = "deleted"]
    /\ status' = [d \in Deliveries |->
          IF d \in RowsOf(c) \intersect locked THEN "cancelled" ELSE status[d]]
    /\ deleting' = deleting \ {c}
    /\ locked' = locked \ RowsOf(c)
    /\ UNCHANGED <<inbox, attempts, token, expired, outboxVars, kafkaVars,
                   workerVars>>

\* The transaction fails (a deadlock, a lost connection): nothing happened.
DeleteAbort(c) ==
    /\ c \in deleting
    /\ deleting' = deleting \ {c}
    /\ locked' = locked \ RowsOf(c)
    /\ UNCHANGED <<channel, inbox, rowVars, outboxVars, kafkaVars, workerVars>>

-----------------------------------------------------------------------------

ConsumerNext ==
    \/ \E r \in Requests : AcceptRequest(r)
    \/ \E r \in retryTopic : ConsumeRetry(r) \/ ConsumeUncommitted(r)

WorkerNext(w) ==
    \/ \E d \in Deliveries : Claim(w, d)
    \/ Send(w) \/ MarkSent(w) \/ MarkFailed(w) \/ StaleClaim(w)

RelayNext == \E r \in dispatch : RelayPublish(r) \/ RelayUnconfirmed(r)

ApiNext ==
    \E c \in Channels :
       \/ CreateChannel(c) \/ EnableChannel(c) \/ DisableChannel(c)
       \/ DeleteBegin(c) \/ DeleteCommit(c) \/ DeleteAbort(c)

Next ==
    \/ ConsumerNext
    \/ \E w \in Workers : WorkerNext(w) \/ Abandon(w)
    \/ RecoverExpired
    \/ \E d \in Deliveries : LeaseExpires(d)
    \/ RelayNext
    \/ ApiNext

Spec == Init /\ [][Next]_vars

(***************************************************************************)
(* The loops of the consumer, the workers, the recovery ticker and the     *)
(* relay run for ever and time passes.  A worker may lose any number of    *)
(* tasks, but not before it ever finishes one; a DeleteChannel that is     *)
(* asked for again and again is not rolled back every single time.         *)
(***************************************************************************)
Fairness ==
    /\ WF_vars(\E r \in retryTopic : ConsumeRetry(r))
    /\ \A w \in Workers : WF_vars(WorkerNext(w))
    /\ SF_vars(\E w \in Workers, d \in Deliveries : Claim(w, d))
    /\ WF_vars(RecoverExpired)
    /\ \A d \in Deliveries : WF_vars(LeaseExpires(d))
    /\ WF_vars(\E r \in dispatch : RelayPublish(r))
    /\ \A c \in Channels : SF_vars(DeleteCommit(c))

FairSpec == Spec /\ Fairness

-----------------------------------------------------------------------------
(* Properties.                                                             *)

\* The database columns, records and tasks have the values the schema allows
\* (the CHECK constraints of notification_deliveries and the outbox).
TypeOK ==
    /\ channel \in [Channels -> ChannelStates]
    /\ inbox \subseteq Requests
    /\ status \in [Deliveries -> Statuses]
    /\ attempts \in [Deliveries -> Nat]
    /\ token \in [Deliveries -> Nat]
    /\ expired \in [Deliveries -> BOOLEAN]
    /\ dispatch \subseteq DispatchRows
    /\ published \subseteq dispatch
    /\ retryTopic \subseteq {r \in dispatch : r.kind = "retry"}
    /\ dlqTopic \subseteq {r \in dispatch : r.kind = "dlq"}
    /\ task \in [Workers -> Tasks \union {Idle}]
    /\ deleting \subseteq Channels
    /\ locked \subseteq Deliveries
    /\ lastToken \in Nat
    /\ accepted \subseteq Deliveries \X Nat

AttemptLimit ==
    IF PolicyMaxAttempts >= RecoverMaxAttempts
      THEN PolicyMaxAttempts ELSE RecoverMaxAttempts

\* Crashes, lost claims and duplicated retry records included, a delivery is
\* claimed at most AttemptLimit times: what can be claimed again is below it.
AttemptsBounded ==
    \A d \in Deliveries :
       /\ attempts[d] <= AttemptLimit
       /\ status[d] \in Waiting => attempts[d] < AttemptLimit

\* No two workers ever hold the same claim, and no two hold the same attempt
\* of a delivery: an attempt is sent at most once, although claims expire and
\* are taken over while the first worker is still sending.
ClaimIsExclusive ==
    \A v, w \in Workers :
       (v # w /\ task[v] # Idle /\ task[w] # Idle) =>
          /\ task[v].token # task[w].token
          /\ task[v].id = task[w].id => task[v].attempts # task[w].attempts

\* A delivery is marked sent only on the provider's acceptance of its last
\* attempt, never on that of a worker that has lost the claim.
SentMeansAccepted ==
    \A d \in Deliveries :
       status[d] = "sent" => <<d, attempts[d]>> \in accepted

\* Exactly the failed deliveries have a dead letter row for their last
\* attempt: MarkFailed and RecoverExpired never give up silently and never
\* report a delivery that goes on.
FailedIffDeadLetter ==
    \A d \in Deliveries :
       status[d] = "failed" <=> DlqRow(d, attempts[d]) \in dispatch

\* A delivery waiting for its retry has a wake-up call for that very attempt
\* on the way, in the outbox or in Kafka, as long as its channel exists.
RetryWaitHasWakeUp ==
    \A d \in Deliveries :
       status[d] = "retry_wait" /\ channel[ChannelOf(d)] # "deleted" =>
          RetryRow(d, attempts[d]) \in (dispatch \ published) \union retryTopic

\* A disabled channel has nothing waiting, whatever was in flight when it was
\* disabled: requests, retries, failures and expired leases.
DisabledHasNoWaiting ==
    \A d \in Deliveries :
       channel[ChannelOf(d)] = "disabled" => status[d] \notin Waiting

\* A delivery exists only for the user of the request stored in the inbox,
\* whatever other requests carry the same event_id.
BelongsToRecipient ==
    \A d \in Deliveries :
       status[d] # "none" =>
          /\ \E r \in inbox : r.event = d[1]
          /\ \A r \in inbox : r.event = d[1] => r.user = Owner[ChannelOf(d)]

\* Sent, failed and cancelled are final, also for workers that come back with
\* an old claim and for retry records that are delivered again.
TerminalIsFinal ==
    [][\A d \in Deliveries : status[d] \in Terminal => status'[d] = status[d]]_vars

\* Only the worker that holds the claim ends it, unless the lease is over.
OnlyHolderEndsClaim ==
    [][\A d \in Deliveries :
          (status[d] = "processing" /\ status'[d] # "processing") =>
             \/ expired[d]
             \/ \E w \in Workers :
                   task[w] # Idle /\ task[w].token = token[d] /\ task'[w] = Idle]_vars

\* A delivery leaves its backoff only when the record of the attempt that
\* failed last has come through Kafka: duplicates of the record of an earlier
\* attempt do not cut the waiting time short.
BackoffHonoured ==
    [][\A d \in Deliveries :
          (status[d] = "retry_wait" /\ status'[d] = "pending") =>
             RetryRow(d, attempts[d]) \in retryTopic]_vars

\* Deleting a channel leaves nothing behind that waits for it
\* (DeleteChannel, "cancel channel deliveries").
DeletedHasNoWaiting ==
    \A d \in Deliveries :
       channel[ChannelOf(d)] = "deleted" => status[d] \notin Waiting

\* What the consumer accepted for a channel with a sender is sent, fails or
\* is cancelled in the end, unless its channel is deleted.
EventuallySettled ==
    \A d \in Deliveries : ChannelOf(d) \in Registered =>
       (status[d] \notin Terminal \union {"none"}
          ~> status[d] \in Terminal \/ channel[ChannelOf(d)] = "deleted")

\* A failed delivery is reported in the dead letter topic.
FailureIsReported ==
    \A d \in Deliveries :
       status[d] = "failed" ~> DlqRow(d, attempts[d]) \in dlqTopic

-----------------------------------------------------------------------------
(* The inductive invariant behind the safety properties.                   *)

\* Claim columns are set exactly while a row is processed (the lease_check
\* constraint), and row counters stay below the limit.
RowsOK ==
    \A d \in Deliveries :
       /\ token[d] <= lastToken
       /\ status[d] = "processing" <=> token[d] # NoToken
       /\ status[d] = "processing" => attempts[d] > 0
       /\ expired[d] => status[d] = "processing"
       /\ attempts[d] <= AttemptLimit
       /\ status[d] = "none" => attempts[d] = 0
       /\ status[d] \in Waiting => attempts[d] < AttemptLimit
       /\ status[d] \in Waiting => channel[ChannelOf(d)] \in {"enabled", "deleted"}

\* A task in hand carries a token that was given out once, for an attempt
\* already counted; if the row still has that token it is that very attempt.
TasksOK ==
    \A w \in Workers : task[w] # Idle =>
       /\ task[w].token \in 1..lastToken
       /\ task[w].attempts \in 1..attempts[task[w].id]
       /\ \A d \in Deliveries : token[d] = task[w].token =>
             task[w].id = d /\ task[w].attempts = attempts[d]
       /\ task[w].phase = "ok" => <<task[w].id, task[w].attempts>> \in accepted

\* An outbox row belongs to an attempt already made; none exists yet for the
\* attempt in progress; a dead letter is the end of its delivery.
OutboxOK ==
    \A r \in dispatch :
       /\ r.attempt <= attempts[r.id]
       /\ status[r.id] = "processing" => r.attempt < attempts[r.id]
       /\ r.kind = "dlq" => status[r.id] = "failed" /\ r.attempt = attempts[r.id]

FailedHasDeadLetter ==
    \A d \in Deliveries :
       status[d] = "failed" => DlqRow(d, attempts[d]) \in dispatch

\* DeleteChannel locks waiting rows only, and nobody moves them meanwhile.
LocksOK == \A d \in locked : status[d] \in Waiting

\* Everything above holds together, in every step of every actor.
IInv ==
    /\ TypeOK
    /\ RowsOK
    /\ TasksOK
    /\ ClaimIsExclusive
    /\ SentMeansAccepted
    /\ BelongsToRecipient
    /\ OutboxOK
    /\ FailedHasDeadLetter
    /\ RetryWaitHasWakeUp
    /\ LocksOK


-----------------------------------------------------------------------------
(* Delivery implements DeliveryPromise: to the outside a row that is       *)
(* pending, processing or waiting for its retry is an open item.           *)

Promise == INSTANCE DeliveryPromise WITH
    Items <- Deliveries,
    Limit <- AttemptLimit,
    state <- [d \in Deliveries |->
                IF status[d] \in Waiting \union {"processing"} THEN "open" ELSE status[d]],
    tries <- attempts,
    taken <- accepted

\* Every step of consumer, workers, recovery, relay and API is a step of the
\* promise or invisible to it.
KeepsPromise == Promise!Spec

=============================================================================
