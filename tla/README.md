# FeedFlow: TLA+ models, checks and proofs

FeedFlow is a Go system of several processes. A monolith (`cmd/api`) keeps
users, feeds, follows and posts, scrapes RSS feeds and writes a notification
request for every follower of a new post into a transactional outbox. A relay
(`cmd/outbox-relay`) moves outbox rows to Kafka. A notifier (`cmd/notifier`)
accepts the requests into its own database, delivers them to Telegram and SMTP,
retries, and reports what it gave up on in a dead letter topic. Two more
processes serve HTTP: `cmd/notification-api` for channels and `cmd/gateway` as
a reverse proxy.

This directory holds the TLA+ modules of that system, the TLC configurations
that check small instances, and theorems, proved by TLAPS for every instance,
that state nearly all of the safety properties these runs check. `PROJECT.json` lists all of it by machine
name: components, runs, the source lines each definition stands for, mutants
that show that each property can fail, hazards, findings and theorems.

- `tlc -config MCDelivery.cfg MCDelivery.tla` (and so on) checks one run.
- `tlapm DeliveryProofs.tla` (and so on: each module named `...Proofs`) checks
  the proofs about one component.

## 1. Inventory

### 1.1 Components

| component | state it keeps | operations | talks to |
|---|---|---|---|
| SavePost (`internal/database/storage/save_post.go`) | `posts`, `feed_follows`, `outbox_events` | one statement: insert the post unless its url exists, insert a request row for each follower of its feed | read by the relay |
| Outbox relay (`internal/notification/relay`, `cmd/outbox-relay`) | none of its own; it locks one outbox row at a time | PublishOne: select the oldest row with `SKIP LOCKED`, produce, mark or defer, commit | source `requests` reads the monolith's `outbox_events`, source `dispatch` the notifier's `notification_dispatch_outbox`; both produce to Kafka |
| Kafka consumer (`internal/notification/pipeline/consumer.go`) | committed offsets (in Kafka) | poll, Process, commit; AcceptRequest, ResumeRetry, dead letters for records that cannot be decoded | Kafka, the notifier's database |
| Delivery state machine (`internal/notification/postgres/pipeline.go`) | `notification_inbox`, `notification_deliveries`, `notification_dispatch_outbox` | AcceptRequest, ResumeRetry, Claim, MarkSent, MarkFailed, RecoverExpired | called by consumer and worker |
| Delivery worker (`internal/notification/pipeline/worker.go`) | the task in hand | Claim, Send, MarkSent or MarkFailed; a ticker calls RecoverExpired | database, senders |
| Retry policy (`internal/notification/retry`) | none | NextDelay: exponential delay, jitter, suggested delay, classification of errors | called by the worker |
| Senders (`telegram`, `email`, `sender`) | none | one HTTP request, or one SMTP dialogue, under the deadlines of context, client and connection | providers; their errors go to the retry policy |
| Notifier process (`cmd/notifier`) | none | run consumer and worker; when one ends, cancel the other and exit | restarted by `docker-compose.yml` |
| Channel API (`internal/notification/httpapi`, `postgres/channels.go`) | `notification_channels` | create, list, enable or disable, delete | same database as the notifier |
| RSS worker (`internal/worker`) | `feeds.last_fetched_at` | every minute a batch of feeds: download, save every item, mark | feeds on the web, SavePost |
| Feed catalogue (`internal/handler/get_all_feeds.go`, `post_feed.go`, Redis) | `feeds`, one cached page | GET pages by cursor, POST a feed, fill and delete the cached page | Redis, background tasks |
| Personal post list (`get_posts.go`) | cached pages per user, size and offset | GET pages by offset, fill the cache in the background | Redis, background tasks |
| Process lifecycle (`closer`, `handler.go`, `cmd/api/main.go`) | wait group, shutdown flag | start and stop background tasks, close resources in order | everything |
| Users, keys, tokens | `users` | create, issue and check tokens | |
| Former notification worker (`internal/notification/worker`) | tables it shares with nothing that runs | process one outbox row inline | no command starts it |
| Gateway, notification-api, configuration | none | proxying, wiring, parsing | |

### 1.2 What is hard in it

*Concurrency.* Everything in the notification service meets in one database:
any number of notifier processes, each with a consumer and a worker, one or
more relays and the channel API. The code relies on `FOR UPDATE SKIP LOCKED`,
`FOR SHARE`, a claim token and a lease. A worker whose lease ran out does not
know it. Transactions of several statements lock rows in different orders.

*Failure.* Every process can stop between any two steps. Each hop is at least
once: the relay produces inside the transaction that marks the row, the
consumer commits an offset after the database transaction, the worker marks a
row after the provider has answered. A provider can fail at any command, and
the answer that says it took the message can be lost. An error of one database
transaction ends the consumer, and with it the notifier.

*Ordering.* A retry record can arrive again after its delivery has gone on.
Rows deferred by a failed publication are overtaken. Cache writes run in the
background and land after the deletion they should have preceded.

*Timeouts and retries.* Three timeouts around one call of a provider, leases,
the backoff of relay and policy, the limit of eight attempts that is written
down in two places (`retry.go:14` and the literal in `pipeline/worker.go`).

The full list, with the line at which each hazard bites and the properties
that watch it, is under `hazards` in `PROJECT.json`.

### 1.3 What makes each component correct

- *Delivery*: a row is claimed a bounded number of times; two workers never
  hold one claim; sent means that the provider took the last attempt; failed
  and dead-lettered are the same rows; a row in backoff has a wake-up on the way
  and is woken by the right one only; a disabled channel has nothing waiting;
  ends are final; what was accepted ends.
- *Intake*: a request that was written is never lost, is accepted or put aside,
  is not repeated unless a step failed in between, and belongs to a follower.
- *RSS worker*: feeds take turns; a feed counts as fetched only when all of its
  document is stored; a broken feed does not harm the others.
- *Retry policy*: the arithmetic is the exponential one, without overflow; a
  failure that may pass is tried again exactly as long as attempts are left.
- *Catalogue*: a walk by cursors shows every feed once, in order, in spite of
  the cache.
- *Senders*: they say nil only of a message that was taken, make errors from
  which the policy can tell what may pass, and wait for nobody for ever.
- *Notifier process*: what its consumer has not committed is consumed after the
  restart.
- *Post list*: a page belongs to its user and is refreshed; posts that arrive
  between two pages hide no other post.
- *Lifecycle*: no background task runs after shutdown, resources outlive their
  users unless an error is reported, and the process ends.

## 2. Modules and how they correspond to the code

| module | models | checked by |
|---|---|---|
| `Delivery` | the tables of the notifier and everyone who writes them | `MCDelivery` with two configurations |
| `DeliveryPromise` | the abstract promise that `Delivery` implements | property `KeepsPromise` of `delivery` |
| `RowLocks` | the same transactions, statement by statement and lock by lock, and the notifier process | `MCRowLocks` |
| `RequestIntake` | SavePost, requests relay, Kafka, consumer, inbox | `MCRequestIntake` with two configurations |
| `FeedFetcher` | the RSS worker and the order of the feeds table | `MCFeedFetcher` with two configurations |
| `RetryPolicy` | classification of errors, NextDelay | used by `DeliveryAttempt` |
| `SendAttempt` | what a call of any sender is: commands, a result, what went wrong | used by the next two |
| `SmtpSender`, `TelegramSender` | the dialogue with a mail server, the request to Telegram | used by `DeliveryAttempt` |
| `DeliveryAttempt` | Worker.Process attempt after attempt: sender, policy and verdict together | `MCDeliveryAttempt` |
| `FeedCatalogue` | feed pages, cursor, Redis cache, PostFeed | `MCFeedCatalogue` with two configurations |
| `PersonalPosts` | post pages, offsets, Redis cache | `MCPersonalPosts` |
| `Lifecycle` | how the monolith stops: server, handlers, background tasks, worker, Closer | `MCLifecycle` |
| `DeliveryProofs` | safety of `Delivery`, and that it implements `DeliveryPromise` | TLAPS |
| `RowLocksProofs`, `RequestIntakeProofs`, `FeedFetcherProofs`, `DeliveryAttemptProofs`, `FeedCatalogueProofs`, `PersonalPostsProofs`, `LifecycleProofs` | safety of the component each is named after | TLAPS |

The modules meet at these places. The `inbox` that `RequestIntake` fills is the
`inbox` from which `Delivery` starts: a request of `RequestIntake` (a post and a
user) is one `event_id` of `Delivery`, and at-least-once arrival is in
`Delivery` the fact that any request may be processed at any time, any number
of times. The action `Send` of `Delivery` (accepted or not, and independently
what is reported) stands for the whole dialogue that `DeliveryAttempt` models,
and the choice between `retry_wait` and `failed` for its delay. `RowLocks` takes
the actions of `Delivery` apart and shows that they may be taken for atomic.

### 2.1 Delivery

One action is one database transaction or one call to a provider.

| action | code |
|---|---|
| `AcceptRequest` | `Repository.AcceptRequest`: inbox row and one delivery per enabled channel; a known event changes nothing |
| `ConsumeRetry`, `ConsumeUncommitted` | `Consumer.Process` of a retry record with `ResumeRetry`, followed by the commit of its offset or not |
| `Claim` | `Repository.Claim`: a pending row of an enabled channel of a registered type, not locked, gets a fresh token and counts an attempt |
| `Send` | the provider: accepted or not, and independently (except for success) what the sender reports |
| `MarkSent`, `MarkFailed`, `StaleClaim` | the closing transactions, all of them conditional on id, token and status |
| `Abandon` | the worker dies, is cancelled or cannot close the task |
| `LeaseExpires`, `RecoverExpired` | time, and the recovery transaction over several rows |
| `RelayPublish`, `RelayUnconfirmed` | the relay with source `dispatch`; the second has produced the record but not marked the row |
| `CreateChannel`, `EnableChannel`, `DisableChannel` | the channel API |
| `DeleteBegin`, `DeleteCommit`, `DeleteAbort` | `DeleteChannel`, which cancels deliveries before it touches the channel row |

Why one action per transaction is right: every transaction locks the rows it
decides on (`FOR UPDATE`, `FOR SHARE` of the channel, or a conditional `UPDATE`
which re-evaluates its condition after waiting), so two of them that touch the
same row take effect one after the other. `DeleteChannel` is the exception: its
first `UPDATE` takes no lock on the channel, hence it is two actions with the
updated rows `locked` in between. `RowLocks` (2.7) checks this argument.

The claim token is a random UUID; the model takes the next number, which is as
fresh and easier to compare. A lease is a Boolean: time may pass at any moment.
`available_at` of a delivery and of an outbox row is left out, since a row that may
become available at any moment allows every order that times allow.

### 2.2 RequestIntake

`FollowFeed` and `SavePost` are the monolith. `SavePost` is one SQL statement
with several parts and one action. `created_at` is a rank: rows of one post
share it, and concurrent statements may read their clock in another order than
they commit in. A relay is a transaction of four steps (`SelectRow`, `Produce` or
`ProduceFails`, then `MarkPublished` or `ScheduleRetry`) that may stop at each
(`RelayStops`); the row stays locked meanwhile. The consumer is `Poll`,
`Process`, `Commit`, and may stop in between (`ConsumerStops`). Kafka is one
sequence of records per partition and a committed offset, modelled from how the
code uses it. A failed or timed out production may or may not have been written.

### 2.3 FeedFetcher

`queue` is the feeds table in the order of the query
(`last_fetched_at NULLS FIRST`). Goroutines of a batch interleave item by item;
`GiveUp` is any of the early returns of `scrapeFeed`, `Stop` the end of the
process. A document is a sequence of items, and an item is a url or unusable:
without title or link, or with a date that cannot be read.

### 2.4 DeliveryAttempt, SendAttempt, SmtpSender, TelegramSender, RetryPolicy

`SendAttempt` is one call of `Send`: `todo` is the script of commands left,
`result` what `Send` returned. `took`, `answered` and `cause` are history: what
really happened, whatever the error says. There is no clock: a wait that a
timeout ends is a command that fails as `broken`, and the provider decides at
each command whether it answers at all.

`SmtpSender` has an action per kind of command. The script depends on the TLS
mode and on whether there is a user name. `SmtpFailures` lists for each command how
it may fail: `broken` (connection or timeout), `later` (4xx), `refused` (5xx),
`unusable` (an answer that is no answer, a bad certificate), `unsupported`.
The causes say what happened, the error what the sender makes of it. The two
differ for a TLS alert: the server cannot be used, but Go reports a network
error, which is tried again (`Exchange`). `Finish` is the end of DATA, the only place where the
server takes the mail; when its answer is broken or unusable it may have taken it.

`TelegramSender` is request, reading and decoding of one answer: any
combination of status, JSON or not, `ok`, `error_code` and `retry_after` that
Telegram may give for what it did (`Possible`). Every failure of `client.Do` is
a `*url.Error`, which is a network error whatever it wraps: an untrusted
certificate, an answer that is not HTTP (`unusable`) and a stream the provider
resets (`reset`) look like a broken connection there (`Do`). While the body is read
the same errors come unwrapped and are final (`Read`), and so is the error of a
body above the limit of bytes.

`RetryPolicy` holds no state. Durations are signed integers below `HalfRange`
(2^63 in Go) with wrap-around, fractions are integers out of `Scale`. The loop of
`exponentialDelay` is a recursive function over the attempts.

`DeliveryAttempt` composes them: `Fail` is the rest of `Process` with the reading
`MarkFailed` gives to the delay, `Interrupt` the end of the worker's context or
of its process, `Recover` what the recovery makes of it, `TryAgain` the next
claim of the same delivery. A message that passed the validation once passes it
in every attempt, as it does not change.

### 2.5 FeedCatalogue

A page is determined by the set of feeds that was read, so cache entries and
pending writes hold such sets; the rows of a page are those of the ordered query.
`FirstPageHit`, `FirstPageRead` and `NextPage`
are the three ways through `GetAllFeeds`; `Fill` is the background task, which
may succeed or not; `AddFeed` and `Answer` are the two halves of `PostFeed`.
Several `POST`s and several cache writes can be under way.

### 2.6 Lifecycle

The monolith from the start of its server to the return of `run`. `main` is the
place in `run`; the actions of `Main` are its steps in order, each `select` one
disjunct or action per case. Handlers take connections of the pool for their
queries (`Acquire`, `Release`) and ask for a background task at any point;
`RunInBackground` is one action because flag and wait group change under one
mutex. `Deadline` is the end of the ten seconds and may happen at any time or
never. `pgxpool.Close` refuses new connections and waits for those in use.

### 2.7 RowLocks

One user's channels, one delivery for each of them, and the transactions of the
channel API, the consumer, the worker and another notifier's recovery. A
transaction is the record `tx[a]`: its operation, the statement it is in, the
rows this statement has still to lock, and the channels it has found enabled.
`Lock` takes the next row; PostgreSQL's READ COMMITTED is in three places: a
statement finds its rows in a snapshot taken when it starts (`Begin`,
`SecondStatement`), it looks at its condition again when it gets a lock
(`Matches`), and what a transaction writes is seen at its commit
(`CommitChange`, `Consume`, `CommitFailed`, `CommitRecovery`). `FOR SHARE` of
several rows locks them in any order a plan may scan them in (`AcceptOrders`,
`ResumeOrders`). `Claim` and `MarkSent` are single statements which hold nothing
while they skip or wait, and stay one action.

`Deadlocks` are circles of waiting transactions, and `Abort` fails one of them.
When it is the consumer, `Run` returns the error, `run` cancels the worker
(`Exit`), the process ends and is started again (`Restart`). Attempt numbers,
leases and the dispatch relay, which are `Delivery`'s matter, are left out: a
claim may expire at any moment, and a retry row is a Kafka record at once.

### 2.8 PersonalPosts

A page remembers its rows, and as history the list they were cut from and when
it was read. `Hit` and `Miss` are the two ways through `GetPosts`; `Fill` is the
background task, which may succeed or fail; `Tick` lets time pass and entries
expire. Posts with one `published_at` come in any order, at each query anew.
`FillTime` is how long a background write may take: the Redis client's timeouts
end it (its default options; an assumption about a library outside `src/`).

## 3. What the runs check

| run | instance | shows |
|---|---|---|
| `delivery` | 1 event requested for both of 2 users, one of whom has a channel, 2 workers, 3 attempts, `FairSpec` | the properties of section 3.1, the refinement of `DeliveryPromise`, and liveness |
| `delivery_delete_race` | 1 event, 1 channel, 2 workers | finding 1 |
| `intake` | 2 urls (one not acceptable), 1 feed, 1 follower, 2 relays, 1 partition, 1 disturbed production per row, `FairSpec` | the intake properties, and arrival |
| `intake_shared_url` | 2 feeds that carry the same url, 2 users | finding 2 |
| `fetcher` | 3 feeds, 1 broken, batches of 2, documents of 0 to 2 items, `FairSpec` | turns, completeness, service of healthy feeds |
| `fetcher_starved` | 3 feeds, 2 broken, batches of 2 | finding 3 |
| `catalogue` | 3 feeds, pages of 1 and 2, 1 client, 2 writes in flight | walks are complete and ordered |
| `catalogue_stale_fill` | the same | finding 4 |
| `attempts` | all 6 SMTP configurations and Telegram, 5 bit durations, bases and maxima around powers of two, jitter of 0, 20, 100 %, 6 attempts | senders tell the truth; what may pass is tried again; delays are exact; a provider that keeps silent cannot hold up the delivery |
| `lifecycle` | 2 requests with a background task each, `FairSpec` | no task after shutdown, no success reported too early, the end is reached without the deadline |
| `row_locks` | 2 channels; one request enables or disables the first, another deletes it or the second; consumer, worker, a second recovery; `FairSpec` | no waiting delivery behind a disabled channel, deadlocks only with a deletion, records survive them |
| `posts` | 2 users, 1 client, 3 posts of one feed, two of the same moment, pages of 1 and 2, 2 cached pages, 3 units of time | walks miss nothing, pages are their user's, and not older than the cache allows |

### 3.1 Properties of Delivery

- `AttemptsBounded`: the number of claims of a row is at most the larger of the
  two limits, with crashes, lost claims and repeated records included.
- `ClaimIsExclusive`: no two workers hold the same token, nor the same attempt
  of a delivery.
- `SentMeansAccepted`: a row is `sent` only if the provider took its last
  attempt. A worker that lost its claim cannot mark the row.
- `FailedIffDeadLetter`: the failed rows are those with a dead letter row for
  their last attempt.
- `RetryWaitHasWakeUp`: a row in `retry_wait` has its record in the outbox or in
  a retry topic.
- `DisabledHasNoWaiting`, `BelongsToRecipient`, `TerminalIsFinal`,
  `OnlyHolderEndsClaim`, `BackoffHonoured`: see the comments in the module.
- `EventuallySettled`, `FailureIsReported`: liveness.
- `KeepsPromise`: `Delivery` implements `DeliveryPromise`.

### 3.2 Properties of the attempts, the locks and the post list

- `VerdictMatchesProvider`: `Send` returns nil only of a message that was taken,
  and no error once the positive answer was read. A message is repeated only
  when that answer, or the note of it, was lost.
- `TransientIsRetried`: a broken connection, a 4xx of SMTP, a 429 or 5xx of
  Telegram is not given up before the last attempt, and a refusal, a message that is
  invalid or a server that lacks what is asked for is never tried again. The
  property names what the code exempts from it. Given up although they may pass
  (`Hides`): in STARTTLS mode `client.Extension` drops the error of EHLO
  (`email/sender.go:250`), so a server that answers 421 there fails the delivery for
  good; and an answer of Telegram that is not JSON, such as a 502 of a proxy in
  front of it, or that is too long, is a permanent error whatever its status
  (`telegram/sender.go:156`, `:161`). Every other answer of Telegram counts by its status and
  `error_code`; each part of the exemption is needed, the run fails without it.
  Tried again although they may not pass (`TakenForBroken`): certificates, malformed
  HTTP and reset streams in `client.Do`, and TLS alerts. Given up because the
  delay is zero (`ZeroDelay`): a policy with a jitter of 100 percent or a base of
  a nanosecond, which `NewPolicy` accepts and the default is not; `DelayIsPositive`
  is the theorem for all others. No doc or test says otherwise of
  any of these, so they are not among the findings.
- `DeliveryEnds`: under the fairness of section 3.4 a delivery is sent or failed in
  the end, although the provider may keep silent at any command of any attempt
  and the worker be interrupted. It rests on every wait having a timeout
  (`Limited`): were the deadline of the connection set only after the server's
  greeting, a silent server would stop the worker for good.
- `DisabledHasNoWaiting` (of `RowLocks`): the property of `Delivery`, here with
  the statements of the transactions interleaved. Without the `FOR SHARE` of
  `channelActive` it fails.
- `OnlyDeletionDeadlocks`: each circle of waiting transactions has a
  `DeleteChannel` in it, the one transaction that locks deliveries before their
  channel.
- `RecordsConsumed`: the abort of the consumer's transaction costs a restart of
  the notifier, but no record.
- `WalkComplete` (of `PersonalPosts`): new posts move the rows of an OFFSET away
  from the reader, so a walk may see a post twice but misses none. This is not
  so for a cached page that is older than the page before it, nor for posts of
  the same moment, whose order is not fixed; both are excluded by name.
- `OwnPosts`, `StaleForAMinute`: whose posts a page shows, and how old it is.


### 3.3 Bounds, and why they are enough

Every bound is a CONSTANT or a definition of an MC module.

- *Two workers* are what a race for one row needs; a third would hold a stale claim of an
  earlier attempt, which the second already can.
- *Three attempts* let a row be claimed, lost, recovered, retried and given up.
  The proofs hold for every limit.
- *One event for two users, one with a channel*, is the smallest instance in
  which a repeated `event_id` could create rows for a second user. Deliveries
  share nothing but their channel and the transactions that work on several
  rows: these are the subject of `RowLocks`, and the theorems of section 4 hold
  for any number of events, users, channels and workers.
- *One disturbed production per row* (`MaxFaults`) bounds the length of the log.
  `DuplicatesNeedFaults` relates the two numbers, so a larger bound repeats the
  same step.
- *One feed and one follower* with two urls in `intake`: rows race, overtake each other
  after a deferral and share a partition. Two feeds are in `intake_shared_url`.
- *Batches of two out of three feeds* leave one feed outside each batch; one
  broken feed takes one place of two.
- *Three feeds and pages of one and two* give a first page, a middle and an end.
- *Five bits* (`HalfRange` is 16) let doubling overflow within six attempts (7, 14, 28 > 15), and
  the policies put base and maximum next to powers of two.
- *Two channels and two requests* in `row_locks` let a transaction hold one
  channel and wait for another, and let three transactions form a circle; `Requests`
  names what the two may ask for, with the deletion of the first or of the
  second channel.
- *Two users, one client and pages of one and two posts* let a page be cached
  for one user and size and be asked for by the other, in three units of time a
  page be read, written late, and expire. Clients share only the cache, so a walk
  that follows another one stands for a second client.
- *Two requests* in `lifecycle` let one handler be cut off by the deadline while
  the other has a task running; requests do not interact otherwise.

Deadlock checking is off for Delivery, DeliveryAttempt, RowLocks, PersonalPosts
and Lifecycle, because the modelled parts may come to rest: nothing is requested
any more, the delivery ended, the clock has reached its bound, the process
returned.

### 3.4 Fairness, and why the code justifies it

*Delivery.* Consumer, worker, recovery ticker and relay are loops that run for
ever, and `docker-compose.yml` restarts notifier and relays (`unless-stopped`):
weak fairness of `ConsumeRetry`, of a worker's own steps, of
`RecoverExpired` and of `RelayPublish`; weak fairness of `LeaseExpires` is the
passing of time. `Claim` is strongly fair, because `pending` rows can be taken
away and come back (a channel that is disabled, a locked row) while the worker
polls for ever. `Abandon`, `RelayUnconfirmed` and `ConsumeUncommitted` may
happen any number of times, but not always in place of the step that makes
progress. `DeleteCommit` is strongly fair: a client that asks for the deletion
again and again is not rolled back each time. Nothing is assumed of users,
of providers, or of requests.

*RequestIntake.* The relay polls (weak fairness of `SelectRow` and
`ScheduleRetry`), a row that is tried again and again is produced and marked one
day (strong fairness per row: brokers and databases recover), a deferral ends,
and a record that is polled again and again is processed and committed one day.

*FeedFetcher.* The ticker fires for ever; every step of a goroutine ends, since
HTTP and database calls have timeouts. A feed that is not `Broken` is
downloaded, saved and marked one day when tried again and again. Nothing is
assumed of a broken feed. After `Stop` the process is started again; the compose
file has no restart policy for the monolith, so this is an assumption about its
operator.

*RowLocks.* A transaction that need not wait goes on, and PostgreSQL breaks
deadlocks (weak fairness of `Continue` for consumer, worker and recovery).
Transactions that share a channel could keep one that wants it for itself
waiting for ever; a lock the channel API is offered again and again it gets, as
the sharers are single short transactions of three loops (strong fairness). A
record that is polled again and again is taken up, and the process is restarted
(`unless-stopped`).

*DeliveryAttempt.* Answers of a provider are not fair: it may never give one. What is
fair (weakly) is the end of each wait (`TimeOut`, in which the command fails as
broken), what waits for nobody (`Compute`), the store's part (`Fail`, `MarkSent`, which also
`Interrupt` may pre-empt), the recovery's ticker and the next claim.

*Lifecycle.* Every goroutine that can run does; queries, downloads and background
tasks end, and a handler or a batch makes finitely many queries (strong fairness
of `Respond` and `EndBatch`). Nothing is assumed of signals, clients or the
deadline: `ShutdownEnds` holds although the deadline may never pass.

## 4. What is proved

Each component has a module of proofs, with an inductive invariant `IInv` that
TLC checked on the component's run before it was proved. The theorems hold for
every value of the constants that satisfies the `ASSUME`s of the component's
module, which TLC evaluates in each run.

| module | theorem | property |
|---|---|---|
| `DeliveryProofs` | `TypeCorrect` | `TypeOK` |
| | `Invariance` | `IInv` |
| | `AttemptsAreBounded` | `AttemptsBounded` |
| | `ClaimsAreExclusive` | `ClaimIsExclusive` |
| | `SentIsHonest` | `SentMeansAccepted` |
| | `FailureHasDeadLetter` | `FailedIffDeadLetter` |
| | `RetryIsNeverStranded` | `RetryWaitHasWakeUp` |
| | `DisabledIsQuiet` | `DisabledHasNoWaiting` |
| | `OnlyRecipients` | `BelongsToRecipient` |
| | `TerminalStaysFinal` | `TerminalIsFinal` |
| | `ClaimsEndByHolder` | `OnlyHolderEndsClaim` |
| | `RetriesKeepBackoff` | `BackoffHonoured` |
| | `DeliveryKeepsPromise` | `KeepsPromise` |
| `RowLocksProofs` | `DisabledHasNoWaitingTheorem` | `DisabledHasNoWaiting` |
| | `OnlyDeletionDeadlocksTheorem` | `OnlyDeletionDeadlocks` |
| `RequestIntakeProofs` | `TypeCorrect` | `TypeOK` |
| | `CommittedIsHandledTheorem` | `CommittedIsHandled` |
| | `NoRequestLostTheorem` | `NoRequestLost` |
| | `DuplicatesNeedFaultsTheorem` | `DuplicatesNeedFaults` |
| | `InboxIsIntendedTheorem` | `InboxIsIntended` |
| `FeedFetcherProofs` | `TypeCorrect` | `TypeOK` |
| | `OvertakenOnceTheorem` | `OvertakenOnce` |
| | `FetchedMeansSavedTheorem` | `FetchedMeansSaved` |
| `DeliveryAttemptProofs` | `VerdictMatchesProviderTheorem` | `VerdictMatchesProvider` |
| | `ExponentialIsExact` | |
| | `DelayIsPositive` | |
| | `TypeCorrect` | `TypeOK` |
| | `DelayInBandTheorem` | `DelayInBand` |
| | `TransientIsRetriedTheorem` | `TransientIsRetried` |
| `FeedCatalogueProofs` | `WalkOrderedTheorem` | `WalkOrdered` |
| | `WalkCompleteTheorem` | `WalkComplete` |
| `PersonalPostsProofs` | `OwnPostsTheorem` | `OwnPosts` |
| | `WalkCompleteTheorem` | `WalkComplete` |
| | `StaleForAMinuteTheorem` | `StaleForAMinute` |
| `LifecycleProofs` | `NoTaskAfterShutdownTheorem` | `NoTaskAfterShutdown` |
| | `CleanExitIsQuietTheorem` | `CleanExitIsQuiet` |

### 4.1 Delivery

For every set of events, users, channels and workers, every request set and all
positive limits. Assumptions: each channel has one owner, requests are pairs of
an event and a user, the two limits and the size of a recovery batch are
positive.

None of the properties is inductive alone. `IInv` adds:

- `RowsOK`: the claim columns are set exactly while a row is processed; tokens
  were given out before; a waiting row is below the limit and its channel is
  enabled or deleted.
- `TasksOK`: the token of a task was given out and is that of no other row; if
  a row still has it, the task is about that row and its current attempt; a task
  that ended well has its acceptance recorded. This is what makes the
  comparison of tokens enough: `MarkSent` finds the token only if no attempt
  has begun since.
- `OutboxOK`: outbox rows speak of attempts that were made, never of the one in
  progress, and a dead letter is always the end of its delivery.
- `FailedHasDeadLetter`, one half of `FailedIffDeadLetter`; the other half is in
  `OutboxOK`.
- `LocksOK`: the rows an open `DeleteChannel` holds stay waiting.

`RetryWaitHasWakeUp` needs `OutboxOK`: when `MarkFailed` writes the record of an
attempt, no row for that attempt can have been published already. Each conjunct
has a lemma with one step per action; `Invariance` puts them together. The
action properties follow from one application of the invariant to a step, and so
does the refinement: every step, seen through the mapping that joins `pending`,
`processing` and `retry_wait` into `open`, is a step of `DeliveryPromise` or a
stutter.

### 4.2 RowLocks

For every finite set of channels, any number of API requests and whatever they
ask for. Assumptions: the three loops are three actors, and none of them an API
request; there are finitely many channels, as one user's channels are rows of a
table.

The invariant says per transaction what it may rely on, `TxOK`: an
operation and its statement determine the mode of the locks (`ModeOK`), which
rows it holds and which are still to be locked (`SetEnabledOK`, `AcceptOK`,
`ResumeOK`, `FailOK`, `RecoverOK`), and that a channel it has seen enabled is
locked by it and still enabled (`SeenOK`). `CompatOK` is the lock manager's
promise: two holders of a row share it. The proof is about interference: a step
of one actor (`OnlyActs`) changes no row that another one has locked, and makes
a delivery waiting only where it has seen the channel enabled. So what each
transaction knows survives the steps of the others, and a transaction that
disables a channel, which needs the row for itself, knows of every delivery
that waits on it. For `OnlyDeletionDeadlocks`: in a circle without a deletion
whoever holds a delivery has only channels left to lock, and one that waits for
a channel to change it holds nothing and so keeps nobody waiting; the others
share channels and do not wait for each other.

### 4.3 RequestIntake

For all sets of urls, feeds, users and partitions, any number of relays and
of disturbed productions. Assumptions: a user's records go to one partition, and
the value that says that no partition is in hand is none.

`OutboxOK` says what a row of the outbox was written for; `RelayOK` ties
a relay in a transaction to its row (it is neither marked nor deferred, and no
other relay has locked it); `RecordsOK` lets the log hold nothing but requests of
the outbox; `CopiesOK` counts: a row that is marked or acknowledged has a record,
and each record is accounted for by the mark, the acknowledgement or a
disturbance; `ConsumerOK` is about the record in hand and the committed offset.

### 4.4 FeedFetcher

For all feeds, documents and sizes of a batch. Assumptions: a document is a
sequence of urls and unusable items, and the unusable item is no url.

`PassedOK` is the argument for taking turns: a feed that has overtaken another
one stands behind it in the queue, so no later batch, which is a beginning of the
queue, takes it without the other. It needs lemmas on inserting and
removing in a sequence (`InsertedOrder`, `RemovedOrder`) and that a batch is the
beginning of the queue (`NextFeedsAreFirst`). `ItemsOK` says that the items a
goroutine has behind it are stored.

### 4.5 DeliveryAttempt

For every SMTP configuration and all answers, every policy
`NewPolicy` accepts, every attempt and whatever `RandomFloat64` returns.
Assumptions: durations are bounded, and the delays a provider asks for are
durations.

`DialogueOK` describes the commands left by the way they end (in SMTP the end of DATA and
QUIT, at Telegram the decoding), so that the positive answer cannot have been
read while more than QUIT is to come.

`ExponentialIsExact` says that the loop of `exponentialDelay`, with its two
comparisons before the doubling, computes the delay of exact arithmetic. The loop
is a recursive function, and the induction over its rounds is done by hand: of
the rounds that would be wrong there is a first one (`LeastNumber`), and the one
before it is right, so `RoundIsExact` makes it right too. `LoopExists` shows the
same way that such a function exists at all, since its definition is a `CHOOSE`.
`Jittered` bounds the product with the random factor, `NextDelayInBand` puts both
together, and `DelayIsPositive` follows from it for policies whose shortest delay is
not zero (`NeverZero`).

`AttemptInv` then follows the error from the command that failed to the store.
`Answers` says of every command that it goes on or returns an error that is
`Explained`: the policy takes it for one that may pass exactly if its cause may,
or the error hides the cause, or the cause is taken for a broken connection.
`Noted` says what a state of the delivery tells of the
verdict: a `retry_wait` of an error that may be tried again and of one of its
delays; a `failed` of the last attempt, of an error that may not, or of a
policy that allows a delay of zero. `TransientIsRetried` rests on both.

### 4.6 FeedCatalogue and PersonalPosts

For all feeds, posts, dates, users, clients, page sizes and any number of writes
on their way. In `FeedCatalogue` a walk has shown all known feeds up to its
cursor and nothing beyond it (`WalkOK`); pages are parts of the table however old
they are, since feeds are never deleted (`TablesOK`). In `PersonalPosts` the place of
a post with a moment of its own is its rank, the number of newer posts in the
list. Ranks only grow as posts are saved, so what a walk has not shown is never
before its offset (`WalkOK`); cache entries and pending writes carry the list
they were cut from, its owner and its age (`CacheOK`, `FillsOK`).

### 4.7 Lifecycle

For any number of requests. The invariant collects for each place in `run` what
has ended by then: the server and its handlers (`ServerOK`), the background
tasks (`BackgroundOK`) and the worker (`WorkerOK`), or that `run` has an error
to report.

### 4.8 Only model-checked

*Liveness* and what rests on fairness: `EventuallySettled`,
`FailureIsReported`, the arrival of requests, `HealthyFeedsServed`,
`RecordsConsumed`, `DeliveryEnds`, `ShutdownEnds`. They are outside the reach of the prover, like
`ENABLED`. So is the rounding of `float64`, which the model leaves out.

## 5. Findings

1. **A deletion can leave a delivery waiting for ever** (`delivery_delete_race`,
   `postgres/channels.go:152`). `DeleteChannel` cancels waiting deliveries, then
   deletes the channel. A request that is accepted, a lease that is recovered or a
   failure recorded in between leaves a `pending` or `retry_wait` row behind.
   Nothing settles it, as `Claim` joins the channel. `RetryWaitHasWakeUp`,
   `DisabledHasNoWaiting` and `EventuallySettled` are stated with that in mind
   ("unless its channel is deleted").
2. **Items shared by two feeds** (`intake_shared_url`, `save_post.go:20`).
   `posts.url` is unique over all feeds, so followers of the feed scraped
   second are not notified.
3. **Broken feeds starve the others** (`fetcher_starved`, `worker.go:108`). A feed
   whose download fails keeps its place at the head of the queue; as many of them as
   a batch has room for (three) occupy every batch.
4. **A stale first page** (`catalogue_stale_fill`, `get_all_feeds.go:67`). A page that
   was read before a feed was added can be written to Redis after `PostFeed`
   deleted the key, and is served for up to a minute.

## 6. What is not modelled

- *Formatting, HTTP decoding, JSON, XML, MIME, logging*: no property is about them.
- *The lengths of the timers* of a `Send` (10 and 15 seconds) and of the lease (a
  minute): the model knows which wait is ended, not after how long. A lease may
  expire at any moment in `Delivery`.
- *The `notification.invalid` record* that the consumer writes for a request
  which reuses an `event_id` with other content (`consumer.go:74`): in `Delivery` such a
  request changes nothing. No property depends on that record.
- *Kafka rebalances*: the consumer blocks them while it processes a record
  (`BlockRebalanceOnPoll`), so one consumer holds all partitions in the model.
- *The start of the commands*: connecting to PostgreSQL, Kafka and Redis is
  sequential and returns the first error. The relay runs one loop.
- *Users, API keys, tokens*: each request is a single insert or a check of a
  token without memory; the checking itself is that of the library `golang-jwt`.
- *Gateway, notification-api wiring, configuration*: pure I/O and parsing.
- *The former notification worker* (`internal/notification/worker`,
  `postgres/deliveries.go`, `postgres/outbox.go`): no command imports it any more.

## 7. Plan

Done: `Delivery` with its promise and proofs, `RequestIntake`, `FeedFetcher`,
`FeedCatalogue`, `Lifecycle`, the senders and the policy in `DeliveryAttempt`,
`RowLocks`, `PersonalPosts`.

Proved: the type invariants, safety invariants and action properties of all of
them, and the refinement of the promise.

Modules that could follow: `NotificationSystem`, `RequestIntake` and `Delivery`
over one inbox, from the post to the end of its deliveries.
