------------------------------ MODULE RowLocks ------------------------------
(***************************************************************************)
(* The row locks behind the transactions of Delivery: the statements of    *)
(* the channel API, the consumer, the worker and the recovery on the       *)
(* channels of one user and on the deliveries of one request, one delivery *)
(* per channel; and the notifier process, which ends when its consumer     *)
(* does and is started again.                                              *)
(*                                                                         *)
(* PostgreSQL runs the transactions READ COMMITTED.  A statement finds its *)
(* rows in a snapshot taken when it starts, locks them one after the       *)
(* other, waits for a row somebody else holds, and looks at its condition  *)
(* again, on the committed row, when it gets the lock.  What a transaction *)
(* has written nobody sees before it commits; what it has locked nobody    *)
(* else changes.  The transactions of one statement that skip locked rows  *)
(* never wait and are one action.                                          *)
(***************************************************************************)
EXTENDS Naturals, Sequences, SequencesExt

CONSTANTS
    Channels,    \* the channels of the user; also names their deliveries
    ApiRequests, \* ids of requests to the channel API, each served once
    Requests,    \* what each of them may ask for: [id, op, channel] records
    Consumer,    \* Consumer.Run of the notifier
    Worker,      \* Worker.Run of the notifier
    Recovery     \* RecoverExpired of another notifier's worker

ASSUME RequestsAssumption ==
    Requests \subseteq [id : ApiRequests, op : {"enable", "disable", "delete"},
                        channel : Channels]
ASSUME ChannelsAssumption == IsFiniteSet(Channels)
ASSUME ActorsAssumption ==
    /\ Consumer # Worker /\ Consumer # Recovery /\ Worker # Recovery
    /\ {Consumer, Worker, Recovery} \cap ApiRequests = {}

Actors == ApiRequests \union {Consumer, Worker, Recovery}

Waiting == {"pending", "retry_wait"}

ChannelRow(c)  == <<"channel", c>>
DeliveryRow(c) == <<"delivery", c>>

\* The records of the consumer's topics: the request, and the retry records
\* by the channel of their delivery.
Request == "request"
Records == {Request} \union Channels

VARIABLES
    channel,   \* committed: enabled, disabled or deleted
    status,    \* committed: notification_deliveries.status, "none" before
    tx,        \* per actor: the transaction it is in
    held,      \* per actor: the row locks it holds
    records,   \* Kafka records whose offset is not committed
    task,      \* the tasks the worker holds: none or one
    notifier   \* the process: up, stopping or down

vars == <<channel, status, tx, held, records, task, notifier>>

\* A transaction is a record of what it does, "op"; for which channel or Kafka
\* record, "arg"; the statement it is in, "stmt"; the rows this statement has
\* still to lock, "todo"; and the channels it has found enabled, "seen".  A
\* lock is a row and whether it is exclusive.
Idle == [op |-> "idle"]
Done == [op |-> "done"]

Init ==
    /\ channel \in [Channels -> {"enabled", "disabled"}]
    /\ status = [c \in Channels |-> "none"]
    /\ tx = [a \in Actors |-> Idle]
    /\ held = [a \in Actors |-> {}]
    /\ records = {Request}
    /\ task = {}
    /\ notifier = "up"

-----------------------------------------------------------------------------
(* Locks.                                                                  *)

InTx(a) == tx[a] \notin {Idle, Done}

\* UPDATE and DELETE lock a row exclusively, FOR SHARE among each other not.
Exclusive(a, row) ==
    row[1] = "delivery" \/ tx[a].op \in {"enable", "disable", "delete"}

\* The transactions the next lock of a waits for.
Blockers(a) ==
    IF ~InTx(a) \/ tx[a].todo = <<>> THEN {}
    ELSE LET row == Head(tx[a].todo) IN
         {b \in Actors \ {a} : \E lock \in held[b] :
             lock.row = row /\ (lock.exclusive \/ Exclusive(a, row))}

HeldByOthers(a, row) ==
    \E b \in Actors \ {a} : \E lock \in held[b] : lock.row = row

\* The condition of the statement, looked at again under the lock.
Matches(a, row) ==
    IF row[1] = "channel" THEN channel[row[2]] # "deleted"
    ELSE status[row[2]] \in
            CASE tx[a].op \in {"disable", "delete"} -> Waiting
              [] tx[a].op = "resume"                -> {"retry_wait"}
              [] tx[a].op = "fail"                  -> {"processing"}

\* Mutant: channelActive reads the channel without FOR SHARE.
KeptUnlessRead(a, row) ==
    IF tx[a].op \in {"fail", "recover"} /\ row[1] = "channel" THEN {}
    ELSE {[row |-> row, exclusive |-> Exclusive(a, row)]}

\* The lock that stays with the transaction until it ends.
Kept(a, row) == {[row |-> row, exclusive |-> Exclusive(a, row)]}

Position(s, row) == CHOOSE i \in DOMAIN s : s[i] = row
Without(s, row) == IF row \in Range(s) THEN RemoveAt(s, Position(s, row)) ELSE s

\* The next row: when it no longer matches, the statement goes on without it
\* and without the delivery that joins it.
Lock(a) ==
    /\ InTx(a)
    /\ tx[a].todo # <<>>
    /\ Blockers(a) = {}
    /\ LET row == Head(tx[a].todo)
           rest == Tail(tx[a].todo)
           enabled == row[1] = "channel" /\ channel[row[2]] = "enabled"
           joined == row[1] = "delivery" \/ enabled
       IN
       /\ held' = [held EXCEPT ![a] =
                     @ \union IF Matches(a, row) THEN Kept(a, row) ELSE {}]
       /\ tx' = [tx EXCEPT ![a] =
                   [@ EXCEPT !.todo = IF joined THEN rest
                                          ELSE Without(rest, DeliveryRow(row[2])),
                             !.seen = tx[a].seen \union IF enabled THEN {row[2]} ELSE {}]]
    /\ UNCHANGED <<channel, status, records, task, notifier>>

Holds(a, row) == \E lock \in held[a] : lock.row = row

\* The first statement of a transaction, with the rows its snapshot has found.
Begin(a, op, arg, todo) ==
    /\ tx[a] = Idle
    /\ tx' = [tx EXCEPT ![a] = [op |-> op, arg |-> arg, stmt |-> 1,
                                todo |-> todo, seen |-> {}]]

\* All rows of statement n are locked.
Ready(a, ops, n) ==
    InTx(a) /\ tx[a].op \in ops /\ tx[a].stmt = n /\ tx[a].todo = <<>>

\* The second statement takes a snapshot of its own.
SecondStatement(a, todo) ==
    /\ tx' = [tx EXCEPT ![a] = [@ EXCEPT !.stmt = 2, !.todo = todo]]
    /\ UNCHANGED <<channel, status, held, records, task, notifier>>

\* COMMIT and ROLLBACK: the locks are released.
End(a) ==
    /\ tx' = [tx EXCEPT ![a] = IF a \in ApiRequests THEN Done ELSE Idle]
    /\ held' = [held EXCEPT ![a] = {}]

ChannelRows(c) == IF channel[c] = "deleted" THEN <<>> ELSE <<ChannelRow(c)>>
WaitingRows(c) == IF status[c] \in Waiting THEN <<DeliveryRow(c)>> ELSE <<>>

-----------------------------------------------------------------------------
(* The channel API.                                                        *)

\* SetChannelEnabled updates the channel first and DeleteChannel the deliveries.
ServeRequest(r) ==
    /\ Begin(r.id, r.op, r.channel,
             IF r.op = "delete" THEN WaitingRows(r.channel) ELSE ChannelRows(r.channel))
    /\ UNCHANGED <<channel, status, held, records, task, notifier>>

\* The channel is not there: 404, and the transaction is rolled back.
NotFound(a) ==
    /\ Ready(a, {"enable", "disable"}, 1) \/ Ready(a, {"delete"}, 2)
    /\ ~Holds(a, ChannelRow(tx[a].arg))
    /\ End(a)
    /\ UNCHANGED <<channel, status, records, task, notifier>>

DisableSecond(a) ==
    /\ Ready(a, {"disable"}, 1)
    /\ Holds(a, ChannelRow(tx[a].arg))
    /\ SecondStatement(a, WaitingRows(tx[a].arg))

DeleteSecond(a) ==
    /\ Ready(a, {"delete"}, 1)
    /\ SecondStatement(a, ChannelRows(tx[a].arg))

CommitChange(a) ==
    /\ Ready(a, {"enable"}, 1) \/ Ready(a, {"disable", "delete"}, 2)
    /\ LET c == tx[a].arg IN
       /\ Holds(a, ChannelRow(c))
       /\ channel' = [channel EXCEPT ![c] =
             CASE tx[a].op = "enable"  -> "enabled"
               [] tx[a].op = "disable" -> "disabled"
               [] tx[a].op = "delete"  -> "deleted"]
       /\ status' = [status EXCEPT ![c] =
             IF Holds(a, DeliveryRow(c)) THEN "cancelled" ELSE @]
    /\ End(a)
    /\ UNCHANGED <<records, task, notifier>>

-----------------------------------------------------------------------------
(* The consumer.                                                           *)

EnabledChannels == {c \in Channels : channel[c] = "enabled"}

\* FOR SHARE locks the enabled channels in whatever order the plan scans them.
AcceptOrders == SetToSeqs({ChannelRow(c) : c \in EnabledChannels})

\* ResumeRetry joins the delivery with the user's enabled channels, which it
\* locks as it scans them; the delivery is updated when its own channel has
\* been.  A plan that looks at the delivery first locks nothing for one that
\* does not wait.
JoinedRows(c) ==
    {ChannelRow(x) : x \in EnabledChannels}
      \union (IF status[c] = "retry_wait" /\ c \in EnabledChannels
                THEN {DeliveryRow(c)} ELSE {})

\* Mutant: the delivery is updated before the channels are locked.
DeliveryFirst(c) ==
    {s \in SetToSeqs(JoinedRows(c)) :
        DeliveryRow(c) \in JoinedRows(c) => s[1] = DeliveryRow(c)}

ResumeOrders(c) ==
    {s \in SetToSeqs(JoinedRows(c)) :
        DeliveryRow(c) \in JoinedRows(c) =>
            Position(s, ChannelRow(c)) < Position(s, DeliveryRow(c))}
      \union (IF status[c] = "retry_wait" THEN {} ELSE {<<>>})

Poll(r) ==
    /\ notifier = "up"
    /\ r \in records
    /\ \/ r = Request /\ \E s \in AcceptOrders : Begin(Consumer, "accept", r, s)
       \/ r # Request /\ \E s \in ResumeOrders(r) : Begin(Consumer, "resume", r, s)
    /\ UNCHANGED <<channel, status, held, records, task, notifier>>

\* The deliveries of the request are created once; the offset is committed
\* when the transaction is.
Consume ==
    /\ Ready(Consumer, {"accept", "resume"}, 1)
    /\ LET t == tx[Consumer] IN
       /\ status' = [c \in Channels |->
             IF \/ t.op = "accept" /\ c \in t.seen /\ status[c] = "none"
                \/ t.op = "resume" /\ Holds(Consumer, DeliveryRow(c))
             THEN "pending" ELSE status[c]]
       /\ records' = records \ {t.arg}
    /\ End(Consumer)
    /\ UNCHANGED <<channel, task, notifier>>

-----------------------------------------------------------------------------
(* The worker, and the recovery of leases.                                 *)

Free(a, c) == ~HeldByOthers(a, ChannelRow(c)) /\ ~HeldByOthers(a, DeliveryRow(c))

\* Claim locks the delivery and its channel and skips what is locked.
Claim(c) ==
    /\ notifier = "up"
    /\ tx[Worker] = Idle
    /\ task = {}
    /\ status[c] = "pending"
    /\ channel[c] = "enabled"
    /\ Free(Worker, c)
    /\ status' = [status EXCEPT ![c] = "processing"]
    /\ task' = {c}
    /\ UNCHANGED <<channel, tx, held, records, notifier>>

\* One statement on one row: it waits, and holds nothing while it does.
MarkSent(c) ==
    /\ tx[Worker] = Idle
    /\ c \in task
    /\ ~HeldByOthers(Worker, DeliveryRow(c))
    /\ status' = [status EXCEPT ![c] = IF @ = "processing" THEN "sent" ELSE @]
    /\ task' = {}
    /\ UNCHANGED <<channel, tx, held, records, notifier>>

\* MarkFailed asks channelActive, then updates the delivery.
MarkFailed(c) ==
    /\ c \in task
    /\ Begin(Worker, "fail", c, ChannelRows(c))
    /\ UNCHANGED <<channel, status, held, records, task, notifier>>

FailSecond ==
    /\ Ready(Worker, {"fail"}, 1)
    /\ LET c == tx[Worker].arg IN
       SecondStatement(Worker,
           IF status[c] = "processing" THEN <<DeliveryRow(c)>> ELSE <<>>)

\* A row of another status is a stale claim, and the transaction is rolled
\* back.  The relay turns the row of the dispatch outbox into a record.
CommitFailed ==
    /\ Ready(Worker, {"fail"}, 2)
    /\ LET c == tx[Worker].arg IN
       \E failed \in IF ~Holds(Worker, DeliveryRow(c)) THEN {status[c]}
                     ELSE IF c \notin tx[Worker].seen THEN {"cancelled"}
                     ELSE {"retry_wait", "failed"} :
          /\ status' = [status EXCEPT ![c] = failed]
          /\ records' = IF Holds(Worker, DeliveryRow(c)) /\ failed = "retry_wait"
                          THEN records \union {c} ELSE records
    /\ task' = {}
    /\ End(Worker)
    /\ UNCHANGED <<channel, notifier>>

\* RecoverExpired locks expired claims nobody has locked, then asks
\* channelActive for each of them.
RecoverExpired(a) ==
    /\ a = Worker => notifier = "up" /\ task = {}
    /\ \E S \in SUBSET {c \in Channels : /\ status[c] = "processing"
                                         /\ ~HeldByOthers(a, DeliveryRow(c))} :
          /\ S # {}
          /\ held' = [held EXCEPT ![a] =
                {[row |-> DeliveryRow(c), exclusive |-> TRUE] : c \in S}]
          /\ \E s \in SetToSeqs({ChannelRow(c) :
                         c \in {x \in S : channel[x] # "deleted"}}) :
                Begin(a, "recover", Request, s)
    /\ UNCHANGED <<channel, status, records, task, notifier>>

\* Back to pending, or failed when the attempts are used up.
CommitRecovery(a) ==
    /\ Ready(a, {"recover"}, 1)
    /\ \E exhausted \in SUBSET Channels :
          status' = [c \in Channels |->
             IF ~Holds(a, DeliveryRow(c)) THEN status[c]
             ELSE IF c \notin tx[a].seen THEN "cancelled"
             ELSE IF c \in exhausted THEN "failed" ELSE "pending"]
    /\ End(a)
    /\ UNCHANGED <<channel, records, task, notifier>>

-----------------------------------------------------------------------------
(* Deadlocks, and the notifier process.                                    *)

\* The sets of transactions each of which waits for another one of the set.
Deadlocks ==
    {S \in SUBSET {a \in Actors : Blockers(a) # {}} :
        S # {} /\ \A a \in S : Blockers(a) \cap S # {}}

\* PostgreSQL breaks a deadlock by failing one of its transactions.  An error
\* of the consumer ends Consumer.Run; the worker logs it and drops the task.
Abort(a) ==
    /\ a \in UNION Deadlocks
    /\ End(a)
    /\ task' = IF a = Worker THEN {} ELSE task
    /\ notifier' = IF a = Consumer THEN "stopping" ELSE notifier
    /\ UNCHANGED <<channel, status, records>>

\* Mutant: the context of the worker is not cancelled.
NeverCancelled == FALSE

\* run receives the result of the consumer and cancels the worker's context.
WorkerCancelled == notifier = "stopping"

\* Its transaction is rolled back and its task dropped; the process exits.
Exit ==
    /\ WorkerCancelled
    /\ notifier' = "down"
    /\ End(Worker)
    /\ task' = {}
    /\ UNCHANGED <<channel, status, records>>

\* restart: unless-stopped
Restart ==
    /\ notifier = "down"
    /\ notifier' = "up"
    /\ UNCHANGED <<channel, status, tx, held, records, task>>

-----------------------------------------------------------------------------

Api(a) == NotFound(a) \/ DisableSecond(a) \/ DeleteSecond(a) \/ CommitChange(a)

Recover(a) == RecoverExpired(a) \/ CommitRecovery(a)

Next ==
    \/ \E a \in Actors : Lock(a) \/ Abort(a)
    \/ \E r \in Requests : ServeRequest(r)
    \/ \E a \in ApiRequests : Api(a)
    \/ \E r \in Records : Poll(r)
    \/ Consume
    \/ \E c \in Channels : Claim(c) \/ MarkSent(c) \/ MarkFailed(c)
    \/ FailSecond \/ CommitFailed
    \/ \E a \in {Worker, Recovery} : Recover(a)
    \/ Exit
    \/ Restart

Spec == Init /\ [][Next]_vars

\* A transaction that need not wait goes on.  Sharers of a channel could keep
\* SetChannelEnabled and DeleteChannel waiting; a lock they are offered again
\* and again they get.  A deadlock is broken, and Kafka hands out every record
\* whose offset is not committed.
Continue(a) ==
    \/ Lock(a) \/ Abort(a)
    \/ a \in ApiRequests /\ Api(a)
    \/ a = Consumer /\ Consume
    \/ a = Worker /\ (FailSecond \/ CommitFailed)
    \/ a # Consumer /\ CommitRecovery(a)

Fairness ==
    /\ \A a \in {Consumer, Worker, Recovery} : WF_vars(Continue(a))
    /\ \A a \in ApiRequests : SF_vars(Continue(a))
    /\ \A r \in Records : SF_vars(Poll(r))
    /\ WF_vars(Exit \/ Restart)

FairSpec == Spec /\ Fairness

-----------------------------------------------------------------------------
(* Properties.                                                             *)

\* Whatever the order of the statements, once a SetChannelEnabled that
\* disables has committed, no delivery of the channel waits: the row locks
\* make the transactions of SetChannelEnabled, AcceptRequest, ResumeRetry,
\* MarkFailed and RecoverExpired atomic, which Delivery takes for granted.
DisabledHasNoWaiting ==
    \A c \in Channels : channel[c] = "disabled" => status[c] \notin Waiting

\* Every deadlock has a DeleteChannel in it: all the other transactions lock a
\* channel before a waiting delivery of it, DeleteChannel after.
OnlyDeletionDeadlocks ==
    \A S \in Deadlocks : \E a \in S : tx[a].op = "delete"

\* A record is handled even when a deadlock ends the consumer: run stops the
\* worker with it, the process exits and is started again.
RecordsConsumed == \A r \in Records : r \in records ~> r \notin records

=============================================================================
