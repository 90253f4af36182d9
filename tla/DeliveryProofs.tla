--------------------------- MODULE DeliveryProofs ---------------------------
(***************************************************************************)
(* The safety properties of Delivery, for every number of events, users,   *)
(* channels, workers and attempts.  TypeOK is inductive by itself; the     *)
(* other parts of IInv are proved together, one lemma per action.  The     *)
(* last part is the refinement of DeliveryPromise.                         *)
(***************************************************************************)
EXTENDS Delivery, TLAPS

\* A delivery is a pair of an event and a channel.
LEMMA DeliveryParts ==
    ASSUME NEW d \in Deliveries
    PROVE  d[1] \in Events /\ ChannelOf(d) \in Channels
BY DEF Deliveries, ChannelOf

\* What a worker holds is Idle or a task, told apart by the phase.
LEMMA TaskParts ==
    ASSUME TypeOK, NEW w \in Workers
    PROVE  /\ task[w] # Idle <=> task[w] \in Tasks
           /\ task[w].phase \in {"claimed"} \union Outcomes => task[w] # Idle
           /\ task[w] \in Tasks =>
                /\ task[w].id \in Deliveries
                /\ task[w].token \in Nat
                /\ task[w].attempts \in Nat
                /\ task[w].phase \in {"claimed"} \union Outcomes
<1>1. Idle.phase = "idle"
  BY DEF Idle
<1>2. \A t \in Tasks : t.phase # "idle" /\ t.id \in Deliveries
                       /\ t.token \in Nat /\ t.attempts \in Nat
                       /\ t.phase \in {"claimed"} \union Outcomes
  BY DEF Tasks, Outcomes
<1>3. task[w] \in Tasks \union {Idle}
  BY DEF TypeOK
<1> QED
  BY <1>1, <1>2, <1>3 DEF Outcomes

-----------------------------------------------------------------------------
(* Type correctness.                                                       *)

LEMMA RowIsTyped ==
    ASSUME NEW d \in Deliveries, NEW n \in Nat
    PROVE  RetryRow(d, n) \in DispatchRows /\ DlqRow(d, n) \in DispatchRows
BY DEF RetryRow, DlqRow, DispatchRows

LEMMA TypeInductive == TypeOK /\ [Next]_vars => TypeOK'
<1> SUFFICES ASSUME TypeOK, [Next]_vars
             PROVE  TypeOK'
  OBVIOUS
<1> USE DEF channelVars, rowVars, outboxVars, kafkaVars, workerVars
<1>1. ASSUME NEW r \in Requests, AcceptRequest(r) PROVE TypeOK'
  BY <1>1 DEF TypeOK, AcceptRequest, Statuses, Waiting
<1>2. ASSUME NEW r \in retryTopic, ConsumeRetry(r) \/ ConsumeUncommitted(r)
      PROVE  TypeOK'
  BY <1>2 DEF TypeOK, ConsumeRetry, ConsumeUncommitted, ResumeRetry, Statuses, Waiting
<1>3. ASSUME NEW w \in Workers, NEW d \in Deliveries, Claim(w, d) PROVE TypeOK'
  <2> DEFINE t == [phase |-> "claimed", id |-> d, token |-> lastToken + 1,
                   attempts |-> attempts[d] + 1]
  <2>1. t \in Tasks
    BY DEF TypeOK, Tasks
  <2>2. task' = [task EXCEPT ![w] = t]
    BY <1>3 DEF Claim, Take
  <2> HIDE DEF t
  <2> QED
    BY <1>3, <2>1, <2>2 DEF TypeOK, Claim, Take, Statuses
<1>4. ASSUME NEW w \in Workers, Send(w) PROVE TypeOK'
  <2>1. task[w] \in Tasks
    BY <1>4, TaskParts DEF Send
  <2>2. PICK outcome \in Outcomes :
           task' = [task EXCEPT ![w] = [@ EXCEPT !.phase = outcome]]
    BY <1>4 DEF Send
  <2>3. [task[w] EXCEPT !.phase = outcome] \in Tasks
    BY <2>1, <2>2 DEF Tasks
  <2>4. task' \in [Workers -> Tasks \union {Idle}]
    BY <2>2, <2>3 DEF TypeOK
  <2>5. accepted' \subseteq Deliveries \X Nat
    BY <1>4, <2>1, TaskParts DEF Send, TypeOK
  <2> QED
    BY <1>4, <2>4, <2>5 DEF TypeOK, Send
<1>5. ASSUME NEW w \in Workers, MarkSent(w) PROVE TypeOK'
  BY <1>5 DEF TypeOK, MarkSent, Release, Statuses, Terminal, NoToken
<1>6. ASSUME NEW w \in Workers, MarkFailed(w) PROVE TypeOK'
  <2>1. task[w].id \in Deliveries /\ task[w].attempts \in Nat
    BY <1>6, TaskParts DEF MarkFailed, Outcomes
  <2>2. dispatch' \subseteq DispatchRows /\ dispatch \subseteq dispatch'
    BY <1>6, <2>1, RowIsTyped DEF TypeOK, MarkFailed
  <2>3. PICK s \in Statuses : Release(w, s)
    BY <1>6 DEF MarkFailed, Statuses, Terminal, Waiting
  <2> QED
    BY <1>6, <2>2, <2>3 DEF TypeOK, MarkFailed, Release, NoToken
<1>7. ASSUME NEW w \in Workers, StaleClaim(w) \/ Abandon(w) PROVE TypeOK'
  BY <1>7 DEF TypeOK, StaleClaim, Abandon
<1>8. CASE RecoverExpired
  <2>1. PICK S \in SUBSET Deliveries :
           /\ status' = [d \in Deliveries |->
                           IF d \in S THEN RecoveredStatus(d) ELSE status[d]]
           /\ token' = [d \in Deliveries |-> IF d \in S THEN NoToken ELSE token[d]]
           /\ expired' = [d \in Deliveries |-> d \notin S /\ expired[d]]
           /\ dispatch' = dispatch \union DeadLetters(S)
    BY <1>8 DEF RecoverExpired
  <2>2. \A d \in Deliveries : RecoveredStatus(d) \in Statuses
    BY DEF RecoveredStatus, Statuses, Waiting, Terminal
  <2>3. DeadLetters(S) \subseteq DispatchRows
    BY <2>1, RowIsTyped DEF DeadLetters, TypeOK
  <2>4. status' \in [Deliveries -> Statuses]
    BY <2>1, <2>2 DEF TypeOK
  <2>5. token' \in [Deliveries -> Nat] /\ expired' \in [Deliveries -> BOOLEAN]
    BY <2>1 DEF TypeOK, NoToken
  <2> QED
    BY <1>8, <2>1, <2>3, <2>4, <2>5 DEF TypeOK, RecoverExpired
<1>9. ASSUME NEW d \in Deliveries, LeaseExpires(d) PROVE TypeOK'
  BY <1>9 DEF TypeOK, LeaseExpires
<1>10. ASSUME NEW r \in dispatch, RelayPublish(r) \/ RelayUnconfirmed(r) PROVE TypeOK'
  <2>1. /\ retryTopic' \subseteq {q \in dispatch : q.kind = "retry"}
        /\ dlqTopic' \subseteq {q \in dispatch : q.kind = "dlq"}
    BY <1>10 DEF TypeOK, RelayPublish, RelayUnconfirmed, Publish, DispatchRows
  <2> QED
    BY <1>10, <2>1 DEF TypeOK, RelayPublish, RelayUnconfirmed
<1>11. ASSUME NEW c \in Channels,
              CreateChannel(c) \/ EnableChannel(c) \/ DisableChannel(c)
       PROVE  TypeOK'
  BY <1>11 DEF TypeOK, CreateChannel, EnableChannel, DisableChannel,
               ChannelStates, Statuses, Terminal
<1>12. ASSUME NEW c \in Channels,
              DeleteBegin(c) \/ DeleteCommit(c) \/ DeleteAbort(c)
       PROVE  TypeOK'
  BY <1>12 DEF TypeOK, DeleteBegin, DeleteCommit, DeleteAbort, RowsOf,
               ChannelStates, Statuses, Terminal
<1>13. CASE UNCHANGED vars
  BY <1>13 DEF TypeOK, vars
<1> QED
  BY <1>1, <1>2, <1>3, <1>4, <1>5, <1>6, <1>7, <1>8, <1>9, <1>10, <1>11, <1>12,
     <1>13 DEF Next, ConsumerNext, WorkerNext, RelayNext, ApiNext

\* Every state has the types of the schema.
THEOREM TypeCorrect == Spec => []TypeOK
<1>1. Init => TypeOK
  BY DEF Init, TypeOK, ChannelStates, Statuses, NoToken
<1> QED
  BY <1>1, TypeInductive, PTL DEF Spec

-----------------------------------------------------------------------------
(* The inductive invariant, action by action.                              *)

LEMMA RowFields ==
    ASSUME NEW d, NEW n
    PROVE  /\ RetryRow(d, n).id = d /\ RetryRow(d, n).attempt = n
           /\ RetryRow(d, n).kind = "retry"
           /\ DlqRow(d, n).id = d /\ DlqRow(d, n).attempt = n
           /\ DlqRow(d, n).kind = "dlq"
BY DEF RetryRow, DlqRow

LEMMA LimitFacts ==
    /\ AttemptLimit \in Nat \ {0}
    /\ PolicyMaxAttempts \in Nat /\ PolicyMaxAttempts <= AttemptLimit
    /\ RecoverMaxAttempts \in Nat /\ RecoverMaxAttempts <= AttemptLimit
BY MaxAttemptsAssumption DEF AttemptLimit

LEMMA InitInvariant == Init => IInv
<1> SUFFICES ASSUME Init PROVE IInv
  OBVIOUS
<1>1. TypeOK
  BY DEF Init, TypeOK, ChannelStates, Statuses, NoToken
<1>2. RowsOK
  BY LimitFacts DEF Init, RowsOK, NoToken, Waiting
<1>3. TasksOK /\ ClaimIsExclusive
  BY DEF Init, TasksOK, ClaimIsExclusive
<1>4. SentMeansAccepted /\ BelongsToRecipient /\ FailedHasDeadLetter /\ RetryWaitHasWakeUp
  BY DEF Init, SentMeansAccepted, BelongsToRecipient, FailedHasDeadLetter, RetryWaitHasWakeUp
<1>5. OutboxOK /\ LocksOK
  BY DEF Init, OutboxOK, LocksOK
<1> QED
  BY <1>1, <1>2, <1>3, <1>4, <1>5 DEF IInv

\* A new request creates rows where there were none.
LEMMA AcceptPreserves ==
    ASSUME IInv, TypeOK', NEW r \in Requests, AcceptRequest(r)
    PROVE  IInv'
<1> USE DEF channelVars, outboxVars, kafkaVars, workerVars
<1> DEFINE New(d) == d[1] = r.event /\ Owner[ChannelOf(d)] = r.user /\ Enabled(d)
<1>1. \A d \in Deliveries : status'[d] = IF New(d) THEN "pending" ELSE status[d]
  BY DEF IInv, TypeOK, AcceptRequest
<1>2. \A d \in Deliveries : New(d) => status[d] = "none"
  BY DEF IInv, AcceptRequest, IsNew, BelongsToRecipient
<1>3. UNCHANGED <<channel, locked, attempts, token, expired, dispatch, published,
                  retryTopic, task, lastToken, accepted>>
  BY DEF AcceptRequest
<1>4. RowsOK'
  <2> SUFFICES ASSUME NEW d \in Deliveries
               PROVE  /\ token[d] <= lastToken
                      /\ status'[d] = "processing" <=> token[d] # NoToken
                      /\ status'[d] = "processing" => attempts[d] > 0
                      /\ expired[d] => status'[d] = "processing"
                      /\ attempts[d] <= AttemptLimit
                      /\ status'[d] = "none" => attempts[d] = 0
                      /\ status'[d] \in Waiting => attempts[d] < AttemptLimit
                      /\ status'[d] \in Waiting =>
                            channel[ChannelOf(d)] \in {"enabled", "deleted"}
    BY <1>3 DEF RowsOK
  <2>1. CASE New(d)
    BY <1>1, <1>2, <2>1, LimitFacts DEF IInv, RowsOK, Waiting, Enabled
  <2>2. CASE ~New(d)
    BY <1>1, <2>2 DEF IInv, RowsOK
  <2> QED BY <2>1, <2>2
<1>5. TasksOK' /\ ClaimIsExclusive'
  BY <1>3 DEF IInv, TasksOK, ClaimIsExclusive
<1>6. SentMeansAccepted' /\ FailedHasDeadLetter' /\ RetryWaitHasWakeUp'
  BY <1>1, <1>3 DEF IInv, SentMeansAccepted, FailedHasDeadLetter, RetryWaitHasWakeUp
<1>7. BelongsToRecipient'
  <2> SUFFICES ASSUME NEW d \in Deliveries, status'[d] # "none"
               PROVE  /\ \E q \in inbox' : q.event = d[1]
                      /\ \A q \in inbox' : q.event = d[1] => q.user = Owner[ChannelOf(d)]
    BY DEF BelongsToRecipient
  <2>1. inbox' = inbox \union {r} /\ \A q \in inbox : q.event # r.event
    BY DEF AcceptRequest, IsNew
  <2>2. CASE New(d)
    BY <2>1, <2>2
  <2>3. CASE ~New(d)
    BY <1>1, <2>1, <2>3 DEF IInv, BelongsToRecipient
  <2> QED BY <2>2, <2>3
<1>8. OutboxOK'
  <2> SUFFICES ASSUME NEW q \in dispatch
               PROVE  /\ q.attempt <= attempts[q.id]
                      /\ status'[q.id] = "processing" => q.attempt < attempts[q.id]
                      /\ q.kind = "dlq" => status'[q.id] = "failed"
                                           /\ q.attempt = attempts[q.id]
    BY <1>3 DEF OutboxOK
  <2>1. q.id \in Deliveries
    BY DEF IInv, TypeOK, DispatchRows
  <2> QED
    BY <1>1, <1>2, <2>1 DEF IInv, OutboxOK
<1>9. LocksOK'
  BY <1>1, <1>3 DEF IInv, TypeOK, LocksOK, Waiting
<1> QED
  BY <1>4, <1>5, <1>6, <1>7, <1>8, <1>9 DEF IInv


\* A retry record resumes its own attempt or nothing; a record leaves the
\* topic only when nobody waits for it any more.
LEMMA ResumePreserves ==
    ASSUME IInv, TypeOK', NEW r \in retryTopic, ConsumeRetry(r) \/ ConsumeUncommitted(r)
    PROVE  IInv'
<1> USE DEF channelVars, outboxVars, workerVars
<1>1. ResumeRetry(r)
  BY DEF ConsumeRetry, ConsumeUncommitted
<1>2. UNCHANGED <<channel, locked, inbox, attempts, token, expired, dispatch,
                  published, task, lastToken, accepted>>
  BY <1>1 DEF ResumeRetry
<1>3. r \in DispatchRows /\ r.id \in Deliveries
  BY DEF IInv, TypeOK, DispatchRows
<1>4. \A d \in Deliveries :
         \/ status'[d] = status[d]
         \/ /\ d = r.id /\ status[d] = "retry_wait" /\ status'[d] = "pending"
            /\ Enabled(d) /\ d \notin locked
  BY <1>1, <1>3 DEF ResumeRetry, Resumable, IInv, TypeOK
<1>5. RowsOK'
  BY <1>2, <1>4 DEF IInv, RowsOK, Waiting
<1>6. TasksOK' /\ ClaimIsExclusive'
  BY <1>2 DEF IInv, TasksOK, ClaimIsExclusive
<1>7. SentMeansAccepted' /\ BelongsToRecipient' /\ FailedHasDeadLetter'
  BY <1>2, <1>4 DEF IInv, SentMeansAccepted, BelongsToRecipient, FailedHasDeadLetter
<1>8. OutboxOK'
  BY <1>2, <1>4 DEF IInv, OutboxOK, TypeOK, DispatchRows
<1>9. RetryWaitHasWakeUp'
  <2> SUFFICES ASSUME NEW d \in Deliveries, status'[d] = "retry_wait",
                      channel[ChannelOf(d)] # "deleted"
               PROVE  RetryRow(d, attempts[d]) \in (dispatch \ published) \union retryTopic'
    BY <1>2 DEF RetryWaitHasWakeUp
  <2>1. status[d] = "retry_wait"
    BY <1>4
  <2>2. Enabled(d)
    BY <2>1 DEF IInv, RowsOK, Waiting, Enabled
  <2>3. RetryRow(d, attempts[d]) \in (dispatch \ published) \union retryTopic
    BY <2>1 DEF IInv, RetryWaitHasWakeUp
  <2>4. RetryRow(d, attempts[d]) # r
    <3> SUFFICES ASSUME RetryRow(d, attempts[d]) = r PROVE FALSE
      OBVIOUS
    <3>1. r.id = d /\ r.attempt = attempts[d]
      BY RowFields
    <3>2. Resumable(r)
      BY <2>1, <2>2, <3>1 DEF Resumable
    <3> QED
      BY <1>1, <1>3, <2>1, <3>1, <3>2 DEF ResumeRetry, IInv, TypeOK
  <2> QED
    BY <2>3, <2>4 DEF ConsumeRetry, ConsumeUncommitted
<1>10. LocksOK'
  BY <1>2, <1>4 DEF IInv, TypeOK, LocksOK
<1> QED
  BY <1>5, <1>6, <1>7, <1>8, <1>9, <1>10 DEF IInv

\* A claim gets a token nobody has and an attempt nobody has made.
LEMMA ClaimPreserves ==
    ASSUME IInv, TypeOK', NEW w \in Workers, NEW d \in Deliveries, Claim(w, d)
    PROVE  IInv'
<1> USE DEF channelVars, outboxVars, kafkaVars
<1> DEFINE n == attempts[d] + 1
           t == [phase |-> "claimed", id |-> d, token |-> lastToken + 1, attempts |-> n]
<1>1. UNCHANGED <<channel, locked, inbox, dispatch, published, retryTopic, accepted>>
  BY DEF Claim, Take
<1>2. status[d] = "pending" /\ d \notin locked /\ Enabled(d)
  BY DEF Claim, Claimable
<1>3. /\ lastToken' = lastToken + 1 /\ lastToken \in Nat
      /\ status' = [status EXCEPT ![d] = "processing"]
      /\ attempts' = [attempts EXCEPT ![d] = n] /\ attempts[d] \in Nat
      /\ token' = [token EXCEPT ![d] = lastToken + 1]
      /\ expired' = [expired EXCEPT ![d] = FALSE]
      /\ task' = [task EXCEPT ![w] = t]
  BY DEF Claim, Take, IInv, TypeOK
<1>4. /\ t.phase = "claimed" /\ t.id = d /\ t.token = lastToken + 1 /\ t.attempts = n
      /\ t # Idle
  BY DEF Idle
<1> HIDE DEF t
<1>5. /\ status \in [Deliveries -> Statuses] /\ attempts \in [Deliveries -> Nat]
      /\ token \in [Deliveries -> Nat] /\ expired \in [Deliveries -> BOOLEAN]
      /\ DOMAIN task = Workers
  BY DEF IInv, TypeOK
<1>6. \A v \in Workers : v # w /\ task'[v] # Idle =>
         /\ task'[v] = task[v] /\ task[v].token \in 1..lastToken
         /\ task[v].id \in Deliveries /\ task[v].attempts \in Nat
         /\ task[v].attempts \in 1..attempts[task[v].id]
         /\ \A x \in Deliveries : token[x] = task[v].token =>
               task[v].id = x /\ task[v].attempts = attempts[x]
         /\ task[v].phase = "ok" => <<task[v].id, task[v].attempts>> \in accepted
  BY <1>3, <1>5, TaskParts DEF IInv, TasksOK
<1>7. RowsOK'
  BY <1>1, <1>2, <1>3, <1>5, LimitFacts DEF IInv, RowsOK, Waiting, NoToken
<1>8. TasksOK'
  <2> SUFFICES ASSUME NEW v \in Workers, task'[v] # Idle
               PROVE  /\ task'[v].token \in 1..lastToken'
                      /\ task'[v].attempts \in 1..attempts'[task'[v].id]
                      /\ \A x \in Deliveries : token'[x] = task'[v].token =>
                            task'[v].id = x /\ task'[v].attempts = attempts'[x]
                      /\ task'[v].phase = "ok" =>
                            <<task'[v].id, task'[v].attempts>> \in accepted'
    BY DEF TasksOK
  <2>1. CASE v = w
    <3>1. task'[v] = t
      BY <1>3, <1>5, <2>1
    <3>2. \A x \in Deliveries : x # d => token'[x] # lastToken + 1
      BY <1>3, <1>5 DEF IInv, RowsOK
    <3> QED
      BY <1>3, <1>4, <1>5, <3>1, <3>2
  <2>2. CASE v # w
    <3>1. task[v].token \in 1..lastToken
      BY <1>6, <2>2
    <3>2. token'[d] # task[v].token
      BY <1>3, <1>5, <3>1
    <3> QED
      BY <1>1, <1>3, <1>5, <1>6, <2>2, <3>2
  <2> QED BY <2>1, <2>2
<1>9. ClaimIsExclusive'
  <2>1. \A v \in Workers : v # w /\ task'[v] # Idle =>
           /\ task'[v].token # t.token
           /\ task'[v].id = t.id => task'[v].attempts # t.attempts
    <3> SUFFICES ASSUME NEW v \in Workers, v # w, task'[v] # Idle
                 PROVE  /\ task[v].token # t.token
                        /\ task[v].id = d => task[v].attempts # t.attempts
      BY <1>4, <1>6
    <3>1. /\ task[v].token \in 1..lastToken
          /\ task[v].attempts \in Nat
          /\ task[v].attempts \in 1..attempts[task[v].id]
      BY <1>6
    <3> QED
      BY <1>3, <1>4, <3>1
  <2>2. task'[w] = t /\ \A v \in Workers : v # w => task'[v] = task[v]
    BY <1>3, <1>5
  <2> QED
    BY <2>1, <2>2 DEF IInv, ClaimIsExclusive
<1>10. SentMeansAccepted' /\ BelongsToRecipient' /\ FailedHasDeadLetter' /\ RetryWaitHasWakeUp'
  BY <1>1, <1>2, <1>3, <1>5
     DEF IInv, SentMeansAccepted, BelongsToRecipient, FailedHasDeadLetter, RetryWaitHasWakeUp
<1>11. OutboxOK'
  <2>1. \A r \in dispatch : r.id \in Deliveries /\ r.attempt \in Nat
    BY DEF IInv, TypeOK, DispatchRows
  <2> QED
    BY <1>1, <1>2, <1>3, <1>5, <2>1 DEF IInv, OutboxOK
<1>12. LocksOK'
  BY <1>1, <1>2, <1>3, <1>5 DEF IInv, TypeOK, LocksOK
<1> QED
  BY <1>7, <1>8, <1>9, <1>10, <1>11, <1>12 DEF IInv


LEMMA SendPreserves ==
    ASSUME IInv, TypeOK', NEW w \in Workers, Send(w)
    PROVE  IInv'
<1> USE DEF channelVars, rowVars, outboxVars, kafkaVars
<1>1. UNCHANGED <<channel, locked, inbox, status, attempts, token, expired,
                  dispatch, published, retryTopic, lastToken>>
  BY DEF Send
<1>2. task[w] # Idle /\ task[w] \in Tasks
  BY TaskParts DEF Send, IInv
<1>3. PICK outcome \in Outcomes, taken \in BOOLEAN :
         /\ outcome = "ok" => taken
         /\ task' = [task EXCEPT ![w] = [@ EXCEPT !.phase = outcome]]
         /\ accepted' = IF taken
                          THEN accepted \union {<<task[w].id, task[w].attempts>>}
                          ELSE accepted
  BY DEF Send
<1>4. /\ task'[w].id = task[w].id /\ task'[w].token = task[w].token
      /\ task'[w].attempts = task[w].attempts /\ task'[w].phase = outcome
  BY <1>2, <1>3 DEF IInv, TypeOK, Tasks
<1>5. \A v \in Workers : v # w => task'[v] = task[v]
  BY <1>3 DEF IInv, TypeOK
<1>6. accepted \subseteq accepted'
  BY <1>3
<1>7. TasksOK'
  <2> SUFFICES ASSUME NEW v \in Workers, task'[v] # Idle
               PROVE  /\ task'[v].token \in 1..lastToken
                      /\ task'[v].attempts \in 1..attempts[task'[v].id]
                      /\ \A d \in Deliveries : token[d] = task'[v].token =>
                            task'[v].id = d /\ task'[v].attempts = attempts[d]
                      /\ task'[v].phase = "ok" =>
                            <<task'[v].id, task'[v].attempts>> \in accepted'
    BY <1>1 DEF TasksOK
  <2>1. CASE v = w
    BY <1>2, <1>3, <1>4, <2>1 DEF IInv, TasksOK
  <2>2. CASE v # w
    BY <1>5, <1>6, <2>2 DEF IInv, TasksOK
  <2> QED BY <2>1, <2>2
<1>8. ClaimIsExclusive'
  BY <1>2, <1>4, <1>5 DEF IInv, ClaimIsExclusive
<1>9. SentMeansAccepted'
  BY <1>1, <1>6 DEF IInv, SentMeansAccepted
<1>10. /\ RowsOK' /\ BelongsToRecipient' /\ FailedHasDeadLetter'
       /\ RetryWaitHasWakeUp' /\ OutboxOK' /\ LocksOK'
  BY <1>1 DEF IInv, RowsOK, BelongsToRecipient, FailedHasDeadLetter,
              RetryWaitHasWakeUp, OutboxOK, LocksOK
<1> QED
  BY <1>7, <1>8, <1>9, <1>10 DEF IInv

\* Tasks that are dropped and claims that are cleared disturb nobody.
LEMMA TasksDropped ==
    ASSUME IInv, UNCHANGED <<attempts, lastToken, accepted>>,
           \A w \in Workers : task'[w] \in {task[w], Idle},
           \A d \in Deliveries : token'[d] \in {token[d], NoToken}
    PROVE  TasksOK' /\ ClaimIsExclusive'
<1>1. \A w \in Workers : task'[w] # Idle => task'[w] = task[w] /\ task[w] # Idle
  OBVIOUS
<1>2. \A w \in Workers : task[w] # Idle => task[w].token # NoToken
  <2>1. \A w \in Workers : task[w] # Idle => task[w].token \in 1..lastToken
    BY DEF IInv, TasksOK
  <2>2. lastToken \in Nat
    BY DEF IInv, TypeOK
  <2> QED
    BY <2>1, <2>2 DEF NoToken
<1>3. TasksOK'
  <2> SUFFICES ASSUME NEW w \in Workers, task'[w] # Idle
               PROVE  /\ task[w].token \in 1..lastToken
                      /\ task[w].attempts \in 1..attempts[task[w].id]
                      /\ \A d \in Deliveries : token'[d] = task[w].token =>
                            task[w].id = d /\ task[w].attempts = attempts[d]
                      /\ task[w].phase = "ok" =>
                            <<task[w].id, task[w].attempts>> \in accepted
    BY <1>1 DEF TasksOK
  <2>1. \A d \in Deliveries : token'[d] = task[w].token => token[d] = task[w].token
    BY <1>1, <1>2
  <2> QED
    BY <1>1, <2>1 DEF IInv, TasksOK
<1> QED
  BY <1>1, <1>3 DEF IInv, ClaimIsExclusive

\* The worker that holds the claim closes the row of its task.
LEMMA HolderFacts ==
    ASSUME IInv, NEW w \in Workers, task[w] # Idle, HoldsClaim(w)
    PROVE  /\ task[w].id \in Deliveries
           /\ status[task[w].id] = "processing"
           /\ task[w].attempts = attempts[task[w].id]
           /\ task[w].attempts \in Nat
           /\ task[w].phase = "ok" => <<task[w].id, task[w].attempts>> \in accepted
<1>1. task[w].id \in Deliveries /\ task[w].attempts \in Nat
  BY TaskParts DEF IInv
<1> QED
  BY <1>1 DEF HoldsClaim, IInv, TasksOK

LEMMA ReleaseFacts ==
    ASSUME IInv, NEW w \in Workers, task[w].id \in Deliveries, NEW s, Release(w, s)
    PROVE  /\ \A d \in Deliveries : d # task[w].id =>
                 status'[d] = status[d] /\ token'[d] = token[d] /\ expired'[d] = expired[d]
           /\ status'[task[w].id] = s /\ token'[task[w].id] = NoToken
           /\ expired'[task[w].id] = FALSE
           /\ \A v \in Workers : task'[v] \in {task[v], Idle}
BY DEF Release, IInv, TypeOK

LEMMA MarkSentPreserves ==
    ASSUME IInv, TypeOK', NEW w \in Workers, MarkSent(w)
    PROVE  IInv'
<1> USE DEF channelVars, outboxVars, kafkaVars
<1> DEFINE id == task[w].id
<1>1. UNCHANGED <<channel, locked, inbox, attempts, dispatch, published,
                  retryTopic, lastToken, accepted>>
  BY DEF MarkSent
<1>2. task[w] # Idle /\ HoldsClaim(w) /\ Release(w, "sent") /\ task[w].phase = "ok"
  BY TaskParts DEF MarkSent, IInv, Outcomes
<1>3. /\ id \in Deliveries /\ status[id] = "processing"
      /\ <<id, attempts[id]>> \in accepted
  BY <1>2, HolderFacts
<1>4. /\ \A d \in Deliveries : d # id =>
            status'[d] = status[d] /\ token'[d] = token[d] /\ expired'[d] = expired[d]
      /\ status'[id] = "sent" /\ token'[id] = NoToken /\ expired'[id] = FALSE
      /\ \A v \in Workers : task'[v] \in {task[v], Idle}
  BY <1>2, <1>3, ReleaseFacts
<1> HIDE DEF id
<1>5. RowsOK'
  BY <1>1, <1>3, <1>4 DEF IInv, TypeOK, RowsOK, Waiting, NoToken
<1>6. TasksOK' /\ ClaimIsExclusive'
  BY <1>1, <1>4, TasksDropped
<1>7. SentMeansAccepted' /\ BelongsToRecipient' /\ FailedHasDeadLetter' /\ RetryWaitHasWakeUp'
  BY <1>1, <1>3, <1>4
     DEF IInv, SentMeansAccepted, BelongsToRecipient, FailedHasDeadLetter, RetryWaitHasWakeUp
<1>8. OutboxOK'
  <2>1. \A r \in dispatch : r.id \in Deliveries
    BY DEF IInv, TypeOK, DispatchRows
  <2> QED
    BY <1>1, <1>3, <1>4, <2>1 DEF IInv, OutboxOK
<1>9. LocksOK'
  BY <1>1, <1>3, <1>4 DEF IInv, TypeOK, LocksOK, Waiting
<1> QED
  BY <1>5, <1>6, <1>7, <1>8, <1>9 DEF IInv


\* A failed attempt is retried, reported or cancelled: with a row of the
\* outbox that did not exist before, in the first two cases.
LEMMA MarkFailedPreserves ==
    ASSUME IInv, TypeOK', NEW w \in Workers, MarkFailed(w)
    PROVE  IInv'
<1> USE DEF channelVars, kafkaVars
<1> DEFINE id == task[w].id
           n  == attempts[id]
<1>1. UNCHANGED <<channel, locked, inbox, attempts, published, retryTopic,
                  lastToken, accepted>>
  BY DEF MarkFailed
<1>2. task[w] # Idle /\ HoldsClaim(w) /\ task[w].phase # "ok"
  BY TaskParts DEF MarkFailed, IInv, Outcomes
<1>3. id \in Deliveries /\ status[id] = "processing" /\ task[w].attempts = n /\ n \in Nat
  BY <1>2, HolderFacts
<1>4. PICK s \in {"cancelled", "retry_wait", "failed"} :
         /\ Release(w, s)
         /\ s = "cancelled"  => dispatch' = dispatch
         /\ s = "retry_wait" => /\ dispatch' = dispatch \union {RetryRow(id, n)}
                                /\ Enabled(id) /\ n < PolicyMaxAttempts
         /\ s = "failed"     => dispatch' = dispatch \union {DlqRow(id, n)}
  BY <1>3 DEF MarkFailed, WillRetry
<1>5. /\ \A d \in Deliveries : d # id =>
            status'[d] = status[d] /\ token'[d] = token[d] /\ expired'[d] = expired[d]
      /\ status'[id] = s /\ token'[id] = NoToken /\ expired'[id] = FALSE
      /\ \A v \in Workers : task'[v] \in {task[v], Idle}
  BY <1>3, <1>4, ReleaseFacts
<1>6. \A r \in dispatch : r.id \in Deliveries /\ r.attempt \in Nat
  BY DEF IInv, TypeOK, DispatchRows
<1>7. \A r \in dispatch : r.id = id => r.attempt < n /\ r.kind # "dlq"
  BY <1>3 DEF IInv, OutboxOK
<1> HIDE DEF id, n
<1>8. RowsOK'
  <2>1. attempts[id] = n
    BY DEF n
  <2>2. s = "retry_wait" => n < AttemptLimit
    BY <1>3, <1>4, LimitFacts
  <2> QED
    BY <1>1, <1>3, <1>4, <1>5, <2>1, <2>2
       DEF IInv, TypeOK, RowsOK, Waiting, NoToken, Enabled
<1>9. TasksOK' /\ ClaimIsExclusive'
  BY <1>1, <1>5, TasksDropped
<1>10. SentMeansAccepted' /\ BelongsToRecipient'
  BY <1>1, <1>3, <1>4, <1>5 DEF IInv, SentMeansAccepted, BelongsToRecipient
<1>11. FailedHasDeadLetter'
  BY <1>1, <1>3, <1>4, <1>5 DEF IInv, FailedHasDeadLetter, n
<1>12. RetryWaitHasWakeUp'
  <2> SUFFICES ASSUME NEW d \in Deliveries, status'[d] = "retry_wait",
                      channel[ChannelOf(d)] # "deleted"
               PROVE  RetryRow(d, attempts[d]) \in (dispatch' \ published) \union retryTopic
    BY <1>1 DEF RetryWaitHasWakeUp
  <2>1. CASE d = id
    <3>1. RetryRow(id, n) \in dispatch'
      BY <1>4, <1>5, <2>1
    <3>2. RetryRow(id, n) \notin dispatch
      BY <1>3, <1>7, RowFields
    <3> QED
      BY <2>1, <3>1, <3>2 DEF IInv, TypeOK, n
  <2>2. CASE d # id
    BY <1>4, <1>5, <2>2 DEF IInv, RetryWaitHasWakeUp
  <2> QED BY <2>1, <2>2
<1>13. OutboxOK'
  <2> SUFFICES ASSUME NEW r \in dispatch'
               PROVE  /\ r.attempt <= attempts[r.id]
                      /\ status'[r.id] = "processing" => r.attempt < attempts[r.id]
                      /\ r.kind = "dlq" => status'[r.id] = "failed"
                                           /\ r.attempt = attempts[r.id]
    BY <1>1 DEF OutboxOK
  <2>1. CASE r \in dispatch
    BY <1>3, <1>4, <1>5, <1>6, <1>7, <2>1 DEF IInv, OutboxOK, n
  <2>2. CASE r \notin dispatch
    BY <1>3, <1>4, <1>5, <2>2, RowFields DEF n
  <2> QED BY <2>1, <2>2
<1>14. LocksOK'
  BY <1>1, <1>3, <1>5 DEF IInv, TypeOK, LocksOK, Waiting
<1> QED
  BY <1>8, <1>9, <1>10, <1>11, <1>12, <1>13, <1>14 DEF IInv

LEMMA DropPreserves ==
    ASSUME IInv, TypeOK', NEW w \in Workers, StaleClaim(w) \/ Abandon(w)
    PROVE  IInv'
<1> USE DEF channelVars, rowVars, outboxVars, kafkaVars
<1>1. UNCHANGED <<channel, locked, inbox, status, attempts, token, expired,
                  dispatch, published, retryTopic, lastToken, accepted>>
  BY DEF StaleClaim, Abandon
<1>2. \A v \in Workers : task'[v] \in {task[v], Idle}
  BY DEF StaleClaim, Abandon, IInv, TypeOK
<1>3. TasksOK' /\ ClaimIsExclusive'
  BY <1>1, <1>2, TasksDropped
<1>4. /\ RowsOK' /\ SentMeansAccepted' /\ BelongsToRecipient' /\ FailedHasDeadLetter'
      /\ RetryWaitHasWakeUp' /\ OutboxOK' /\ LocksOK'
  BY <1>1 DEF IInv, RowsOK, SentMeansAccepted, BelongsToRecipient,
              FailedHasDeadLetter, RetryWaitHasWakeUp, OutboxOK, LocksOK
<1> QED
  BY <1>3, <1>4 DEF IInv

\* Recovered rows lose their claim; their workers find it gone later.
LEMMA RecoverPreserves ==
    ASSUME IInv, TypeOK', RecoverExpired
    PROVE  IInv'
<1> USE DEF channelVars, kafkaVars, workerVars
<1>1. UNCHANGED <<channel, locked, inbox, attempts, published, retryTopic,
                  task, lastToken, accepted>>
  BY DEF RecoverExpired
<1>2. PICK S \in SUBSET {d \in Deliveries : status[d] = "processing" /\ expired[d]} :
         /\ status' = [d \in Deliveries |->
                         IF d \in S THEN RecoveredStatus(d) ELSE status[d]]
         /\ token' = [d \in Deliveries |-> IF d \in S THEN NoToken ELSE token[d]]
         /\ expired' = [d \in Deliveries |-> d \notin S /\ expired[d]]
         /\ dispatch' = dispatch \union DeadLetters(S)
  BY DEF RecoverExpired
<1>3. \A d \in S : /\ d \in Deliveries /\ status[d] = "processing"
                   /\ RecoveredStatus(d) \in {"cancelled", "failed", "pending"}
                   /\ RecoveredStatus(d) = "pending" =>
                        Enabled(d) /\ attempts[d] < RecoverMaxAttempts
  BY LimitFacts DEF RecoveredStatus, IInv, TypeOK
<1>4. \A d \in Deliveries :
         /\ d \in S => status'[d] = RecoveredStatus(d) /\ token'[d] = NoToken
         /\ d \notin S => status'[d] = status[d] /\ token'[d] = token[d]
         /\ expired'[d] <=> d \notin S /\ expired[d]
  BY <1>2
<1>5. \A r \in dispatch' : r \in dispatch \/
         \E d \in S : r = DlqRow(d, attempts[d]) /\ RecoveredStatus(d) = "failed"
  BY <1>2 DEF DeadLetters
<1>6. RowsOK'
  BY <1>1, <1>3, <1>4, LimitFacts DEF IInv, TypeOK, RowsOK, Waiting, NoToken, Enabled
<1>7. TasksOK' /\ ClaimIsExclusive'
  BY <1>1, <1>4, TasksDropped
<1>8. SentMeansAccepted' /\ BelongsToRecipient'
  BY <1>1, <1>3, <1>4 DEF IInv, SentMeansAccepted, BelongsToRecipient
<1>9. FailedHasDeadLetter'
  BY <1>1, <1>2, <1>3, <1>4 DEF IInv, FailedHasDeadLetter, DeadLetters
<1>10. RetryWaitHasWakeUp'
  BY <1>1, <1>2, <1>3, <1>4 DEF IInv, RetryWaitHasWakeUp
<1>11. OutboxOK'
  <2> SUFFICES ASSUME NEW r \in dispatch'
               PROVE  /\ r.attempt <= attempts[r.id]
                      /\ status'[r.id] = "processing" => r.attempt < attempts[r.id]
                      /\ r.kind = "dlq" => status'[r.id] = "failed"
                                           /\ r.attempt = attempts[r.id]
    BY <1>1 DEF OutboxOK
  <2>1. CASE r \in dispatch
    <3>1. r.id \in Deliveries
      BY <2>1 DEF IInv, TypeOK, DispatchRows
    <3> QED
      BY <1>3, <1>4, <2>1, <3>1 DEF IInv, OutboxOK
  <2>2. CASE r \notin dispatch
    <3>1. PICK d \in S : r = DlqRow(d, attempts[d]) /\ RecoveredStatus(d) = "failed"
      BY <1>5, <2>2
    <3>2. r.id = d /\ r.attempt = attempts[d] /\ attempts[d] \in Nat
      BY <1>3, <3>1, RowFields DEF IInv, TypeOK
    <3> QED
      BY <1>3, <1>4, <3>1, <3>2
  <2> QED BY <2>1, <2>2
<1>12. LocksOK'
  BY <1>1, <1>3, <1>4 DEF IInv, TypeOK, LocksOK, Waiting
<1> QED
  BY <1>6, <1>7, <1>8, <1>9, <1>10, <1>11, <1>12 DEF IInv


LEMMA LeasePreserves ==
    ASSUME IInv, TypeOK', NEW d \in Deliveries, LeaseExpires(d)
    PROVE  IInv'
<1> USE DEF channelVars, outboxVars, kafkaVars, workerVars
<1>1. UNCHANGED <<channel, locked, inbox, status, attempts, token, dispatch,
                  published, retryTopic, task, lastToken, accepted>>
  BY DEF LeaseExpires
<1>2. RowsOK'
  BY <1>1 DEF LeaseExpires, IInv, TypeOK, RowsOK
<1>3. TasksOK' /\ ClaimIsExclusive'
  BY <1>1 DEF IInv, TasksOK, ClaimIsExclusive
<1>4. /\ SentMeansAccepted' /\ BelongsToRecipient' /\ FailedHasDeadLetter'
      /\ RetryWaitHasWakeUp' /\ OutboxOK' /\ LocksOK'
  BY <1>1 DEF IInv, SentMeansAccepted, BelongsToRecipient,
              FailedHasDeadLetter, RetryWaitHasWakeUp, OutboxOK, LocksOK
<1> QED
  BY <1>2, <1>3, <1>4 DEF IInv

\* A row leaves the outbox only once its record is in Kafka.
LEMMA RelayPreserves ==
    ASSUME IInv, TypeOK', NEW r \in dispatch, RelayPublish(r) \/ RelayUnconfirmed(r)
    PROVE  IInv'
<1> USE DEF channelVars, rowVars, outboxVars, workerVars
<1>1. UNCHANGED <<channel, locked, inbox, status, attempts, token, expired,
                  dispatch, task, lastToken, accepted>>
  BY DEF RelayPublish, RelayUnconfirmed
<1>2. /\ retryTopic \subseteq retryTopic'
      /\ published' \subseteq published \union {r}
      /\ r.kind = "retry" => r \in retryTopic'
  BY DEF RelayPublish, RelayUnconfirmed, Publish
<1>3. /\ RowsOK' /\ TasksOK' /\ ClaimIsExclusive' /\ SentMeansAccepted'
      /\ BelongsToRecipient' /\ FailedHasDeadLetter' /\ OutboxOK' /\ LocksOK'
  BY <1>1 DEF IInv, RowsOK, TasksOK, ClaimIsExclusive, SentMeansAccepted,
              BelongsToRecipient, FailedHasDeadLetter, OutboxOK, LocksOK
<1>4. RetryWaitHasWakeUp'
  <2>1. \A d \in Deliveries : RetryRow(d, attempts[d]).kind = "retry"
    BY RowFields
  <2> QED
    BY <1>1, <1>2, <2>1 DEF IInv, RetryWaitHasWakeUp
<1> QED
  BY <1>3, <1>4 DEF IInv

\* The channel API only ever cancels what waits, and what it has locked is
\* still waiting when it commits.
LEMMA ChannelPreserves ==
    ASSUME IInv, TypeOK', NEW c \in Channels,
           CreateChannel(c) \/ EnableChannel(c) \/ DisableChannel(c)
    PROVE  IInv'
<1> USE DEF outboxVars, kafkaVars, workerVars, rowVars
<1>1. UNCHANGED <<locked, inbox, attempts, token, expired, dispatch, published,
                  retryTopic, task, lastToken, accepted>>
  BY DEF CreateChannel, EnableChannel, DisableChannel
<1>2. /\ \A x \in Channels : x # c => channel'[x] = channel[x]
      /\ channel[c] # "deleted" /\ channel'[c] # "deleted"
  BY DEF CreateChannel, EnableChannel, DisableChannel, IInv, TypeOK
<1>3. \A d \in Deliveries :
         \/ status'[d] = status[d]
         \/ ChannelOf(d) = c /\ status[d] \in Waiting /\ status'[d] = "cancelled"
                             /\ d \notin locked
  BY DEF CreateChannel, EnableChannel, DisableChannel, RowsOf, IInv, TypeOK
<1>4. \A d \in Deliveries : ChannelOf(d) = c /\ status'[d] \in Waiting => channel'[c] = "enabled"
  <2>1. CASE DisableChannel(c)
    BY <2>1 DEF DisableChannel, IInv, TypeOK, Waiting
  <2>2. CASE CreateChannel(c) \/ EnableChannel(c)
    BY <2>2 DEF CreateChannel, EnableChannel, IInv, TypeOK
  <2> QED BY <2>1, <2>2
<1>5. RowsOK'
  <2>1. \A d \in Deliveries : status'[d] \in Waiting =>
           status[d] \in Waiting /\ channel'[ChannelOf(d)] \in {"enabled", "deleted"}
    BY <1>2, <1>3, <1>4, DeliveryParts DEF IInv, RowsOK, Waiting
  <2> QED
    BY <1>1, <1>3, <2>1 DEF IInv, TypeOK, RowsOK, Waiting, NoToken
<1>6. TasksOK' /\ ClaimIsExclusive'
  BY <1>1 DEF IInv, TasksOK, ClaimIsExclusive
<1>7. SentMeansAccepted' /\ BelongsToRecipient' /\ FailedHasDeadLetter'
  BY <1>1, <1>3 DEF IInv, SentMeansAccepted, BelongsToRecipient, FailedHasDeadLetter, Waiting
<1>8. RetryWaitHasWakeUp'
  BY <1>1, <1>2, <1>3, DeliveryParts DEF IInv, RetryWaitHasWakeUp
<1>9. OutboxOK'
  <2>1. \A r \in dispatch : r.id \in Deliveries
    BY DEF IInv, TypeOK, DispatchRows
  <2> QED
    BY <1>1, <1>3, <2>1 DEF IInv, OutboxOK, Waiting
<1>10. LocksOK'
  BY <1>1, <1>3 DEF IInv, TypeOK, LocksOK
<1> QED
  BY <1>5, <1>6, <1>7, <1>8, <1>9, <1>10 DEF IInv

LEMMA DeletePreserves ==
    ASSUME IInv, TypeOK', NEW c \in Channels,
           DeleteBegin(c) \/ DeleteCommit(c) \/ DeleteAbort(c)
    PROVE  IInv'
<1> USE DEF outboxVars, kafkaVars, workerVars, rowVars
<1>1. UNCHANGED <<inbox, attempts, token, expired, dispatch, published,
                  retryTopic, task, lastToken, accepted>>
  BY DEF DeleteBegin, DeleteCommit, DeleteAbort
<1>2. \A x \in Channels : channel'[x] = channel[x] \/ channel'[x] = "deleted"
  BY DEF DeleteBegin, DeleteCommit, DeleteAbort, IInv, TypeOK
<1>3. \A d \in Deliveries :
         \/ status'[d] = status[d]
         \/ status[d] \in Waiting /\ status'[d] = "cancelled" /\ d \notin locked'
  BY DEF DeleteBegin, DeleteCommit, DeleteAbort, IInv, TypeOK, LocksOK
<1>4. \A d \in locked' : status[d] \in Waiting /\ d \in Deliveries
  BY DEF DeleteBegin, DeleteCommit, DeleteAbort, IInv, TypeOK, LocksOK, RowsOf
<1>5. RowsOK'
  BY <1>1, <1>2, <1>3, DeliveryParts DEF IInv, TypeOK, RowsOK, Waiting, NoToken
<1>6. TasksOK' /\ ClaimIsExclusive'
  BY <1>1 DEF IInv, TasksOK, ClaimIsExclusive
<1>7. SentMeansAccepted' /\ BelongsToRecipient' /\ FailedHasDeadLetter'
  BY <1>1, <1>3 DEF IInv, SentMeansAccepted, BelongsToRecipient, FailedHasDeadLetter, Waiting
<1>8. RetryWaitHasWakeUp'
  BY <1>1, <1>2, <1>3, DeliveryParts DEF IInv, RetryWaitHasWakeUp
<1>9. OutboxOK'
  <2>1. \A r \in dispatch : r.id \in Deliveries
    BY DEF IInv, TypeOK, DispatchRows
  <2> QED
    BY <1>1, <1>3, <2>1 DEF IInv, OutboxOK, Waiting
<1>10. LocksOK'
  BY <1>3, <1>4 DEF LocksOK
<1> QED
  BY <1>5, <1>6, <1>7, <1>8, <1>9, <1>10 DEF IInv

LEMMA StepPreserves == IInv /\ [Next]_vars => IInv'
<1> SUFFICES ASSUME IInv, [Next]_vars PROVE IInv'
  OBVIOUS
<1>1. TypeOK'
  BY TypeInductive DEF IInv
<1>2. ASSUME NEW r \in Requests, AcceptRequest(r) PROVE IInv'
  BY <1>1, <1>2, AcceptPreserves
<1>3. ASSUME NEW r \in retryTopic, ConsumeRetry(r) \/ ConsumeUncommitted(r) PROVE IInv'
  BY <1>1, <1>3, ResumePreserves
<1>4. ASSUME NEW w \in Workers, NEW d \in Deliveries, Claim(w, d) PROVE IInv'
  BY <1>1, <1>4, ClaimPreserves
<1>5. ASSUME NEW w \in Workers, Send(w) PROVE IInv'
  BY <1>1, <1>5, SendPreserves
<1>6. ASSUME NEW w \in Workers, MarkSent(w) PROVE IInv'
  BY <1>1, <1>6, MarkSentPreserves
<1>7. ASSUME NEW w \in Workers, MarkFailed(w) PROVE IInv'
  BY <1>1, <1>7, MarkFailedPreserves
<1>8. ASSUME NEW w \in Workers, StaleClaim(w) \/ Abandon(w) PROVE IInv'
  BY <1>1, <1>8, DropPreserves
<1>9. CASE RecoverExpired
  BY <1>1, <1>9, RecoverPreserves
<1>10. ASSUME NEW d \in Deliveries, LeaseExpires(d) PROVE IInv'
  BY <1>1, <1>10, LeasePreserves
<1>11. ASSUME NEW r \in dispatch, RelayPublish(r) \/ RelayUnconfirmed(r) PROVE IInv'
  BY <1>1, <1>11, RelayPreserves
<1>12. ASSUME NEW c \in Channels,
              CreateChannel(c) \/ EnableChannel(c) \/ DisableChannel(c)
       PROVE  IInv'
  BY <1>1, <1>12, ChannelPreserves
<1>13. ASSUME NEW c \in Channels, DeleteBegin(c) \/ DeleteCommit(c) \/ DeleteAbort(c)
       PROVE  IInv'
  BY <1>1, <1>13, DeletePreserves
<1>14. CASE UNCHANGED vars
  BY <1>14 DEF vars, channelVars, rowVars, outboxVars, kafkaVars, workerVars,
     IInv, TypeOK, RowsOK, TasksOK, ClaimIsExclusive, SentMeansAccepted,
     BelongsToRecipient, OutboxOK, FailedHasDeadLetter, RetryWaitHasWakeUp, LocksOK
<1> QED
  BY <1>2, <1>3, <1>4, <1>5, <1>6, <1>7, <1>8, <1>9, <1>10, <1>11, <1>12, <1>13,
     <1>14 DEF Next, ConsumerNext, WorkerNext, RelayNext, ApiNext


-----------------------------------------------------------------------------
(* What a step may do to the status of a delivery.                         *)

HolderLeaves(d) ==
    \E w \in Workers : task[w] # Idle /\ task[w].token = token[d] /\ task'[w] = Idle

Moves(d) ==
    \/ status'[d] = status[d]
    \/ status[d] = "none" /\ status'[d] = "pending"
    \/ status[d] = "pending" /\ status'[d] = "processing"
    \/ status[d] = "processing" /\ (expired[d] \/ HolderLeaves(d))
    \/ /\ status[d] = "retry_wait" /\ status'[d] = "pending"
       /\ RetryRow(d, attempts[d]) \in retryTopic
    \/ status[d] \in Waiting /\ status'[d] = "cancelled"

LEMMA HolderMoves ==
    ASSUME IInv, NEW w \in Workers, task[w] # Idle, HoldsClaim(w),
           NEW s, Release(w, s), NEW d \in Deliveries
    PROVE  Moves(d)
<1>1. task[w].id \in Deliveries /\ status[task[w].id] = "processing"
  BY HolderFacts
<1>2. CASE d # task[w].id
  BY <1>1, <1>2, ReleaseFacts DEF Moves
<1>3. CASE d = task[w].id
  <2>1. task'[w] = Idle /\ task[w].token = token[d]
    BY <1>3 DEF Release, HoldsClaim, IInv, TypeOK
  <2> QED
    BY <1>1, <1>3, <2>1 DEF Moves, HolderLeaves
<1> QED BY <1>2, <1>3

LEMMA StepMoves ==
    ASSUME IInv, [Next]_vars, NEW d \in Deliveries
    PROVE  Moves(d)
<1> USE DEF channelVars, rowVars, outboxVars, kafkaVars, workerVars
<1>0. status' = status => Moves(d)
  BY DEF Moves
<1>1. ASSUME NEW r \in Requests, AcceptRequest(r) PROVE Moves(d)
  <2>1. CASE d[1] = r.event
    <3>1. status[d] = "none"
      BY <1>1, <2>1 DEF AcceptRequest, IsNew, IInv, BelongsToRecipient
    <3> QED
      BY <1>1, <3>1 DEF AcceptRequest, Moves
  <2>2. CASE d[1] # r.event
    BY <1>1, <2>2 DEF AcceptRequest, Moves
  <2> QED BY <2>1, <2>2
<1>2. ASSUME NEW r \in retryTopic, ConsumeRetry(r) \/ ConsumeUncommitted(r) PROVE Moves(d)
  <2>1. ResumeRetry(r) /\ r \in DispatchRows /\ r.kind = "retry" /\ r.id \in Deliveries
    BY <1>2 DEF ConsumeRetry, ConsumeUncommitted, IInv, TypeOK, DispatchRows
  <2>2. CASE d = r.id /\ Resumable(r)
    <3>1. r = RetryRow(d, attempts[d])
      BY <2>1, <2>2 DEF Resumable, RetryRow, DispatchRows
    <3>2. status[d] = "retry_wait" /\ status'[d] = "pending"
      BY <2>1, <2>2 DEF ResumeRetry, Resumable, IInv, TypeOK
    <3> QED
      BY <3>1, <3>2 DEF Moves
  <2>3. CASE ~(d = r.id /\ Resumable(r))
    BY <2>1, <2>3 DEF ResumeRetry, Moves, IInv, TypeOK
  <2> QED BY <2>2, <2>3
<1>3. ASSUME NEW w \in Workers, NEW x \in Deliveries, Claim(w, x) PROVE Moves(d)
  BY <1>3 DEF Claim, Claimable, Take, Moves, IInv, TypeOK
<1>4. ASSUME NEW w \in Workers, Send(w) PROVE Moves(d)
  BY <1>0, <1>4 DEF Send
<1>5. ASSUME NEW w \in Workers, MarkSent(w) PROVE Moves(d)
  BY <1>5, TaskParts, HolderMoves DEF MarkSent, IInv, Outcomes
<1>6. ASSUME NEW w \in Workers, MarkFailed(w) PROVE Moves(d)
  <2>1. task[w] # Idle /\ HoldsClaim(w)
    BY <1>6, TaskParts DEF MarkFailed, IInv, Outcomes
  <2>2. PICK s \in {"cancelled", "retry_wait", "failed"} : Release(w, s)
    BY <1>6 DEF MarkFailed
  <2> QED
    BY <2>1, <2>2, HolderMoves
<1>7. ASSUME NEW w \in Workers, StaleClaim(w) \/ Abandon(w) PROVE Moves(d)
  BY <1>0, <1>7 DEF StaleClaim, Abandon
<1>8. CASE RecoverExpired
  BY <1>8 DEF RecoverExpired, Moves
<1>9. ASSUME NEW x \in Deliveries, LeaseExpires(x) PROVE Moves(d)
  BY <1>0, <1>9 DEF LeaseExpires
<1>10. ASSUME NEW r \in dispatch, RelayPublish(r) \/ RelayUnconfirmed(r) PROVE Moves(d)
  BY <1>0, <1>10 DEF RelayPublish, RelayUnconfirmed
<1>11. ASSUME NEW c \in Channels,
              CreateChannel(c) \/ EnableChannel(c) \/ DisableChannel(c)
       PROVE  Moves(d)
  BY <1>11 DEF CreateChannel, EnableChannel, DisableChannel, Moves
<1>12. ASSUME NEW c \in Channels, DeleteBegin(c) \/ DeleteCommit(c) \/ DeleteAbort(c)
       PROVE  Moves(d)
  BY <1>12 DEF DeleteBegin, DeleteCommit, DeleteAbort, Moves, IInv, LocksOK
<1>13. CASE UNCHANGED vars
  BY <1>0, <1>13 DEF vars
<1> QED
  BY <1>1, <1>2, <1>3, <1>4, <1>5, <1>6, <1>7, <1>8, <1>9, <1>10, <1>11, <1>12,
     <1>13 DEF Next, ConsumerNext, WorkerNext, RelayNext, ApiNext

-----------------------------------------------------------------------------
(* The theorems.                                                           *)

\* The inductive invariant holds in every reachable state.
THEOREM Invariance == Spec => []IInv
BY InitInvariant, StepPreserves, PTL DEF Spec

\* However workers crash and claims expire, no delivery is attempted more
\* often than the larger of the two limits in the code.
THEOREM AttemptsAreBounded == Spec => []AttemptsBounded
<1>1. IInv => AttemptsBounded
  BY DEF IInv, RowsOK, AttemptsBounded
<1> QED BY <1>1, Invariance, PTL

\* No attempt of a delivery is in the hands of two workers.
THEOREM ClaimsAreExclusive == Spec => []ClaimIsExclusive
<1>1. IInv => ClaimIsExclusive
  BY DEF IInv
<1> QED BY <1>1, Invariance, PTL

\* A delivery marked sent was accepted by the provider on its last attempt.
THEOREM SentIsHonest == Spec => []SentMeansAccepted
<1>1. IInv => SentMeansAccepted
  BY DEF IInv
<1> QED BY <1>1, Invariance, PTL

\* Deliveries fail exactly when a dead letter reports their last attempt.
THEOREM FailureHasDeadLetter == Spec => []FailedIffDeadLetter
<1>1. IInv => FailedIffDeadLetter
  BY RowFields DEF IInv, OutboxOK, FailedHasDeadLetter, FailedIffDeadLetter
<1> QED BY <1>1, Invariance, PTL

\* As long as its channel exists, a waiting retry has its wake-up call.
THEOREM RetryIsNeverStranded == Spec => []RetryWaitHasWakeUp
<1>1. IInv => RetryWaitHasWakeUp
  BY DEF IInv
<1> QED BY <1>1, Invariance, PTL

\* A disabled channel has neither pending nor waiting deliveries.
THEOREM DisabledIsQuiet == Spec => []DisabledHasNoWaiting
<1>1. IInv => DisabledHasNoWaiting
  BY DEF IInv, RowsOK, DisabledHasNoWaiting
<1> QED BY <1>1, Invariance, PTL

\* Deliveries go to the user of the stored request only.
THEOREM OnlyRecipients == Spec => []BelongsToRecipient
<1>1. IInv => BelongsToRecipient
  BY DEF IInv
<1> QED BY <1>1, Invariance, PTL

\* No step leaves a terminal status.
THEOREM TerminalStaysFinal == Spec => TerminalIsFinal
<1>1. IInv /\ [Next]_vars =>
         [\A d \in Deliveries : status[d] \in Terminal => status'[d] = status[d]]_vars
  BY StepMoves DEF Moves, Terminal, Waiting
<1> QED BY <1>1, Invariance, PTL DEF Spec, TerminalIsFinal

\* A claim is ended by the worker that holds it or after its lease.
THEOREM ClaimsEndByHolder == Spec => OnlyHolderEndsClaim
<1>1. IInv /\ [Next]_vars =>
         [\A d \in Deliveries :
            (status[d] = "processing" /\ status'[d] # "processing") =>
               \/ expired[d]
               \/ \E w \in Workers :
                     task[w] # Idle /\ task[w].token = token[d] /\ task'[w] = Idle]_vars
  BY StepMoves DEF Moves, HolderLeaves, Waiting
<1> QED BY <1>1, Invariance, PTL DEF Spec, OnlyHolderEndsClaim

\* No retry starts before the record of the failed attempt came through Kafka.
THEOREM RetriesKeepBackoff == Spec => BackoffHonoured
<1>1. IInv /\ [Next]_vars =>
         [\A d \in Deliveries :
            (status[d] = "retry_wait" /\ status'[d] = "pending") =>
               RetryRow(d, attempts[d]) \in retryTopic]_vars
  BY StepMoves DEF Moves, Waiting
<1> QED BY <1>1, Invariance, PTL DEF Spec, BackoffHonoured

-----------------------------------------------------------------------------
(* Refinement.  Delivery implements DeliveryPromise: each action, from a   *)
(* state of the inductive invariant, is an action of the promise on the    *)
(* open items or leaves them alone.                                        *)

Open == Waiting \union {"processing"}
Item(d) == IF status[d] \in Open THEN "open" ELSE status[d]
Items == [d \in Deliveries |-> Item(d)]

LEMMA PromiseInit == Init => Promise!Init
BY DEF Init, Promise!Init, Open, Waiting

\* Steps that do not move a row between the promise's states are stuttering.
LEMMA Stutters ==
    ASSUME UNCHANGED <<attempts, accepted>>, \A d \in Deliveries : Item(d)' = Item(d)
    PROVE  UNCHANGED Promise!vars
BY DEF Promise!vars, Item, Open

\* Steps that end rows as failed or cancelled close items.
LEMMA Closes ==
    ASSUME IInv, UNCHANGED <<attempts, accepted>>,
           NEW F \in SUBSET Deliveries, NEW C \in SUBSET Deliveries,
           \A d \in F \union C : status[d] \in Open,
           \A d \in F : attempts[d] > 0,
           \A d \in Deliveries : Item(d)' = IF d \in F THEN "failed"
                                            ELSE IF d \in C THEN "cancelled" ELSE Item(d)
    PROVE  Promise!Next
<1>1. \A d \in F \union C : Items[d] = "open"
  BY DEF Items, Item
<1>2. Items' = [d \in Deliveries |-> IF d \in F THEN "failed"
                                     ELSE IF d \in C THEN "cancelled" ELSE Items[d]]
  BY DEF Items
<1>3. Promise!Close(F, C)
  BY <1>1, <1>2 DEF Promise!Close, Items, Item, Open
<1> QED
  BY <1>3 DEF Promise!Next

LEMMA AcceptOpens ==
    ASSUME IInv, NEW r \in Requests, AcceptRequest(r)
    PROVE  Promise!Next
<1> DEFINE New(d) == d[1] = r.event /\ Owner[ChannelOf(d)] = r.user /\ Enabled(d)
<1>0. PICK S \in SUBSET Deliveries : S = {d \in Deliveries : New(d)}
  OBVIOUS
<1>1. \A d \in S : status[d] = "none"
  BY <1>0 DEF IInv, AcceptRequest, IsNew, BelongsToRecipient
<1>2. \A d \in Deliveries : status'[d] = IF d \in S THEN "pending" ELSE status[d]
  BY <1>0 DEF AcceptRequest
<1>3. Items' = [d \in Deliveries |-> IF d \in S THEN "open" ELSE Items[d]]
  BY <1>2 DEF Items, Item, Open, Waiting
<1>4. \A d \in S : Items[d] = "none"
  BY <1>1 DEF Items, Item, Open, Waiting
<1>5. attempts' = attempts /\ accepted' = accepted
  BY DEF AcceptRequest, workerVars
<1>6. Promise!Open(S)
  BY <1>3, <1>4, <1>5 DEF Promise!Open, Items, Item, Open
<1> QED
  BY <1>6 DEF Promise!Next

LEMMA ClaimTries ==
    ASSUME IInv, NEW w \in Workers, NEW d \in Deliveries, Claim(w, d)
    PROVE  Promise!Next
<1>1. /\ status[d] = "pending" /\ status' = [status EXCEPT ![d] = "processing"]
      /\ attempts' = [attempts EXCEPT ![d] = @ + 1] /\ accepted' = accepted
  BY DEF Claim, Claimable, Take
<1>2. attempts[d] < AttemptLimit
  BY <1>1 DEF IInv, RowsOK, Waiting
<1>3. Items' = Items /\ Items[d] = "open"
  BY <1>1 DEF Items, Item, Open, Waiting, IInv, TypeOK
<1>4. Promise!Try(d)
  BY <1>1, <1>2, <1>3 DEF Promise!Try, Items, Item, Open
<1> QED
  BY <1>4 DEF Promise!Next

LEMMA SendTakes ==
    ASSUME IInv, NEW w \in Workers, Send(w)
    PROVE  Promise!Next \/ UNCHANGED Promise!vars
<1> USE DEF rowVars
<1> DEFINE id == task[w].id
           n  == task[w].attempts
<1>1. status' = status /\ attempts' = attempts
  BY DEF Send
<1>2. Items' = Items
  BY <1>1 DEF Items, Item
<1>3. accepted' = accepted \/ accepted' = accepted \union {<<id, n>>}
  BY DEF Send
<1>4. id \in Deliveries /\ n \in 1..attempts[id]
  BY TaskParts DEF IInv, Send, TasksOK
<1>5. n \in 1..AttemptLimit
  <2>1. attempts[id] \in Nat /\ attempts[id] <= AttemptLimit
    BY <1>4 DEF IInv, RowsOK, TypeOK
  <2> QED
    BY <1>4, <2>1, LimitFacts
<1>6. CASE accepted' = accepted
  BY <1>1, <1>6, Stutters DEF Item
<1>7. CASE accepted' = accepted \union {<<id, n>>}
  <2>1. Promise!Take(id, n)
    BY <1>1, <1>2, <1>4, <1>7 DEF Promise!Take, Items, Item, Open
  <2> QED
    BY <1>4, <1>5, <2>1 DEF Promise!Next
<1> QED BY <1>3, <1>6, <1>7

LEMMA MarkSentDelivers ==
    ASSUME IInv, NEW w \in Workers, MarkSent(w)
    PROVE  Promise!Next
<1>0. task[w] # Idle /\ HoldsClaim(w)
  BY TaskParts DEF MarkSent, IInv, Outcomes
<1>1. PICK id \in Deliveries :
         /\ id = task[w].id /\ status[id] = "processing"
         /\ <<id, attempts[id]>> \in accepted
  BY <1>0, HolderFacts DEF MarkSent
<1>2. /\ status' = [status EXCEPT ![id] = "sent"]
      /\ attempts' = attempts /\ accepted' = accepted
  BY <1>1 DEF MarkSent, Release
<1>3. Items[id] = "open" /\ Items' = [Items EXCEPT ![id] = "sent"]
  BY <1>1, <1>2 DEF Items, Item, Open, Waiting, IInv, TypeOK
<1>4. Promise!Deliver(id)
  BY <1>1, <1>2, <1>3 DEF Promise!Deliver, Items, Item, Open
<1> QED
  BY <1>4 DEF Promise!Next

LEMMA MarkFailedCloses ==
    ASSUME IInv, NEW w \in Workers, MarkFailed(w)
    PROVE  Promise!Next \/ UNCHANGED Promise!vars
<1> DEFINE id == task[w].id
<1>1. id \in Deliveries /\ status[id] = "processing" /\ attempts[id] > 0
  BY TaskParts, HolderFacts DEF MarkFailed, IInv, Outcomes, RowsOK
<1>2. PICK s \in {"cancelled", "retry_wait", "failed"} :
         status' = [status EXCEPT ![id] = s]
  BY DEF MarkFailed, Release
<1>3. attempts' = attempts /\ accepted' = accepted
  BY DEF MarkFailed
<1>4. \A d \in Deliveries : status'[d] = IF d = id THEN s ELSE status[d]
  BY <1>2 DEF IInv, TypeOK
<1> HIDE DEF id
<1>5. CASE s = "retry_wait"
  BY <1>1, <1>3, <1>4, <1>5, Stutters DEF Item, Open, Waiting
<1>6. CASE s = "failed"
  <2> DEFINE F == {id}
             C == {}
  <2>1. \A d \in Deliveries : Item(d)' = IF d \in F THEN "failed"
                                         ELSE IF d \in C THEN "cancelled" ELSE Item(d)
    BY <1>4, <1>6 DEF Item, Open, Waiting
  <2>2. /\ F \in SUBSET Deliveries /\ C \in SUBSET Deliveries
        /\ \A d \in F \union C : status[d] \in Open
        /\ \A d \in F : attempts[d] > 0
    BY <1>1 DEF Open
  <2> HIDE DEF F, C
  <2> QED
    BY <1>3, <2>1, <2>2, Closes
<1>7. CASE s = "cancelled"
  <2> DEFINE F == {}
             C == {id}
  <2>1. \A d \in Deliveries : Item(d)' = IF d \in F THEN "failed"
                                         ELSE IF d \in C THEN "cancelled" ELSE Item(d)
    BY <1>4, <1>7 DEF Item, Open, Waiting
  <2>2. /\ F \in SUBSET Deliveries /\ C \in SUBSET Deliveries
        /\ \A d \in F \union C : status[d] \in Open
        /\ \A d \in F : attempts[d] > 0
    BY <1>1 DEF Open
  <2> HIDE DEF F, C
  <2> QED
    BY <1>3, <2>1, <2>2, Closes
<1> QED BY <1>5, <1>6, <1>7

LEMMA RecoverCloses ==
    ASSUME IInv, RecoverExpired
    PROVE  Promise!Next
<1>1. PICK S \in SUBSET {d \in Deliveries : status[d] = "processing" /\ expired[d]} :
         status' = [d \in Deliveries |->
                      IF d \in S THEN RecoveredStatus(d) ELSE status[d]]
  BY DEF RecoverExpired
<1> DEFINE F == {d \in S : RecoveredStatus(d) = "failed"}
           C == {d \in S : RecoveredStatus(d) = "cancelled"}
<1>2. \A d \in S : /\ d \in Deliveries /\ status[d] = "processing"
                   /\ RecoveredStatus(d) \in {"cancelled", "failed", "pending"}
  BY DEF RecoveredStatus
<1>3. \A d \in Deliveries : Item(d)' = IF d \in F THEN "failed"
                                       ELSE IF d \in C THEN "cancelled" ELSE Item(d)
  BY <1>1, <1>2 DEF Item, Open, Waiting
<1>4. /\ F \in SUBSET Deliveries /\ C \in SUBSET Deliveries
      /\ \A d \in F \union C : status[d] \in Open
      /\ \A d \in F : attempts[d] > 0
  BY <1>2 DEF Open, IInv, RowsOK
<1>5. attempts' = attempts /\ accepted' = accepted
  BY DEF RecoverExpired, workerVars
<1> HIDE DEF F, C
<1> QED
  BY <1>3, <1>4, <1>5, Closes

\* The channel API closes what waits for the channel.
LEMMA CancelCloses ==
    ASSUME IInv, UNCHANGED <<attempts, accepted>>,
           NEW C \in SUBSET Deliveries, \A d \in C : status[d] \in Waiting,
           \A d \in Deliveries : status'[d] = IF d \in C THEN "cancelled" ELSE status[d]
    PROVE  Promise!Next
<1> DEFINE F == {}
<1>1. \A d \in Deliveries : Item(d)' = IF d \in F THEN "failed"
                                       ELSE IF d \in C THEN "cancelled" ELSE Item(d)
  BY DEF Item, Open, Waiting
<1>2. /\ F \in SUBSET Deliveries /\ \A d \in F \union C : status[d] \in Open
      /\ \A d \in F : attempts[d] > 0
  BY DEF Open
<1> HIDE DEF F
<1> QED
  BY <1>1, <1>2, Closes

LEMMA StepKeepsPromise == IInv /\ [Next]_vars => [Promise!Next]_(Promise!vars)
<1> SUFFICES ASSUME IInv, [Next]_vars
             PROVE  Promise!Next \/ UNCHANGED Promise!vars
  OBVIOUS
<1> USE DEF channelVars, rowVars, outboxVars, kafkaVars, workerVars
<1>0. UNCHANGED <<status, attempts, accepted>> => UNCHANGED Promise!vars
  BY Stutters DEF Item
<1>1. ASSUME NEW r \in Requests, AcceptRequest(r) PROVE Promise!Next
  BY <1>1, AcceptOpens
<1>2. ASSUME NEW r \in retryTopic, ConsumeRetry(r) \/ ConsumeUncommitted(r)
      PROVE  UNCHANGED Promise!vars
  <2>1. ResumeRetry(r)
    BY <1>2 DEF ConsumeRetry, ConsumeUncommitted
  <2>2. \A d \in Deliveries : Item(d)' = Item(d)
    BY <2>1 DEF ResumeRetry, Resumable, Item, Open, Waiting, IInv, TypeOK
  <2> QED
    BY <2>1, <2>2, Stutters DEF ResumeRetry
<1>3. ASSUME NEW w \in Workers, NEW d \in Deliveries, Claim(w, d) PROVE Promise!Next
  BY <1>3, ClaimTries
<1>4. ASSUME NEW w \in Workers, Send(w) PROVE Promise!Next \/ UNCHANGED Promise!vars
  BY <1>4, SendTakes
<1>5. ASSUME NEW w \in Workers, MarkSent(w) PROVE Promise!Next
  BY <1>5, MarkSentDelivers
<1>6. ASSUME NEW w \in Workers, MarkFailed(w)
      PROVE  Promise!Next \/ UNCHANGED Promise!vars
  BY <1>6, MarkFailedCloses
<1>7. ASSUME NEW w \in Workers, StaleClaim(w) \/ Abandon(w) PROVE UNCHANGED Promise!vars
  BY <1>0, <1>7 DEF StaleClaim, Abandon
<1>8. CASE RecoverExpired
  BY <1>8, RecoverCloses
<1>9. ASSUME NEW d \in Deliveries, LeaseExpires(d) PROVE UNCHANGED Promise!vars
  BY <1>0, <1>9 DEF LeaseExpires
<1>10. ASSUME NEW r \in dispatch, RelayPublish(r) \/ RelayUnconfirmed(r)
       PROVE  UNCHANGED Promise!vars
  BY <1>0, <1>10 DEF RelayPublish, RelayUnconfirmed
<1>11. ASSUME NEW c \in Channels,
              CreateChannel(c) \/ EnableChannel(c) \/ DeleteBegin(c) \/ DeleteAbort(c)
       PROVE  UNCHANGED Promise!vars
  BY <1>0, <1>11 DEF CreateChannel, EnableChannel, DeleteBegin, DeleteAbort
<1>12. ASSUME NEW c \in Channels, DisableChannel(c) PROVE Promise!Next
  <2> DEFINE C == {d \in Deliveries : ChannelOf(d) = c /\ status[d] \in Waiting}
  <2>1. \A d \in Deliveries : status'[d] = IF d \in C THEN "cancelled" ELSE status[d]
    BY <1>12 DEF DisableChannel
  <2>2. C \in SUBSET Deliveries /\ \A d \in C : status[d] \in Waiting
    OBVIOUS
  <2>3. attempts' = attempts /\ accepted' = accepted
    BY <1>12 DEF DisableChannel
  <2> HIDE DEF C
  <2> QED
    BY <2>1, <2>2, <2>3, CancelCloses
<1>13. ASSUME NEW c \in Channels, DeleteCommit(c) PROVE Promise!Next
  <2> DEFINE C == RowsOf(c) \intersect locked
  <2>1. \A d \in Deliveries : status'[d] = IF d \in C THEN "cancelled" ELSE status[d]
    BY <1>13 DEF DeleteCommit
  <2>2. C \in SUBSET Deliveries /\ \A d \in C : status[d] \in Waiting
    BY DEF IInv, LocksOK, RowsOf
  <2>3. attempts' = attempts /\ accepted' = accepted
    BY <1>13 DEF DeleteCommit
  <2> HIDE DEF C
  <2> QED
    BY <2>1, <2>2, <2>3, CancelCloses
<1>14. CASE UNCHANGED vars
  BY <1>0, <1>14 DEF vars
<1> QED
  BY <1>1, <1>2, <1>3, <1>4, <1>5, <1>6, <1>7, <1>8, <1>9, <1>10, <1>11, <1>12,
     <1>13, <1>14 DEF Next, ConsumerNext, WorkerNext, RelayNext, ApiNext

\* The delivery tables, with all their actors, implement the promise.
THEOREM DeliveryKeepsPromise == Spec => KeepsPromise
BY PromiseInit, StepKeepsPromise, Invariance, PTL DEF Spec, KeepsPromise, Promise!Spec

=============================================================================
