--------------------------- MODULE RowLocksProofs ---------------------------
(***************************************************************************)
(* The row locks, for every number of channels and of API requests: the    *)
(* inductive invariant says of every transaction what it holds and what it *)
(* has still to lock, by its operation and its statement.                  *)
(***************************************************************************)
EXTENDS RowLocks, FiniteSetTheorems, SequenceTheorems, TLAPS

-----------------------------------------------------------------------------
(* The inductive invariant.                                                *)

ApiOps == {"enable", "disable", "delete"}
Ops == ApiOps \union {"accept", "resume", "fail", "recover"}

Rows == {"channel", "delivery"} \X Channels
Locks == [row : Rows, exclusive : BOOLEAN]
Transactions ==
    [op : Ops, arg : Records, stmt : {1, 2}, todo : Seq(Rows), seen : SUBSET Channels]

ShapeOK ==
    /\ channel \in [Channels -> {"enabled", "disabled", "deleted"}]
    /\ status \in [Channels -> {"none", "pending", "processing", "sent",
                                "retry_wait", "failed", "cancelled"}]
    /\ tx \in [Actors -> {Idle, Done} \union Transactions]
    /\ held \in [Actors -> SUBSET Locks]

\* Who runs which operation, and for what; outside a transaction there are no locks.
ActorOK(a) ==
    /\ ~InTx(a) => held[a] = {}
    /\ InTx(a) =>
         /\ tx[a].op \in ApiOps <=> a \in ApiRequests
         /\ tx[a].op \in {"accept", "resume"} <=> a = Consumer
         /\ tx[a].op = "fail" => a = Worker
         /\ tx[a].op \in ApiOps \union {"resume", "fail"} => tx[a].arg \in Channels

ModeOK(a) == \A lock \in held[a] : lock.exclusive <=> Exclusive(a, lock.row)

\* Two transactions that hold the same row share it.
CompatOK ==
    \A a, b \in Actors : \A row \in Rows :
        a # b /\ Holds(a, row) /\ Holds(b, row) => ~Exclusive(a, row)

\* A channel found enabled is locked, and so it is enabled still.
SeenOK(a) ==
    InTx(a) => \A c \in tx[a].seen : Holds(a, ChannelRow(c)) /\ channel[c] = "enabled"

\* The first statement of SetChannelEnabled.
ChangesFirst(a) ==
    /\ \A row \in Rows : Holds(a, row) => row = ChannelRow(tx[a].arg)
    /\ \/ tx[a].todo = <<>>
       \/ tx[a].todo = <<ChannelRow(tx[a].arg)>> /\ held[a] = {}

\* Its second statement, when it disables: behind the lock of the channel the
\* delivery cannot begin to wait, and one that waits can only go on doing so.
CancelsSecond(a) ==
    LET c == tx[a].arg IN
    /\ Holds(a, ChannelRow(c))
    /\ \A row \in Rows : Holds(a, row) => row \in {ChannelRow(c), DeliveryRow(c)}
    /\ \/ tx[a].todo = <<>> /\ (Holds(a, DeliveryRow(c)) \/ status[c] \notin Waiting)
       \/ /\ tx[a].todo = <<DeliveryRow(c)>>
          /\ ~Holds(a, DeliveryRow(c))
          /\ status[c] \in Waiting

SetEnabledOK(a) ==
    /\ tx[a].op = "enable" => ChangesFirst(a)
    /\ tx[a].op = "disable" => IF tx[a].stmt = 1 THEN ChangesFirst(a)
                                                  ELSE CancelsSecond(a)

OnlyChannels(s) == \A i \in DOMAIN s : s[i][1] = "channel"

AcceptOK(a) ==
    tx[a].op = "accept" =>
        /\ OnlyChannels(tx[a].todo)
        /\ \A c \in Channels : ~Holds(a, DeliveryRow(c))

\* The delivery of x comes at most once, after the channel of x, unless that
\* has been found enabled already.
Ordered(s, x, seen) ==
    \A i \in DOMAIN s : s[i][1] = "delivery" =>
        /\ s[i] = DeliveryRow(x)
        /\ \A j \in DOMAIN s : s[j] = DeliveryRow(x) => j = i
        /\ x \in seen \/ \E j \in DOMAIN s : j < i /\ s[j] = ChannelRow(x)

ResumeOK(a) ==
    tx[a].op = "resume" =>
        /\ Ordered(tx[a].todo, tx[a].arg, tx[a].seen)
        /\ \A c \in Channels :
              Holds(a, DeliveryRow(c)) => /\ c = tx[a].arg
                                          /\ c \in tx[a].seen
                                          /\ OnlyChannels(tx[a].todo)

FailOK(a) ==
    tx[a].op = "fail" =>
        LET row == DeliveryRow(tx[a].arg) IN
        /\ \A c \in Channels :
              Holds(a, DeliveryRow(c)) => /\ c = tx[a].arg
                                          /\ status[c] = "processing"
                                          /\ tx[a].stmt = 2
                                          /\ tx[a].todo = <<>>
        /\ IF tx[a].stmt = 1 THEN OnlyChannels(tx[a].todo)
                             ELSE tx[a].todo \in {<<>>, <<row>>}

RecoverOK(a) ==
    tx[a].op = "recover" =>
        /\ OnlyChannels(tx[a].todo)
        /\ \A c \in Channels : Holds(a, DeliveryRow(c)) => status[c] = "processing"

TxOK(a) ==
    /\ ActorOK(a)
    /\ ModeOK(a)
    /\ SeenOK(a)
    /\ InTx(a) => SetEnabledOK(a) /\ AcceptOK(a) /\ ResumeOK(a) /\ FailOK(a) /\ RecoverOK(a)

IInv ==
    /\ ShapeOK
    /\ \A a \in Actors : TxOK(a)
    /\ CompatOK
    /\ DisabledHasNoWaiting

-----------------------------------------------------------------------------
(* What a step of one transaction leaves to the others.                    *)

LEMMA InTxIsTransaction ==
    ASSUME ShapeOK, NEW a \in Actors
    PROVE  /\ InTx(a) <=> tx[a] \in Transactions
           /\ InTx(a) <=> tx[a].op \in Ops
           /\ ~InTx(a) => tx[a] \in {Idle, Done}
<1>1. Idle.op \notin Ops /\ Done.op \notin Ops
  BY DEF Idle, Done, Ops, ApiOps
<1>2. \A t \in Transactions : t.op \in Ops
  BY DEF Transactions
<1>3. tx[a] \in {Idle, Done} \union Transactions
  BY DEF ShapeOK
<1> QED
  BY <1>1, <1>2, <1>3 DEF InTx

\* A step of a: it changes no row under the lock of another transaction, and
\* what it puts among the waiting deliveries it has seen enabled.
OnlyActs(a) ==
    /\ \A x \in Actors \ {a} : tx'[x] = tx[x] /\ held'[x] = held[x]
    /\ \A c \in Channels : channel'[c] # channel[c] =>
          \A x \in Actors \ {a} : ~Holds(x, ChannelRow(c))
    /\ \A c \in Channels : status'[c] # status[c] =>
          /\ status'[c] \in Waiting => InTx(a) /\ c \in tx[a].seen
          /\ status[c] # "none" => \A x \in Actors \ {a} : ~Holds(x, DeliveryRow(c))
          /\ status[c] \in Waiting => \A x \in Actors \ {a} :
                Holds(x, ChannelRow(c)) => ~Exclusive(x, ChannelRow(c))

LEMMA RowsOfChannels ==
    ASSUME NEW c \in Channels
    PROVE  /\ ChannelRow(c) \in Rows /\ DeliveryRow(c) \in Rows
           /\ ChannelRow(c)[1] = "channel" /\ ChannelRow(c)[2] = c
           /\ DeliveryRow(c)[1] = "delivery" /\ DeliveryRow(c)[2] = c
           /\ ChannelRow(c) # DeliveryRow(c)
BY DEF Rows, ChannelRow, DeliveryRow

\* Behind the exclusive lock of a channel no delivery of it begins to wait.
LEMMA OthersKeep ==
    ASSUME IInv, NEW a \in Actors, OnlyActs(a), ShapeOK', NEW x \in Actors \ {a}
    PROVE  TxOK(x)'
<1>0. /\ ShapeOK /\ TxOK(x) /\ TxOK(a) /\ CompatOK
      /\ tx'[x] = tx[x] /\ held'[x] = held[x] /\ x # a
  BY DEF IInv, OnlyActs
<1>1. /\ InTx(x)' <=> InTx(x)
      /\ \A row : Holds(x, row)' <=> Holds(x, row)
      /\ \A row : Exclusive(x, row)' <=> Exclusive(x, row)
  BY <1>0 DEF InTx, Holds, Exclusive
<1>2. ActorOK(x)' /\ ModeOK(x)'
  BY <1>0, <1>1 DEF TxOK, ActorOK, ModeOK
<1>3. SeenOK(x)'
  <2> SUFFICES ASSUME InTx(x), NEW c \in tx[x].seen
               PROVE  Holds(x, ChannelRow(c)) /\ channel'[c] = "enabled"
    BY <1>0, <1>1 DEF SeenOK
  <2>1. Holds(x, ChannelRow(c)) /\ channel[c] = "enabled" /\ c \in Channels
    BY <1>0, InTxIsTransaction DEF TxOK, SeenOK, Transactions
  <2> QED
    BY <1>0, <2>1 DEF OnlyActs
<1>4. ASSUME InTx(x)
      PROVE  SetEnabledOK(x)' /\ AcceptOK(x)' /\ ResumeOK(x)' /\ FailOK(x)' /\ RecoverOK(x)'
  <2>0. /\ SetEnabledOK(x) /\ AcceptOK(x) /\ ResumeOK(x) /\ FailOK(x) /\ RecoverOK(x)
        /\ ActorOK(x)
    BY <1>0, <1>4 DEF TxOK
  <2>1. ASSUME NEW c \in Channels, Holds(x, DeliveryRow(c)), status[c] = "processing"
        PROVE  status'[c] = "processing"
    BY <1>0, <2>1 DEF OnlyActs
  <2>2. ASSUME NEW c \in Channels, Holds(x, ChannelRow(c)),
               Exclusive(x, ChannelRow(c))
        PROVE  status'[c] \in Waiting <=> status[c] \in Waiting
    <3>1. InTx(a) => c \notin tx[a].seen
      BY <1>0, <2>2, RowsOfChannels DEF CompatOK, TxOK, SeenOK
    <3> QED
      BY <1>0, <2>2, <3>1 DEF OnlyActs
  <2>3. SetEnabledOK(x)'
    <3>1. ChangesFirst(x) => ChangesFirst(x)'
      BY <1>0, <1>1 DEF ChangesFirst
    <3>2. ASSUME tx[x].op = "disable", CancelsSecond(x)
          PROVE  CancelsSecond(x)'
      <4>1. tx[x].arg \in Channels
        BY <1>4, <2>0, <3>2 DEF ActorOK, ApiOps
      <4>2. Holds(x, ChannelRow(tx[x].arg)) /\ Exclusive(x, ChannelRow(tx[x].arg))
        BY <3>2 DEF CancelsSecond, Exclusive
      <4>3. status'[tx[x].arg] \in Waiting <=> status[tx[x].arg] \in Waiting
        BY <4>1, <4>2, <2>2
      <4> QED
        BY <1>0, <1>1, <3>2, <4>3 DEF CancelsSecond
    <3> QED
      BY <1>0, <2>0, <3>1, <3>2 DEF SetEnabledOK
  <2>4. AcceptOK(x)' /\ ResumeOK(x)'
    BY <1>0, <1>1, <2>0 DEF AcceptOK, ResumeOK
  <2>5. FailOK(x)'
    BY <1>0, <1>1, <2>0, <2>1 DEF FailOK
  <2>6. RecoverOK(x)'
    BY <1>0, <1>1, <2>0, <2>1 DEF RecoverOK
  <2> QED
    BY <2>3, <2>4, <2>5, <2>6
<1> QED
  BY <1>1, <1>2, <1>3, <1>4 DEF TxOK

LEMMA CompatKeeps ==
    ASSUME IInv, NEW a \in Actors, OnlyActs(a),
           \A row \in Rows : Holds(a, row)' => \A b \in Actors \ {a} :
               Holds(b, row) => ~Exclusive(b, row) /\ ~Exclusive(a, row)'
    PROVE  CompatOK'
<1> SUFFICES ASSUME NEW x \in Actors, NEW y \in Actors, NEW row \in Rows,
                    x # y, Holds(x, row)', Holds(y, row)'
             PROVE  ~Exclusive(x, row)'
  BY DEF CompatOK
<1>1. \A z \in Actors \ {a} : /\ Holds(z, row)' <=> Holds(z, row)
                              /\ Exclusive(z, row)' <=> Exclusive(z, row)
  BY DEF OnlyActs, Holds, Exclusive
<1> QED
  BY <1>1 DEF IInv, CompatOK

LEMMA NoneWaits ==
    ASSUME IInv, NEW a \in Actors, OnlyActs(a), UNCHANGED channel
    PROVE  DisabledHasNoWaiting'
<1> SUFFICES ASSUME NEW c \in Channels, channel[c] = "disabled"
             PROVE  status'[c] \notin Waiting
  BY DEF DisabledHasNoWaiting
<1>1. InTx(a) => c \notin tx[a].seen
  BY DEF IInv, TxOK, SeenOK
<1> QED
  BY <1>1 DEF IInv, DisabledHasNoWaiting, OnlyActs

\* The obligations of a step that changes no channel.
LEMMA StepKeeps ==
    ASSUME IInv, NEW a \in Actors, OnlyActs(a), UNCHANGED channel, ShapeOK', TxOK(a)',
           \A row \in Rows : Holds(a, row)' => \A b \in Actors \ {a} :
               Holds(b, row) => ~Exclusive(b, row) /\ ~Exclusive(a, row)'
    PROVE  IInv'
BY OthersKeep, CompatKeeps, NoneWaits DEF IInv

\* Whoever holds a delivery holds it alone; who shares a channel shares it with
\* sharers.
LEMMA WhatLocksExclude ==
    ASSUME IInv, NEW a \in Actors, NEW c \in Channels, NEW x \in Actors \ {a}
    PROVE  /\ Holds(a, DeliveryRow(c)) => ~Holds(x, DeliveryRow(c))
           /\ Holds(a, ChannelRow(c)) /\ Holds(x, ChannelRow(c))
                 => ~Exclusive(x, ChannelRow(c)) /\ ~Exclusive(a, ChannelRow(c))
<1>1. CompatOK /\ x # a
  BY DEF IInv
<1>2. Exclusive(a, DeliveryRow(c))
  BY RowsOfChannels DEF Exclusive
<1> QED
  BY <1>1, <1>2, RowsOfChannels DEF CompatOK

-----------------------------------------------------------------------------
(* The steps that end a transaction.                                       *)

LEMMA EndKeeps ==
    ASSUME IInv, NEW a \in Actors, End(a)
    PROVE  /\ tx' \in [Actors -> {Idle, Done} \union Transactions]
           /\ held' \in [Actors -> SUBSET Locks]
           /\ \A x \in Actors \ {a} : tx'[x] = tx[x] /\ held'[x] = held[x]
           /\ TxOK(a)'
           /\ \A row : ~Holds(a, row)'
<1>1. ShapeOK
  BY DEF IInv
<1>2. tx'[a] \in {Idle, Done} /\ held'[a] = {}
  BY <1>1 DEF ShapeOK, End
<1>3. TxOK(a)'
  BY <1>2 DEF TxOK, ActorOK, ModeOK, SeenOK, InTx
<1>4. \A x \in Actors \ {a} : tx'[x] = tx[x] /\ held'[x] = held[x]
  BY <1>1 DEF ShapeOK, End
<1>5. /\ tx' \in [Actors -> {Idle, Done} \union Transactions]
      /\ held' \in [Actors -> SUBSET Locks]
  BY <1>1 DEF ShapeOK, End
<1> QED
  BY <1>2, <1>3, <1>4, <1>5 DEF Holds

LEMMA RollbackKeeps ==
    ASSUME IInv, NEW a \in Actors, End(a), UNCHANGED <<channel, status>>
    PROVE  IInv'
<1>1. OnlyActs(a)
  BY EndKeeps DEF OnlyActs
<1>2. ShapeOK'
  BY EndKeeps DEF IInv, ShapeOK
<1> QED
  BY <1>1, <1>2, EndKeeps, StepKeeps

LEMMA ConsumeKeeps ==
    ASSUME IInv, Consume
    PROVE  IInv'
<1> DEFINE a == Consumer
<1>0. /\ a \in Actors /\ InTx(a) /\ End(a) /\ UNCHANGED channel
      /\ tx[a].op \in {"accept", "resume"}
      /\ status' = [c \in Channels |->
             IF \/ tx[a].op = "accept" /\ c \in tx[a].seen /\ status[c] = "none"
                \/ tx[a].op = "resume" /\ Holds(a, DeliveryRow(c))
             THEN "pending" ELSE status[c]]
  BY DEF Consume, Ready, Actors
<1>1. /\ \A c \in tx[a].seen : Holds(a, ChannelRow(c))
      /\ tx[a].op = "resume" =>
            \A c \in Channels : Holds(a, DeliveryRow(c)) => c \in tx[a].seen
  BY <1>0 DEF IInv, TxOK, SeenOK, ResumeOK
<1>2. \A c \in Channels : status'[c] # status[c] =>
          c \in tx[a].seen /\ (status[c] = "none" \/ Holds(a, DeliveryRow(c)))
  BY <1>0, <1>1
<1> HIDE DEF a
<1>3. OnlyActs(a)
  BY <1>0, <1>1, <1>2, EndKeeps, WhatLocksExclude DEF OnlyActs
<1>4. status' \in [Channels -> {"none", "pending", "processing", "sent",
                                "retry_wait", "failed", "cancelled"}]
  BY <1>0 DEF IInv, ShapeOK
<1>5. ShapeOK'
  BY <1>0, <1>4, EndKeeps DEF IInv, ShapeOK
<1> QED
  BY <1>0, <1>3, <1>5, EndKeeps, StepKeeps

\* A delivery that is still being processed is put back, or nothing happens.
LEMMA CommitFailedKeeps ==
    ASSUME IInv, CommitFailed
    PROVE  IInv'
<1> DEFINE a == Worker
           c == tx[a].arg
<1>0. /\ a \in Actors /\ InTx(a) /\ End(a) /\ UNCHANGED channel
      /\ tx[a].op = "fail"
  BY DEF CommitFailed, Ready, Actors
<1>1. PICK failed \in IF ~Holds(a, DeliveryRow(c)) THEN {status[c]}
                      ELSE IF c \notin tx[a].seen THEN {"cancelled"}
                      ELSE {"retry_wait", "failed"} :
          status' = [status EXCEPT ![c] = failed]
  BY DEF CommitFailed
<1>2. /\ c \in Channels
      /\ Holds(a, DeliveryRow(c)) => status[c] = "processing"
      /\ status \in [Channels -> {"none", "pending", "processing", "sent",
                                  "retry_wait", "failed", "cancelled"}]
  BY <1>0 DEF IInv, ShapeOK, TxOK, ActorOK, FailOK
<1> HIDE DEF a, c
<1>3. \A x \in Channels : status'[x] # status[x] =>
          /\ Holds(a, DeliveryRow(x))
          /\ status[x] = "processing"
          /\ status'[x] \in Waiting => x \in tx[a].seen
  BY <1>1, <1>2 DEF Waiting
<1>4. OnlyActs(a)
  BY <1>0, <1>3, EndKeeps, WhatLocksExclude DEF OnlyActs, Waiting
<1>5. status' \in [Channels -> {"none", "pending", "processing", "sent",
                                "retry_wait", "failed", "cancelled"}]
  BY <1>1, <1>2
<1>6. ShapeOK'
  BY <1>0, <1>5, EndKeeps DEF IInv, ShapeOK
<1> QED
  BY <1>0, <1>4, <1>6, EndKeeps, StepKeeps

LEMMA CommitRecoveryKeeps ==
    ASSUME IInv, NEW a \in Actors, CommitRecovery(a)
    PROVE  IInv'
<1>0. InTx(a) /\ End(a) /\ UNCHANGED channel /\ tx[a].op = "recover"
  BY DEF CommitRecovery, Ready
<1>1. PICK exhausted \in SUBSET Channels :
          status' = [c \in Channels |->
             IF ~Holds(a, DeliveryRow(c)) THEN status[c]
             ELSE IF c \notin tx[a].seen THEN "cancelled"
             ELSE IF c \in exhausted THEN "failed" ELSE "pending"]
  BY DEF CommitRecovery
<1>2. /\ \A c \in Channels : Holds(a, DeliveryRow(c)) => status[c] = "processing"
      /\ status \in [Channels -> {"none", "pending", "processing", "sent",
                                  "retry_wait", "failed", "cancelled"}]
  BY <1>0 DEF IInv, ShapeOK, TxOK, RecoverOK
<1>3. \A x \in Channels : status'[x] # status[x] =>
          /\ Holds(a, DeliveryRow(x))
          /\ status[x] = "processing"
          /\ status'[x] \in Waiting => x \in tx[a].seen
  BY <1>1, <1>2 DEF Waiting
<1>4. OnlyActs(a)
  BY <1>0, <1>3, EndKeeps, WhatLocksExclude DEF OnlyActs, Waiting
<1>5. status' \in [Channels -> {"none", "pending", "processing", "sent",
                                "retry_wait", "failed", "cancelled"}]
  BY <1>1, <1>2
<1>6. ShapeOK'
  BY <1>0, <1>5, EndKeeps DEF IInv, ShapeOK
<1> QED
  BY <1>0, <1>4, <1>6, EndKeeps, StepKeeps

\* SetChannelEnabled cancels what waits before it disables the channel.
LEMMA CommitChangeKeeps ==
    ASSUME IInv, NEW a \in ApiRequests, CommitChange(a)
    PROVE  IInv'
<1> DEFINE c == tx[a].arg
           changed == CASE tx[a].op = "enable"  -> "enabled"
                        [] tx[a].op = "disable" -> "disabled"
                        [] tx[a].op = "delete"  -> "deleted"
           cancelled == IF Holds(a, DeliveryRow(c)) THEN "cancelled" ELSE status[c]
<1>0. /\ a \in Actors /\ InTx(a) /\ End(a) /\ ShapeOK
      /\ tx[a].op \in ApiOps /\ tx[a].todo = <<>>
      /\ tx[a].op = "disable" => tx[a].stmt = 2
      /\ Holds(a, ChannelRow(c))
      /\ channel' = [channel EXCEPT ![c] = changed]
      /\ status' = [status EXCEPT ![c] = cancelled]
  BY DEF CommitChange, Ready, Actors, ApiOps, IInv
<1>1. c \in Channels
  BY <1>0 DEF IInv, TxOK, ActorOK
<1>2. /\ changed \in {"enabled", "disabled", "deleted"}
      /\ changed = "disabled" => tx[a].op = "disable"
  BY <1>0 DEF ApiOps
<1>3. tx[a].op = "disable" => cancelled \notin Waiting
  <2>1. tx[a].op = "disable" => CancelsSecond(a)
    BY <1>0 DEF IInv, TxOK, SetEnabledOK
  <2> QED
    BY <1>0, <2>1 DEF CancelsSecond, Waiting
<1>4. \A x \in Channels : x # c => channel'[x] = channel[x] /\ status'[x] = status[x]
  BY <1>0, <1>1 DEF ShapeOK
<1>5. channel'[c] = changed /\ status'[c] = cancelled
  BY <1>0, <1>1 DEF ShapeOK
<1>6. cancelled \in {status[c], "cancelled"}
      /\ (cancelled # status[c] => Holds(a, DeliveryRow(c)))
  OBVIOUS
<1> HIDE DEF c, changed, cancelled
<1>7. Exclusive(a, ChannelRow(c))
  BY <1>0 DEF Exclusive, ApiOps
<1>8. \A x \in Actors \ {a} : ~Holds(x, ChannelRow(c))
  BY <1>0, <1>1, <1>7, WhatLocksExclude
<1>9. OnlyActs(a)
  BY <1>0, <1>1, <1>4, <1>5, <1>6, <1>8, EndKeeps, WhatLocksExclude DEF OnlyActs, Waiting
<1>10. ShapeOK'
  BY <1>0, <1>1, <1>2, <1>6, EndKeeps DEF ShapeOK
<1>11. DisabledHasNoWaiting'
  <2> SUFFICES ASSUME NEW x \in Channels, channel'[x] = "disabled"
               PROVE  status'[x] \notin Waiting
    BY DEF DisabledHasNoWaiting
  <2>1. CASE x = c
    BY <2>1, <1>2, <1>3, <1>5
  <2>2. CASE x # c
    BY <2>2, <1>4 DEF IInv, DisabledHasNoWaiting
  <2> QED
    BY <2>1, <2>2
<1>12. CompatOK'
  BY <1>0, <1>9, EndKeeps, CompatKeeps
<1> QED
  BY <1>0, <1>9, <1>10, <1>11, <1>12, EndKeeps, OthersKeep DEF IInv

-----------------------------------------------------------------------------
(* The statements of the worker that are a transaction of their own.       *)

LEMMA ClaimAndMarkKeep ==
    ASSUME IInv, NEW c \in Channels, Claim(c) \/ MarkSent(c)
    PROVE  IInv'
<1> DEFINE a == Worker
<1>0. a \in Actors /\ tx[a] = Idle /\ UNCHANGED <<channel, tx, held>> /\ ShapeOK
  BY DEF Claim, MarkSent, Actors, IInv
<1>1. PICK s \in {"processing", "sent", status[c]} :
          /\ status' = [status EXCEPT ![c] = s]
          /\ s # status[c] =>
                /\ \A x \in Actors \ {a} : ~Holds(x, DeliveryRow(c))
                /\ status[c] \in Waiting =>
                      \A x \in Actors \ {a} : ~Holds(x, ChannelRow(c))
  <2>1. CASE Claim(c)
    BY <2>1 DEF Claim, Free, HeldByOthers, Holds
  <2>2. CASE MarkSent(c)
    <3>1. \A x \in Actors \ {a} : ~Holds(x, DeliveryRow(c))
      BY <2>2 DEF MarkSent, HeldByOthers, Holds
    <3>2. CASE status[c] = "processing"
      BY <2>2, <3>1, <3>2 DEF MarkSent, Waiting
    <3>3. CASE status[c] # "processing"
      BY <2>2, <3>3 DEF MarkSent
    <3> QED
      BY <3>2, <3>3
  <2> QED
    BY <2>1, <2>2
<1> HIDE DEF a
<1>2. status' \in [Channels -> {"none", "pending", "processing", "sent",
                                "retry_wait", "failed", "cancelled"}]
  BY <1>0, <1>1 DEF ShapeOK
<1>3. \A x \in Channels : status'[x] # status[x] => x = c /\ status'[x] = s /\ s # status[c]
  BY <1>0, <1>1 DEF ShapeOK
<1>4. OnlyActs(a)
  BY <1>0, <1>1, <1>3 DEF OnlyActs, Waiting
<1>5. ~InTx(a) /\ ~InTx(a)'
  BY <1>0 DEF InTx
<1>6. held[a] = {}
  BY <1>0, <1>5 DEF IInv, TxOK, ActorOK
<1>7. TxOK(a)' /\ \A row : ~Holds(a, row)'
  BY <1>0, <1>5, <1>6 DEF TxOK, ActorOK, ModeOK, SeenOK, Holds
<1>8. ShapeOK'
  BY <1>0, <1>2 DEF ShapeOK
<1> QED
  BY <1>0, <1>4, <1>7, <1>8, StepKeeps

-----------------------------------------------------------------------------
(* The sequences of rows a statement has to lock.                          *)

LEMMA FiniteRows == IsFiniteSet(Rows)
<1>1. IsFiniteSet({"channel", "delivery"})
  <2>1. {"channel", "delivery"} = {"channel"} \union {"delivery"}
    OBVIOUS
  <2>2. IsFiniteSet({"channel"}) /\ IsFiniteSet({"delivery"})
    BY FS_Singleton
  <2> QED
    BY <2>1, <2>2, FS_Union
<1> QED
  BY <1>1, ChannelsAssumption, FS_Product DEF Rows

LEMMA SeqsOfRows ==
    ASSUME NEW R \in SUBSET Rows, NEW s \in SetToSeqs(R)
    PROVE  /\ s \in Seq(Rows)
           /\ IsInjective(s)
           /\ \A i \in DOMAIN s : s[i] \in R
           /\ \A row \in R : \E i \in DOMAIN s : s[i] = row
<1> DEFINE n == Cardinality(R)
<1>1. IsFiniteSet(R) /\ n \in Nat
  BY FiniteRows, FS_Subset, FS_CardinalityType
<1>2. s \in [1..n -> R] /\ \A i, j \in 1..n : i # j => s[i] # s[j]
  BY DEF SetToSeqs
<1>3. Cardinality(1..n) = n
  BY <1>1, FS_Interval
<1> HIDE DEF n
<1>4. s \in Injection(1..n, R)
  BY <1>2 DEF Injection, IsInjective
<1>5. s \in Surjection(1..n, R)
  BY <1>1, <1>3, <1>4, FS_Injection DEF n
<1> QED
  BY <1>1, <1>2, <1>4, <1>5 DEF Injection, Surjection

\* What a plan has locked of the rows it joins goes without the row left out.
LEMMA WithoutRow ==
    ASSUME NEW s \in Seq(Rows), NEW row \in Rows
    PROVE  /\ Without(s, row) \in Seq(Rows)
           /\ \A i \in DOMAIN Without(s, row) : \E j \in DOMAIN s :
                 /\ Without(s, row)[i] = s[j]
                 /\ (\A k, l \in DOMAIN s : s[k] = row /\ s[l] = row => k = l)
                       => s[j] # row
           /\ (\A i \in DOMAIN s : s[i] # row) => Without(s, row) = s
<1>1. CASE row \notin Range(s)
  BY <1>1 DEF Without, Range
<1>2. CASE row \in Range(s)
  <2> DEFINE p == Position(s, row)
             w == Without(s, row)
  <2>1. p \in 1..Len(s) /\ s[p] = row
    BY <1>2 DEF Position, Range
  <2>2. w = SubSeq(s, 1, p - 1) \o SubSeq(s, p + 1, Len(s))
    BY <1>2 DEF Without, RemoveAt
  <2> HIDE DEF p, w
  <2> DEFINE u == SubSeq(s, 1, p - 1)
             v == SubSeq(s, p + 1, Len(s))
  <2>3. w = u \o v
    BY <2>2
  <2>4. u \in Seq(Rows) /\ Len(u) = p - 1 /\ \A i \in 1..(p - 1) : u[i] = s[i]
    BY <2>1
  <2>5. /\ v \in Seq(Rows) /\ Len(v) = Len(s) - p
        /\ \A i \in 1..(Len(s) - p) : v[i] = s[p + i]
    BY <2>1
  <2> HIDE DEF u, v
  <2>6. /\ w \in Seq(Rows) /\ Len(w) = Len(s) - 1
        /\ \A i \in 1..Len(w) : w[i] = IF i < p THEN s[i] ELSE s[i + 1]
    <3>1. /\ w \in Seq(Rows)
          /\ Len(w) = Len(u) + Len(v)
          /\ \A i \in 1..(Len(u) + Len(v)) :
                w[i] = IF i <= Len(u) THEN u[i] ELSE v[i - Len(u)]
      BY <2>3, <2>4, <2>5, ConcatProperties
    <3>2. ASSUME NEW i \in 1..Len(w), ~(i < p)
          PROVE  w[i] = s[i + 1]
      <4> DEFINE k == i - (p - 1)
      <4>1. k \in 1..(Len(s) - p) /\ p + k = i + 1
        <5>1. Len(w) = Len(s) - 1 /\ Len(s) \in Nat /\ p \in Nat
          BY <2>1, <2>4, <2>5, <3>1
        <5> QED
          BY <3>2, <5>1
      <4>2. k = i - Len(u) /\ i \in 1..(Len(u) + Len(v)) /\ ~(i <= Len(u))
        BY <2>1, <2>4, <3>1, <3>2
      <4> HIDE DEF k
      <4>3. w[i] = v[k]
        BY <3>1, <4>2
      <4> QED
        BY <2>5, <4>1, <4>3
    <3> QED
      BY <2>1, <2>4, <2>5, <3>1, <3>2
  <2>7. ASSUME NEW i \in DOMAIN w
        PROVE  \E j \in DOMAIN s :
                  /\ w[i] = s[j]
                  /\ (\A k, l \in DOMAIN s : s[k] = row /\ s[l] = row => k = l)
                        => s[j] # row
    <3>1. i \in 1..Len(w)
      BY <2>6
    <3>2. CASE i < p
      BY <2>1, <2>6, <3>1, <3>2
    <3>3. CASE ~(i < p)
      BY <2>1, <2>6, <3>1, <3>3
    <3> QED
      BY <3>2, <3>3
  <2> QED
    BY <1>2, <2>6, <2>7 DEF Range, w
<1> QED
  BY <1>1, <1>2

-----------------------------------------------------------------------------
(* The steps that begin a transaction or its second statement.             *)

\* The obligations of a step that changes no table.
LEMMA TablesKept ==
    ASSUME IInv, NEW a \in Actors, UNCHANGED <<channel, status>>,
           NEW t \in Transactions, tx' = [tx EXCEPT ![a] = t],
           NEW h \in SUBSET Locks, held' = [held EXCEPT ![a] = h],
           TxOK(a)',
           \A row \in Rows : Holds(a, row)' => \A b \in Actors \ {a} :
               Holds(b, row) => ~Exclusive(b, row) /\ ~Exclusive(a, row)'
    PROVE  IInv'
<1>1. OnlyActs(a)
  BY DEF IInv, ShapeOK, OnlyActs
<1>2. ShapeOK'
  BY DEF IInv, ShapeOK
<1> QED
  BY <1>1, <1>2, StepKeeps

\* Who begins what, and for what.
BeginsAs(a, op, arg) ==
    /\ op \in Ops /\ arg \in Records
    /\ op \in ApiOps <=> a \in ApiRequests
    /\ op \in {"accept", "resume"} <=> a = Consumer
    /\ op = "fail" => a = Worker
    /\ op \in ApiOps \union {"resume", "fail"} => arg \in Channels

\* A transaction that begins holds nothing.
LEMMA BeginKeeps ==
    ASSUME IInv, NEW a \in Actors, NEW op, NEW arg, NEW todo \in Seq(Rows),
           BeginsAs(a, op, arg), Begin(a, op, arg, todo),
           UNCHANGED <<channel, status, held>>,
           op \in {"enable", "disable"} => todo \in {<<>>, <<ChannelRow(arg)>>},
           op \in {"accept", "fail", "recover"} => OnlyChannels(todo),
           op = "resume" => Ordered(todo, arg, {})
    PROVE  IInv'
<1> DEFINE t == [op |-> op, arg |-> arg, stmt |-> 1, todo |-> todo, seen |-> {}]
<1>0. tx[a] = Idle /\ tx' = [tx EXCEPT ![a] = t] /\ t \in Transactions /\ ShapeOK
  BY DEF Begin, BeginsAs, Transactions, IInv
<1>1. tx'[a] = t /\ held'[a] = held[a]
  BY <1>0 DEF ShapeOK
<1>2. held[a] = {}
  BY <1>0 DEF IInv, TxOK, ActorOK, InTx
<1>3. \A row : ~Holds(a, row)'
  BY <1>1, <1>2 DEF Holds
<1>4. ActorOK(a)' /\ ModeOK(a)' /\ SeenOK(a)'
  BY <1>1, <1>2 DEF ActorOK, ModeOK, SeenOK, BeginsAs
<1>5. SetEnabledOK(a)'
  BY <1>1, <1>2, <1>3 DEF SetEnabledOK, ChangesFirst
<1>6. AcceptOK(a)' /\ FailOK(a)' /\ RecoverOK(a)'
  BY <1>1, <1>3 DEF AcceptOK, FailOK, RecoverOK
<1>7. ResumeOK(a)'
  BY <1>1, <1>3 DEF ResumeOK
<1>8. TxOK(a)'
  BY <1>4, <1>5, <1>6, <1>7 DEF TxOK
<1>9. held' = [held EXCEPT ![a] = {}]
  BY <1>0, <1>2 DEF ShapeOK
<1> HIDE DEF t
<1> QED
  BY <1>0, <1>3, <1>8, <1>9, TablesKept

LEMMA ServeRequestKeeps ==
    ASSUME IInv, NEW r \in Requests, ServeRequest(r)
    PROVE  IInv'
<1> DEFINE a == r.id
           todo == IF r.op = "delete" THEN WaitingRows(r.channel)
                                      ELSE ChannelRows(r.channel)
<1>1. a \in ApiRequests /\ r.op \in ApiOps /\ r.channel \in Channels
  BY RequestsAssumption DEF ApiOps
<1>2. a \in Actors /\ BeginsAs(a, r.op, r.channel)
  BY <1>1, ActorsAssumption DEF Actors, Ops, ApiOps, Records, BeginsAs
<1>3. Begin(a, r.op, r.channel, todo) /\ UNCHANGED <<channel, status, held>>
  BY DEF ServeRequest
<1>4. /\ todo \in Seq(Rows)
      /\ r.op \in {"enable", "disable"} => todo \in {<<>>, <<ChannelRow(r.channel)>>}
  BY <1>1, RowsOfChannels DEF WaitingRows, ChannelRows
<1>5. r.op \notin {"accept", "resume", "fail", "recover"}
  BY <1>1 DEF ApiOps
<1> HIDE DEF todo, a
<1> QED
  BY <1>2, <1>3, <1>4, <1>5, BeginKeeps

LEMMA PollKeeps ==
    ASSUME IInv, NEW r \in Records, Poll(r)
    PROVE  IInv'
<1> DEFINE a == Consumer
<1>0. /\ a \in Actors /\ a \notin ApiRequests /\ a # Worker
      /\ {"accept", "resume"} \subseteq Ops
      /\ UNCHANGED <<channel, status, held>>
  BY ActorsAssumption DEF Actors, Poll, Ops
<1>1. CASE \E s \in AcceptOrders : Begin(a, "accept", r, s)
  <2>1. PICK s \in AcceptOrders : Begin(a, "accept", r, s)
    BY <1>1
  <2>2. {ChannelRow(c) : c \in EnabledChannels} \in SUBSET Rows
    BY RowsOfChannels DEF EnabledChannels
  <2>3. s \in Seq(Rows) /\ \A i \in DOMAIN s : s[i] \in {ChannelRow(c) : c \in EnabledChannels}
    BY <2>2, SeqsOfRows DEF AcceptOrders
  <2>4. OnlyChannels(s)
    BY <2>3, RowsOfChannels DEF OnlyChannels, EnabledChannels
  <2>5. BeginsAs(a, "accept", r)
    BY <1>0 DEF BeginsAs, ApiOps
  <2> HIDE DEF a
  <2> QED
    BY <1>0, <2>1, <2>3, <2>4, <2>5, BeginKeeps DEF a
<1>2. CASE r # Request /\ \E s \in ResumeOrders(r) : Begin(a, "resume", r, s)
  <2>0. r \in Channels
    BY <1>2 DEF Records
  <2>1. PICK s \in ResumeOrders(r) : Begin(a, "resume", r, s)
    BY <1>2
  <2>2. JoinedRows(r) \in SUBSET Rows
    BY <2>0, RowsOfChannels DEF EnabledChannels, JoinedRows
  <2>3. \A row \in JoinedRows(r) : row[1] = "delivery" =>
            /\ row = DeliveryRow(r)
            /\ DeliveryRow(r) \in JoinedRows(r)
            /\ ChannelRow(r) \in JoinedRows(r)
    BY <2>0, RowsOfChannels DEF EnabledChannels, JoinedRows
  <2>6. BeginsAs(a, "resume", r)
    BY <1>0, <2>0 DEF BeginsAs, ApiOps
  <2> HIDE DEF a
  <2>4. CASE s = <<>>
    <3>1. s \in Seq(Rows) /\ Ordered(s, r, {})
      BY <2>4 DEF Ordered
    <3> QED
      BY <1>0, <2>1, <2>6, <3>1, BeginKeeps
  <2>5. CASE /\ s \in SetToSeqs(JoinedRows(r))
             /\ DeliveryRow(r) \in JoinedRows(r) =>
                   Position(s, ChannelRow(r)) < Position(s, DeliveryRow(r))
    <3>1. /\ s \in Seq(Rows) /\ IsInjective(s)
          /\ \A i \in DOMAIN s : s[i] \in JoinedRows(r)
          /\ \A row \in JoinedRows(r) : \E i \in DOMAIN s : s[i] = row
      BY <2>2, <2>5, SeqsOfRows
    <3>2. ASSUME NEW i \in DOMAIN s, s[i][1] = "delivery"
          PROVE  /\ s[i] = DeliveryRow(r)
                 /\ \A j \in DOMAIN s : s[j] = DeliveryRow(r) => j = i
                 /\ \E j \in DOMAIN s : j < i /\ s[j] = ChannelRow(r)
      <4>1. /\ s[i] = DeliveryRow(r)
            /\ ChannelRow(r) \in JoinedRows(r)
            /\ DeliveryRow(r) \in JoinedRows(r)
        BY <2>3, <3>1, <3>2
      <4>2. \A j \in DOMAIN s : s[j] = DeliveryRow(r) => j = i
        BY <3>1, <4>1 DEF IsInjective
      <4>3. Position(s, DeliveryRow(r)) = i
        BY <4>1, <4>2 DEF Position
      <4>4. \E j \in DOMAIN s : s[j] = ChannelRow(r)
        BY <3>1, <4>1
      <4>5. Position(s, ChannelRow(r)) \in DOMAIN s
            /\ s[Position(s, ChannelRow(r))] = ChannelRow(r)
        BY <4>4 DEF Position
      <4> QED
        BY <2>5, <4>1, <4>2, <4>3, <4>5
    <3>3. Ordered(s, r, {})
      BY <3>2 DEF Ordered
    <3> QED
      BY <1>0, <2>1, <2>6, <3>1, <3>3, BeginKeeps
  <2> QED
    BY <2>1, <2>4, <2>5 DEF ResumeOrders
<1> QED
  BY <1>1, <1>2 DEF Poll

LEMMA MarkFailedKeeps ==
    ASSUME IInv, NEW c \in Channels, MarkFailed(c)
    PROVE  IInv'
<1> DEFINE a == Worker
           todo == ChannelRows(c)
<1>1. /\ a \in Actors
      /\ BeginsAs(a, "fail", c)
      /\ Begin(a, "fail", c, todo)
      /\ UNCHANGED <<channel, status, held>>
  BY ActorsAssumption DEF Actors, MarkFailed, Records, BeginsAs, Ops, ApiOps
<1>2. todo \in Seq(Rows) /\ OnlyChannels(todo)
  BY RowsOfChannels DEF ChannelRows, OnlyChannels
<1> HIDE DEF a, todo
<1> QED
  BY <1>1, <1>2, BeginKeeps

\* Outside a transaction the worker and the recovery hold nothing; the expired
\* claims are held by nobody else.
LEMMA RecoverExpiredKeeps ==
    ASSUME IInv, NEW a \in {Worker, Recovery}, RecoverExpired(a)
    PROVE  IInv'
<1>0. /\ a \in Actors /\ a \notin ApiRequests /\ a # Consumer /\ ShapeOK
      /\ UNCHANGED <<channel, status>>
  BY ActorsAssumption DEF Actors, RecoverExpired, IInv
<1>1. PICK S \in SUBSET {c \in Channels : /\ status[c] = "processing"
                                          /\ ~HeldByOthers(a, DeliveryRow(c))} :
          /\ held' = [held EXCEPT ![a] =
                {[row |-> DeliveryRow(c), exclusive |-> TRUE] : c \in S}]
          /\ \E s \in SetToSeqs({ChannelRow(c) :
                         c \in {x \in S : channel[x] # "deleted"}}) :
                Begin(a, "recover", Request, s)
  BY DEF RecoverExpired
<1> DEFINE h == {[row |-> DeliveryRow(c), exclusive |-> TRUE] : c \in S}
           R == {ChannelRow(c) : c \in {x \in S : channel[x] # "deleted"}}
<1>2. PICK s \in SetToSeqs(R) : Begin(a, "recover", Request, s)
  BY <1>1
<1>3. R \in SUBSET Rows /\ \A row \in R : row[1] = "channel"
  BY RowsOfChannels
<1>4. h \in SUBSET Locks /\ \A lock \in h : \E c \in S :
                                /\ lock.row = DeliveryRow(c)
                                /\ lock.exclusive = TRUE
  <2>1. ASSUME NEW lock \in h
        PROVE  /\ lock \in Locks
               /\ \E c \in S : lock.row = DeliveryRow(c) /\ lock.exclusive = TRUE
    <3>1. PICK c \in S : lock = [row |-> DeliveryRow(c), exclusive |-> TRUE]
      OBVIOUS
    <3>2. DeliveryRow(c) \in Rows
      BY RowsOfChannels
    <3> QED
      BY <3>1, <3>2 DEF Locks
  <2> QED
    BY <2>1
<1> HIDE DEF h, R
<1>5. s \in Seq(Rows) /\ OnlyChannels(s)
  BY <1>3, SeqsOfRows DEF OnlyChannels
<1> DEFINE t == [op |-> "recover", arg |-> Request, stmt |-> 1, todo |-> s, seen |-> {}]
<1>6. tx' = [tx EXCEPT ![a] = t] /\ t \in Transactions
  BY <1>2, <1>5 DEF Begin, Transactions, Ops, Records
<1>7. tx'[a] = t /\ held'[a] = h
  BY <1>0, <1>1, <1>6 DEF ShapeOK, h
<1>8. \A row : Holds(a, row)' => \E c \in S : row = DeliveryRow(c)
  BY <1>4, <1>7 DEF Holds
<1>9. \A c \in S : /\ c \in Channels /\ status[c] = "processing"
                   /\ \A b \in Actors \ {a} : ~Holds(b, DeliveryRow(c))
  BY DEF HeldByOthers, Holds
<1>10. ActorOK(a)' /\ SeenOK(a)'
  <2>1. InTx(a)'
    BY <1>7 DEF InTx, Idle, Done
  <2> QED
    BY <1>0, <1>7, <2>1 DEF ActorOK, SeenOK, ApiOps
<1>11. ModeOK(a)'
  BY <1>4, <1>7, <1>9, RowsOfChannels DEF ModeOK, Exclusive
<1>12. SetEnabledOK(a)' /\ AcceptOK(a)' /\ ResumeOK(a)' /\ FailOK(a)'
  BY <1>7 DEF SetEnabledOK, AcceptOK, ResumeOK, FailOK
<1>13. RecoverOK(a)'
  BY <1>0, <1>5, <1>7, <1>8, <1>9, RowsOfChannels DEF RecoverOK
<1>14. TxOK(a)'
  BY <1>10, <1>11, <1>12, <1>13 DEF TxOK
<1>15. held' = [held EXCEPT ![a] = h]
  BY <1>1 DEF h
<1>16. \A row \in Rows : Holds(a, row)' => \A b \in Actors \ {a} : ~Holds(b, row)
  BY <1>8, <1>9
<1>17. h \in SUBSET Locks
  BY <1>4
<1> HIDE DEF t
<1> QED
  BY <1>0, <1>6, <1>14, <1>15, <1>16, <1>17, TablesKept

\* What a second statement has to lock.
LEMMA SecondKeeps ==
    ASSUME IInv, NEW a \in Actors, NEW todo \in Seq(Rows), InTx(a),
           SecondStatement(a, todo),
           tx[a].op \in {"disable", "delete", "fail"},
           tx[a].op = "disable" => /\ tx[a].stmt = 1
                                   /\ Holds(a, ChannelRow(tx[a].arg))
                                   /\ todo = WaitingRows(tx[a].arg),
           tx[a].op = "fail" => /\ tx[a].stmt = 1
                                /\ todo \in {<<>>, <<DeliveryRow(tx[a].arg)>>}
    PROVE  IInv'
<1> DEFINE t == [tx[a] EXCEPT !.stmt = 2, !.todo = todo]
<1>0. ShapeOK /\ TxOK(a) /\ tx' = [tx EXCEPT ![a] = t] /\ UNCHANGED <<channel, status, held>>
  BY DEF SecondStatement, IInv
<1>1. tx[a] \in Transactions
  BY <1>0, InTxIsTransaction
<1>2. /\ t \in Transactions
      /\ t.op = tx[a].op /\ t.arg = tx[a].arg /\ t.seen = tx[a].seen
      /\ t.stmt = 2 /\ t.todo = todo
  BY <1>1 DEF Transactions
<1>3. tx'[a] = t /\ held'[a] = held[a]
  BY <1>0 DEF ShapeOK
<1> HIDE DEF t
<1>4. /\ \A row : Holds(a, row)' <=> Holds(a, row)
      /\ \A row : Exclusive(a, row)' <=> Exclusive(a, row)
      /\ InTx(a)'
  BY <1>1, <1>2, <1>3 DEF Holds, Exclusive, InTx, Transactions, Ops, ApiOps, Idle, Done
<1>5. ActorOK(a)' /\ ModeOK(a)' /\ SeenOK(a)'
  BY <1>0, <1>2, <1>3, <1>4 DEF TxOK, ActorOK, ModeOK, SeenOK
<1>6. SetEnabledOK(a)'
  <2>1. SUFFICES ASSUME tx[a].op = "disable"
                 PROVE  CancelsSecond(a)'
    BY <1>2, <1>3 DEF SetEnabledOK
  <2>2. ChangesFirst(a) /\ tx[a].arg \in Channels
    BY <1>0, <2>1 DEF TxOK, SetEnabledOK, ActorOK, ApiOps
  <2>3. ~Holds(a, DeliveryRow(tx[a].arg))
    BY <2>2, RowsOfChannels DEF ChangesFirst
  <2> QED
    BY <1>0, <1>2, <1>3, <1>4, <2>1, <2>2, <2>3
       DEF CancelsSecond, ChangesFirst, WaitingRows
<1>7. FailOK(a)'
  <2>1. SUFFICES ASSUME tx[a].op = "fail"
                 PROVE  FailOK(a)'
    BY <1>2, <1>3 DEF FailOK
  <2>2. \A c \in Channels : ~Holds(a, DeliveryRow(c))
    BY <1>0, <2>1 DEF TxOK, FailOK
  <2> QED
    BY <1>2, <1>3, <1>4, <2>1, <2>2 DEF FailOK
<1>8. AcceptOK(a)' /\ ResumeOK(a)' /\ RecoverOK(a)'
  BY <1>2, <1>3 DEF AcceptOK, ResumeOK, RecoverOK
<1>9. TxOK(a)'
  BY <1>5, <1>6, <1>7, <1>8 DEF TxOK
<1>10. \A row \in Rows : Holds(a, row)' => \A b \in Actors \ {a} :
          Holds(b, row) => ~Exclusive(b, row) /\ ~Exclusive(a, row)'
  BY <1>4 DEF IInv, CompatOK
<1>11. held' = [held EXCEPT ![a] = held[a]] /\ held[a] \in SUBSET Locks
  BY <1>0 DEF ShapeOK
<1> QED
  BY <1>0, <1>2, <1>9, <1>10, <1>11, TablesKept

LEMMA SecondStatementsKeep ==
    ASSUME IInv,
           (\E a \in ApiRequests : DisableSecond(a) \/ DeleteSecond(a)) \/ FailSecond
    PROVE  IInv'
<1>1. ASSUME NEW a \in ApiRequests, DisableSecond(a)
      PROVE  IInv'
  <2>1. /\ a \in Actors /\ InTx(a)
        /\ tx[a].op = "disable" /\ tx[a].stmt = 1
        /\ Holds(a, ChannelRow(tx[a].arg))
        /\ SecondStatement(a, WaitingRows(tx[a].arg))
    BY <1>1 DEF DisableSecond, Ready, Actors
  <2>2. tx[a].arg \in Channels
    BY <2>1 DEF IInv, TxOK, ActorOK, ApiOps
  <2>3. WaitingRows(tx[a].arg) \in Seq(Rows)
    BY <2>2, RowsOfChannels DEF WaitingRows
  <2> QED
    BY <2>1, <2>3, SecondKeeps
<1>2. ASSUME NEW a \in ApiRequests, DeleteSecond(a)
      PROVE  IInv'
  <2>1. /\ a \in Actors /\ InTx(a) /\ tx[a].op = "delete"
        /\ SecondStatement(a, ChannelRows(tx[a].arg))
    BY <1>2 DEF DeleteSecond, Ready, Actors
  <2>2. tx[a].arg \in Channels
    BY <2>1 DEF IInv, TxOK, ActorOK, ApiOps
  <2>3. ChannelRows(tx[a].arg) \in Seq(Rows)
    BY <2>2, RowsOfChannels DEF ChannelRows
  <2> QED
    BY <2>1, <2>3, SecondKeeps
<1>3. ASSUME FailSecond
      PROVE  IInv'
  <2> DEFINE a == Worker
             todo == IF status[tx[a].arg] = "processing"
                       THEN <<DeliveryRow(tx[a].arg)>> ELSE <<>>
  <2>1. /\ a \in Actors /\ InTx(a) /\ tx[a].op = "fail" /\ tx[a].stmt = 1
        /\ SecondStatement(a, todo)
    BY <1>3 DEF FailSecond, Ready, Actors
  <2>2. tx[a].arg \in Channels
    BY <2>1 DEF IInv, TxOK, ActorOK
  <2>3. todo \in Seq(Rows) /\ todo \in {<<>>, <<DeliveryRow(tx[a].arg)>>}
    BY <2>2, RowsOfChannels
  <2> HIDE DEF a, todo
  <2> QED
    BY <2>1, <2>3, SecondKeeps
<1> QED
  BY <1>1, <1>2, <1>3

-----------------------------------------------------------------------------
(* The step that locks the next row of a statement.                        *)

LEMMA NextRow ==
    ASSUME NEW s \in Seq(Rows), s # <<>>
    PROVE  /\ Head(s) = s[1] /\ Head(s) \in Rows /\ 1 \in DOMAIN s
           /\ Tail(s) \in Seq(Rows)
           /\ \A i \in DOMAIN Tail(s) :
                 i \in Nat /\ i + 1 \in DOMAIN s /\ Tail(s)[i] = s[i + 1]
           /\ \A i \in DOMAIN s :
                 i \in Nat /\ (i # 1 => i - 1 \in DOMAIN Tail(s) /\ Tail(s)[i - 1] = s[i])
           /\ Len(s) = 1 => Tail(s) = <<>>
<1>1. Len(s) \in Nat \ {0}
  OBVIOUS
<1>2. /\ Head(s) = s[1] /\ Head(s) \in Rows /\ 1 \in DOMAIN s
      /\ Tail(s) \in Seq(Rows) /\ Len(Tail(s)) = Len(s) - 1
      /\ \A i \in 1..(Len(s) - 1) : Tail(s)[i] = s[i + 1]
  BY <1>1, HeadTailProperties
<1>3. DOMAIN s = 1..Len(s) /\ DOMAIN Tail(s) = 1..(Len(s) - 1)
  BY <1>2
<1>4. \A i \in 2..Len(s) : i - 1 \in 1..(Len(s) - 1) /\ Tail(s)[i - 1] = s[i]
  BY <1>1, <1>2
<1>5. Len(s) = 1 => Tail(s) = <<>>
  <2>1. Tail(s) # <<>> => Len(Tail(s)) \in Nat \ {0}
    BY <1>2, EmptySeq
  <2> QED
    BY <1>2, <2>1
<1> QED
  BY <1>1, <1>2, <1>3, <1>4, <1>5

\* Behind the delivery come channels only, and it is there because its channel
\* has been found enabled.
LEMMA DeliveryNext ==
    ASSUME NEW s \in Seq(Rows), s # <<>>, NEW x \in Channels, NEW seen,
           Ordered(s, x, seen), Head(s)[1] = "delivery"
    PROVE  Head(s) = DeliveryRow(x) /\ x \in seen /\ OnlyChannels(Tail(s))
<1>1. Head(s) = DeliveryRow(x) /\ x \in seen
  BY NextRow DEF Ordered
<1>2. ASSUME NEW i \in DOMAIN Tail(s)
      PROVE  Tail(s)[i][1] = "channel"
  <2>1. i \in Nat /\ i + 1 \in DOMAIN s /\ Tail(s)[i] = s[i + 1] /\ s[i + 1] \in Rows
    BY NextRow
  <2>2. s[i + 1][1] # "delivery"
    BY <1>1, <2>1, NextRow DEF Ordered
  <2> QED
    BY <2>1, <2>2 DEF Rows
<1> QED
  BY <1>1, <1>2 DEF OnlyChannels

\* The next channel: when it is that of x and not enabled, the delivery goes.
LEMMA ChannelNext ==
    ASSUME NEW s \in Seq(Rows), s # <<>>, NEW x \in Channels, NEW seen,
           Ordered(s, x, seen), NEW c \in Channels, Head(s) = ChannelRow(c)
    PROVE  /\ Ordered(Tail(s), x, seen \union {c})
           /\ Ordered(Without(Tail(s), DeliveryRow(c)), x, seen)
<1> DEFINE rest == Tail(s)
<1>1. /\ rest \in Seq(Rows) /\ s[1] = ChannelRow(c)
      /\ \A i \in DOMAIN rest : i \in Nat /\ i + 1 \in DOMAIN s /\ rest[i] = s[i + 1]
      /\ \A i \in DOMAIN s :
            i \in Nat /\ (i # 1 => i - 1 \in DOMAIN rest /\ rest[i - 1] = s[i])
  BY NextRow
<1> HIDE DEF rest
<1>2. ASSUME NEW i \in DOMAIN rest, rest[i][1] = "delivery"
      PROVE  /\ rest[i] = DeliveryRow(x)
             /\ \A j \in DOMAIN rest : rest[j] = DeliveryRow(x) => j = i
             /\ \/ x \in seen \/ x = c
                \/ \E j \in DOMAIN rest : j < i /\ rest[j] = ChannelRow(x)
  <2>1. i \in Nat /\ i + 1 \in DOMAIN s /\ s[i + 1][1] = "delivery" /\ s[i + 1] = rest[i]
    BY <1>1, <1>2
  <2>2. /\ s[i + 1] = DeliveryRow(x)
        /\ \A j \in DOMAIN s : s[j] = DeliveryRow(x) => j = i + 1
        /\ x \in seen \/ \E j \in DOMAIN s : j < i + 1 /\ s[j] = ChannelRow(x)
    BY <2>1 DEF Ordered
  <2>3. ASSUME NEW j \in DOMAIN rest, rest[j] = DeliveryRow(x)
        PROVE  j = i
    BY <1>1, <2>1, <2>2, <2>3
  <2>4. ASSUME NEW j \in DOMAIN s, j < i + 1, s[j] = ChannelRow(x)
        PROVE  x = c \/ \E k \in DOMAIN rest : k < i /\ rest[k] = ChannelRow(x)
    <3>1. CASE j = 1
      BY <1>1, <2>4, <3>1, RowsOfChannels
    <3>2. CASE j # 1
      <4>1. j - 1 \in DOMAIN rest /\ rest[j - 1] = ChannelRow(x) /\ j - 1 < i
        BY <1>1, <2>1, <2>4, <3>2
      <4> QED
        BY <4>1
    <3> QED
      BY <3>1, <3>2
  <2> QED
    BY <2>1, <2>2, <2>3, <2>4
<1>3. Ordered(rest, x, seen \union {c})
  BY <1>2 DEF Ordered
<1>4. CASE c = x
  <2>1. \A i \in DOMAIN Without(rest, DeliveryRow(x)) : \E j \in DOMAIN rest :
            Without(rest, DeliveryRow(x))[i] = rest[j] /\ rest[j] # DeliveryRow(x)
    <3>1. \A i, j \in DOMAIN rest :
              rest[i] = DeliveryRow(x) /\ rest[j] = DeliveryRow(x) => i = j
      BY <1>2, RowsOfChannels
    <3> QED
      BY <1>1, <3>1, RowsOfChannels, WithoutRow
  <2>2. \A i \in DOMAIN Without(rest, DeliveryRow(x)) :
            Without(rest, DeliveryRow(x))[i][1] # "delivery"
    BY <1>2, <2>1
  <2>3. Ordered(Without(rest, DeliveryRow(x)), x, seen)
    BY <2>2 DEF Ordered
  <2> QED
    BY <1>3, <1>4, <2>3 DEF rest
<1>5. CASE c # x
  <2>1. DeliveryRow(c) # DeliveryRow(x) /\ DeliveryRow(c) \in Rows
        /\ DeliveryRow(c)[1] = "delivery"
    BY <1>5 DEF DeliveryRow, Rows
  <2>2. \A i \in DOMAIN rest : rest[i] # DeliveryRow(c)
    BY <1>2, <2>1
  <2>3. Without(rest, DeliveryRow(c)) = rest
    BY <1>1, <2>1, <2>2, WithoutRow
  <2>4. Ordered(rest, x, seen)
    BY <1>2, <1>5 DEF Ordered
  <2> QED
    BY <1>3, <2>3, <2>4 DEF rest
<1> QED
  BY <1>4, <1>5

\* A row that blocks nobody is shared, or held by no other transaction.
LEMMA UnblockedRow ==
    ASSUME IInv, NEW a \in Actors, InTx(a), tx[a].todo # <<>>, Blockers(a) = {},
           NEW b \in Actors \ {a}, Holds(b, Head(tx[a].todo))
    PROVE  ~Exclusive(b, Head(tx[a].todo)) /\ ~Exclusive(a, Head(tx[a].todo))
<1> DEFINE row == Head(tx[a].todo)
<1>1. PICK lock \in held[b] : lock.row = row
  BY DEF Holds
<1>2. ~(lock.exclusive \/ Exclusive(a, row))
  BY <1>1 DEF Blockers
<1>3. lock.exclusive <=> Exclusive(b, row)
  BY <1>1 DEF IInv, TxOK, ModeOK
<1> QED
  BY <1>2, <1>3

LEMMA LockKeeps ==
    ASSUME IInv, NEW a \in Actors, Lock(a)
    PROVE  IInv'
<1> DEFINE row == Head(tx[a].todo)
           rest == Tail(tx[a].todo)
           c == row[2]
           enabled == row[1] = "channel" /\ channel[c] = "enabled"
           joined == row[1] = "delivery" \/ enabled
           todo == IF joined THEN rest ELSE Without(rest, DeliveryRow(c))
           seen == tx[a].seen \union IF enabled THEN {c} ELSE {}
           t == [tx[a] EXCEPT !.todo = todo, !.seen = seen]
           h == held[a] \union IF Matches(a, row) THEN Kept(a, row) ELSE {}
<1>0. /\ ShapeOK /\ TxOK(a) /\ InTx(a) /\ tx[a] \in Transactions
      /\ tx[a].todo # <<>> /\ Blockers(a) = {}
      /\ UNCHANGED <<channel, status>>
  BY InTxIsTransaction DEF Lock, IInv
<1>1. tx' = [tx EXCEPT ![a] = t] /\ held' = [held EXCEPT ![a] = h]
  BY DEF Lock
<1>2. /\ tx[a].todo \in Seq(Rows) /\ rest \in Seq(Rows) /\ row \in Rows
      /\ Len(tx[a].todo) = 1 => row = tx[a].todo[1] /\ rest = <<>>
  BY <1>0, NextRow DEF Transactions
<1>3. c \in Channels /\ (row = ChannelRow(c) \/ row = DeliveryRow(c))
  BY <1>2 DEF Rows, ChannelRow, DeliveryRow
<1>4. /\ todo \in Seq(Rows)
      /\ OnlyChannels(rest) => OnlyChannels(todo)
      /\ rest = <<>> => todo = <<>>
  <2>1. /\ Without(rest, DeliveryRow(c)) \in Seq(Rows)
        /\ \A i \in DOMAIN Without(rest, DeliveryRow(c)) : \E j \in DOMAIN rest :
              Without(rest, DeliveryRow(c))[i] = rest[j]
        /\ rest = <<>> => Without(rest, DeliveryRow(c)) = <<>>
    <3> HIDE DEF rest, c, row
    <3>1. DeliveryRow(c) \in Rows
      BY <1>3, RowsOfChannels
    <3>2. /\ Without(rest, DeliveryRow(c)) \in Seq(Rows)
          /\ \A i \in DOMAIN Without(rest, DeliveryRow(c)) : \E j \in DOMAIN rest :
                Without(rest, DeliveryRow(c))[i] = rest[j]
      BY <1>2, <3>1, WithoutRow
    <3>3. rest = <<>> => Without(rest, DeliveryRow(c)) = rest
      <4>1. rest = <<>> => \A i \in DOMAIN rest : rest[i] # DeliveryRow(c)
        OBVIOUS
      <4> QED
        BY <1>2, <3>1, <4>1, WithoutRow
    <3> QED
      BY <3>2, <3>3
  <2>2. OnlyChannels(rest) => OnlyChannels(Without(rest, DeliveryRow(c)))
    BY <2>1 DEF OnlyChannels
  <2>3. todo = rest \/ todo = Without(rest, DeliveryRow(c))
    OBVIOUS
  <2> HIDE DEF rest, todo, c
  <2> QED
    BY <1>2, <2>1, <2>2, <2>3
<1>20. /\ Len(tx[a].todo) = 1 => row = tx[a].todo[1] /\ todo = <<>>
       /\ row = DeliveryRow(c) => todo = rest
       /\ row = ChannelRow(c) =>
             \/ todo = rest /\ seen = tx[a].seen \union {c}
             \/ todo = Without(rest, DeliveryRow(c)) /\ seen = tx[a].seen
  <2>1. row = DeliveryRow(c) => todo = rest
    BY <1>3, RowsOfChannels
  <2>2. row = ChannelRow(c) =>
             \/ todo = rest /\ seen = tx[a].seen \union {c}
             \/ todo = Without(rest, DeliveryRow(c)) /\ seen = tx[a].seen
    BY <1>3, RowsOfChannels
  <2> QED
    BY <1>2, <1>4, <2>1, <2>2
<1>5. /\ t \in Transactions
      /\ t.op = tx[a].op /\ t.arg = tx[a].arg /\ t.stmt = tx[a].stmt
      /\ t.todo = todo /\ t.seen = seen
  <2>1. seen \in SUBSET Channels
    BY <1>0, <1>3 DEF Transactions
  <2> HIDE DEF todo, seen
  <2> QED
    BY <1>0, <1>4, <2>1 DEF Transactions
<1>6. /\ h \in SUBSET Locks
      /\ \A lock \in h : \/ lock \in held[a]
                         \/ /\ Matches(a, row) /\ lock.row = row
                            /\ lock.exclusive <=> Exclusive(a, row)
      /\ Matches(a, row) => \E lock \in h : lock.row = row
      /\ held[a] \subseteq h
  <2> DEFINE kept == [row |-> row, exclusive |-> Exclusive(a, row)]
  <2>1. Exclusive(a, row) \in BOOLEAN
    BY DEF Exclusive
  <2>2. kept \in Locks /\ kept.row = row /\ (kept.exclusive <=> Exclusive(a, row))
    BY <1>2, <2>1 DEF Locks
  <2>3. h = held[a] \union IF Matches(a, row) THEN {kept} ELSE {}
    BY DEF Kept
  <2>4. held[a] \in SUBSET Locks
    BY <1>0 DEF ShapeOK
  <2> HIDE DEF kept, row, h
  <2> QED
    BY <2>2, <2>3, <2>4
<1>7. tx'[a] = t /\ held'[a] = h
  BY <1>0, <1>1 DEF ShapeOK
<1>19. /\ enabled => row = ChannelRow(c) /\ Matches(a, row) /\ channel[c] = "enabled"
       /\ seen = tx[a].seen \union IF enabled THEN {c} ELSE {}
  BY <1>3, RowsOfChannels DEF Matches
<1>13. OnlyChannels(tx[a].todo) => row = ChannelRow(c) /\ OnlyChannels(todo)
  <2>1. OnlyChannels(tx[a].todo) => row[1] = "channel" /\ OnlyChannels(rest)
    BY <1>0, <1>2, NextRow DEF OnlyChannels
  <2> QED
    BY <1>3, <1>4, <2>1, RowsOfChannels
<1> HIDE DEF t, h, row, rest, todo, seen, enabled, c
<1>8. /\ \A r : Holds(a, r)' <=> Holds(a, r) \/ (r = row /\ Matches(a, row))
      /\ \A r : Exclusive(a, r)' <=> Exclusive(a, r)
      /\ InTx(a)'
  <2>1. \A r : Holds(a, r)' <=> Holds(a, r) \/ (r = row /\ Matches(a, row))
    BY <1>6, <1>7 DEF Holds
  <2>2. \A r : Exclusive(a, r)' <=> Exclusive(a, r)
    BY <1>5, <1>7 DEF Exclusive
  <2>3. InTx(a)'
    BY <1>5, <1>7 DEF InTx, Transactions, Ops, ApiOps, Idle, Done
  <2> QED
    BY <2>1, <2>2, <2>3
<1>9. ActorOK(a)' /\ ModeOK(a)'
  <2>1. ActorOK(a)'
    BY <1>0, <1>5, <1>7, <1>8 DEF TxOK, ActorOK
  <2>2. ModeOK(a)'
    BY <1>0, <1>6, <1>7, <1>8 DEF TxOK, ModeOK
  <2> QED
    BY <2>1, <2>2
<1>11. SeenOK(a)'
  BY <1>0, <1>5, <1>7, <1>8, <1>19 DEF TxOK, SeenOK
<1>12. SetEnabledOK(a)'
  <2>1. /\ tx[a].op = "enable" => ChangesFirst(a)
        /\ tx[a].op = "disable" => IF tx[a].stmt = 1 THEN ChangesFirst(a)
                                                     ELSE CancelsSecond(a)
    BY <1>0 DEF TxOK, SetEnabledOK
  <2>3. ASSUME ChangesFirst(a)
        PROVE  ChangesFirst(a)'
    <3>1. tx[a].todo = <<ChannelRow(tx[a].arg)>> /\ held[a] = {}
      BY <1>0, <2>3 DEF ChangesFirst
    <3>2. row = ChannelRow(tx[a].arg) /\ todo = <<>>
      BY <1>20, <3>1
    <3> QED
      BY <1>5, <1>7, <1>8, <3>1, <3>2 DEF ChangesFirst, Holds
  <2>4. ASSUME CancelsSecond(a), tx[a].op = "disable"
        PROVE  CancelsSecond(a)'
    <3>1. /\ tx[a].todo = <<DeliveryRow(tx[a].arg)>>
          /\ status[tx[a].arg] \in Waiting
      BY <1>0, <2>4 DEF CancelsSecond
    <3>2. row = DeliveryRow(tx[a].arg) /\ todo = <<>>
      BY <1>20, <3>1
    <3>3. tx[a].arg \in Channels
      BY <1>0, <2>4 DEF TxOK, ActorOK, ApiOps
    <3>4. Matches(a, row)
      BY <2>4, <3>1, <3>2, <3>3, RowsOfChannels DEF Matches
    <3> QED
      BY <1>0, <1>5, <1>7, <1>8, <2>4, <3>2, <3>4 DEF CancelsSecond
  <2> QED
    BY <1>5, <1>7, <2>1, <2>3, <2>4 DEF SetEnabledOK
<1>14. AcceptOK(a)' /\ RecoverOK(a)'
  <2>1. OnlyChannels(tx[a].todo) =>
            \A y \in Channels : Holds(a, DeliveryRow(y))' <=> Holds(a, DeliveryRow(y))
    BY <1>3, <1>8, <1>13, RowsOfChannels
  <2>2. /\ tx[a].op = "accept" => /\ OnlyChannels(tx[a].todo)
                                  /\ \A y \in Channels : ~Holds(a, DeliveryRow(y))
        /\ tx[a].op = "recover" => /\ OnlyChannels(tx[a].todo)
                                   /\ \A y \in Channels : Holds(a, DeliveryRow(y)) =>
                                          status[y] = "processing"
    BY <1>0 DEF TxOK, AcceptOK, RecoverOK
  <2>3. AcceptOK(a)'
    BY <1>5, <1>7, <1>13, <2>1, <2>2 DEF AcceptOK
  <2>4. RecoverOK(a)'
    BY <1>0, <1>5, <1>7, <1>13, <2>1, <2>2 DEF RecoverOK
  <2> QED
    BY <2>3, <2>4
<1>15. FailOK(a)'
  <2> SUFFICES ASSUME tx[a].op = "fail"
               PROVE  FailOK(a)'
    BY <1>5, <1>7 DEF FailOK
  <2>1. /\ \A x \in Channels : ~Holds(a, DeliveryRow(x))
        /\ IF tx[a].stmt = 1 THEN OnlyChannels(tx[a].todo)
                             ELSE tx[a].todo = <<DeliveryRow(tx[a].arg)>>
        /\ tx[a].arg \in Channels
        /\ tx[a].stmt \in {1, 2}
    BY <1>0 DEF TxOK, FailOK, ActorOK, Transactions
  <2>2. CASE tx[a].stmt = 1
    <3>1. row = ChannelRow(c) /\ OnlyChannels(todo)
      BY <1>13, <2>1, <2>2
    <3>2. \A x \in Channels : ~Holds(a, DeliveryRow(x))'
      BY <1>3, <1>8, <2>1, <3>1, RowsOfChannels
    <3> QED
      BY <1>5, <1>7, <2>2, <3>1, <3>2 DEF FailOK
  <2>3. CASE tx[a].stmt = 2
    <3>1. row = DeliveryRow(tx[a].arg) /\ todo = <<>>
      <4>1. tx[a].todo = <<DeliveryRow(tx[a].arg)>>
        BY <2>1, <2>3
      <4> QED
        BY <1>20, <4>1
    <3>2. Matches(a, row) => status[tx[a].arg] = "processing"
      BY <2>1, <3>1, RowsOfChannels DEF Matches
    <3>3. \A x \in Channels : DeliveryRow(x) = row => x = tx[a].arg
      BY <2>1, <3>1, RowsOfChannels
    <3> QED
      BY <1>0, <1>5, <1>7, <1>8, <2>1, <2>3, <3>1, <3>2, <3>3 DEF FailOK
  <2> QED
    BY <2>1, <2>2, <2>3
<1>16. ResumeOK(a)'
  <2> DEFINE x == tx[a].arg
  <2> SUFFICES ASSUME tx[a].op = "resume"
               PROVE  ResumeOK(a)'
    BY <1>5, <1>7 DEF ResumeOK
  <2>1. /\ x \in Channels
        /\ Ordered(tx[a].todo, x, tx[a].seen)
        /\ \A y \in Channels : Holds(a, DeliveryRow(y)) =>
              y = x /\ y \in tx[a].seen /\ OnlyChannels(tx[a].todo)
    BY <1>0 DEF TxOK, ResumeOK, ActorOK
  <2>2. CASE row = DeliveryRow(c)
    <3>1. row = DeliveryRow(x) /\ x \in tx[a].seen /\ OnlyChannels(rest)
      BY <1>0, <1>2, <1>3, <2>1, <2>2, RowsOfChannels, DeliveryNext DEF row, rest
    <3>2. todo = rest /\ Ordered(rest, x, seen)
      BY <1>20, <2>2, <3>1 DEF Ordered, OnlyChannels
    <3>4. x \in seen
      BY <1>19, <3>1
    <3>3. \A y \in Channels : DeliveryRow(y) = row => y = x
      BY <2>1, <3>1, RowsOfChannels
    <3> QED
      BY <1>5, <1>7, <1>8, <2>1, <3>1, <3>2, <3>3, <3>4 DEF ResumeOK
  <2>3. CASE row = ChannelRow(c)
    <3>1. \A y \in Channels : Holds(a, DeliveryRow(y))' <=> Holds(a, DeliveryRow(y))
      BY <1>3, <1>8, <2>3, RowsOfChannels
    <3>2. /\ Ordered(rest, x, tx[a].seen \union {c})
          /\ Ordered(Without(rest, DeliveryRow(c)), x, tx[a].seen)
      BY <1>0, <1>2, <1>3, <2>1, <2>3, ChannelNext DEF row, rest
    <3>3. Ordered(todo, x, seen)
      BY <1>20, <2>3, <3>2
    <3>4. tx[a].seen \subseteq seen
      BY <1>19
    <3> QED
      BY <1>5, <1>7, <1>13, <2>1, <3>1, <3>3, <3>4 DEF ResumeOK
  <2> QED
    BY <1>3, <2>2, <2>3
<1>17. TxOK(a)'
  BY <1>9, <1>11, <1>12, <1>14, <1>15, <1>16 DEF TxOK
<1>18. \A r \in Rows : Holds(a, r)' => \A b \in Actors \ {a} :
          Holds(b, r) => ~Exclusive(b, r) /\ ~Exclusive(a, r)'
  <2>1. \A b \in Actors \ {a} : Holds(b, row) => ~Exclusive(b, row) /\ ~Exclusive(a, row)
    BY <1>0, UnblockedRow DEF row
  <2> QED
    BY <1>8, <2>1 DEF IInv, CompatOK
<1> HIDE DEF row
<1> QED
  BY <1>0, <1>1, <1>5, <1>6, <1>17, <1>18, TablesKept

-----------------------------------------------------------------------------
(* The invariant, and DisabledHasNoWaiting.                                *)

LEMMA InitIInv == Init => IInv
<1> SUFFICES ASSUME Init PROVE IInv
  OBVIOUS
<1>1. ShapeOK
  BY DEF Init, ShapeOK
<1>2. \A a \in Actors : tx[a] = Idle /\ held[a] = {}
  BY DEF Init
<1>3. \A a \in Actors : TxOK(a)
  BY <1>2 DEF TxOK, ActorOK, ModeOK, SeenOK, InTx
<1>4. CompatOK
  BY <1>2 DEF CompatOK, Holds
<1>5. DisabledHasNoWaiting
  BY DEF Init, DisabledHasNoWaiting, Waiting
<1> QED
  BY <1>1, <1>3, <1>4, <1>5 DEF IInv

LEMMA NextIInv == IInv /\ [Next]_vars => IInv'
<1> SUFFICES ASSUME IInv, [Next]_vars PROVE IInv'
  OBVIOUS
<1>1. ASSUME NEW a \in Actors, Lock(a) \/ Abort(a) PROVE IInv'
  BY <1>1, LockKeeps, RollbackKeeps DEF Abort
<1>2. ASSUME NEW r \in Requests, ServeRequest(r) PROVE IInv'
  BY <1>2, ServeRequestKeeps
<1>3. ASSUME NEW a \in ApiRequests, Api(a) PROVE IInv'
  <2>1. CASE NotFound(a)
    BY <2>1, RollbackKeeps DEF NotFound, Actors
  <2>2. CASE DisableSecond(a) \/ DeleteSecond(a)
    BY <2>2, SecondStatementsKeep
  <2>3. CASE CommitChange(a)
    BY <2>3, CommitChangeKeeps
  <2> QED
    BY <1>3, <2>1, <2>2, <2>3 DEF Api
<1>4. ASSUME NEW r \in Records, Poll(r) PROVE IInv'
  BY <1>4, PollKeeps
<1>5. ASSUME Consume PROVE IInv'
  BY <1>5, ConsumeKeeps
<1>6. ASSUME NEW c \in Channels, Claim(c) \/ MarkSent(c) \/ MarkFailed(c) PROVE IInv'
  BY <1>6, ClaimAndMarkKeep, MarkFailedKeeps
<1>7. ASSUME FailSecond \/ CommitFailed PROVE IInv'
  BY <1>7, SecondStatementsKeep, CommitFailedKeeps
<1>8. ASSUME NEW a \in {Worker, Recovery}, Recover(a) PROVE IInv'
  BY <1>8, RecoverExpiredKeeps, CommitRecoveryKeeps DEF Recover, Actors
<1>9. ASSUME Exit PROVE IInv'
  BY <1>9, RollbackKeeps DEF Exit, Actors
<1>10. ASSUME Restart \/ UNCHANGED vars PROVE IInv'
  <2>1. UNCHANGED <<channel, status, tx, held>>
    BY <1>10 DEF Restart, vars
  <2>2. ShapeOK' /\ CompatOK' /\ DisabledHasNoWaiting'
    BY <2>1 DEF IInv, ShapeOK, CompatOK, DisabledHasNoWaiting, Holds, Exclusive
  <2>3. ASSUME NEW a \in Actors PROVE TxOK(a)'
    BY <2>1 DEF IInv, TxOK, ActorOK, ModeOK, SeenOK, SetEnabledOK, ChangesFirst,
           CancelsSecond, AcceptOK, ResumeOK, FailOK, RecoverOK, Holds, Exclusive, InTx
  <2> QED
    BY <2>2, <2>3 DEF IInv
<1> QED
  BY <1>1, <1>2, <1>3, <1>4, <1>5, <1>6, <1>7, <1>8, <1>9, <1>10 DEF Next

LEMMA SpecIInv == Spec => []IInv
BY InitIInv, NextIInv, PTL DEF Spec

\* Once a SetChannelEnabled that disables has committed, no delivery of the
\* channel waits, in whatever order the statements and the locks come.
THEOREM DisabledHasNoWaitingTheorem == Spec => []DisabledHasNoWaiting
<1>1. IInv => DisabledHasNoWaiting
  BY DEF IInv
<1> QED
  BY <1>1, SpecIInv, PTL

-----------------------------------------------------------------------------
(* Deadlocks.                                                              *)

\* A transaction that waits, and one of those that it waits for.
LEMMA Blocking ==
    ASSUME IInv, NEW a \in Actors, NEW b \in Blockers(a)
    PROVE  /\ InTx(a) /\ tx[a].todo \in Seq(Rows) /\ tx[a].todo # <<>>
           /\ Head(tx[a].todo) \in Rows /\ Head(tx[a].todo) = tx[a].todo[1]
           /\ 1 \in DOMAIN tx[a].todo
           /\ b \in Actors /\ b # a
           /\ Holds(b, Head(tx[a].todo))
           /\ Exclusive(a, Head(tx[a].todo)) \/ Exclusive(b, Head(tx[a].todo))
<1>0. ShapeOK /\ TxOK(a) /\ TxOK(b) /\ b \in Actors /\ b # a
  BY DEF IInv, Blockers
<1>1. InTx(a) /\ tx[a].todo # <<>>
  BY DEF Blockers
<1>2. tx[a].todo \in Seq(Rows)
  BY <1>0, <1>1, InTxIsTransaction DEF Transactions
<1>3. \E lock \in held[b] : /\ lock.row = Head(tx[a].todo)
                            /\ lock.exclusive \/ Exclusive(a, Head(tx[a].todo))
  BY <1>1 DEF Blockers
<1> QED
  BY <1>0, <1>1, <1>2, <1>3, NextRow DEF TxOK, ModeOK, Holds

\* Whoever waits for an enabled or disabled channel holds nothing, and so does
\* not wait for a shared one; whoever waits for a delivery would wait for a
\* transaction that waits for nothing or for a channel.
THEOREM OnlyDeletionDeadlocksTheorem == Spec => []OnlyDeletionDeadlocks
<1>1. IInv => OnlyDeletionDeadlocks
  <2> SUFFICES ASSUME IInv, NEW S \in Deadlocks, \A a \in S : tx[a].op # "delete"
               PROVE  FALSE
    BY DEF OnlyDeletionDeadlocks
  <2> DEFINE row(a) == Head(tx[a].todo)
  <2>1. /\ S \subseteq Actors /\ S # {}
        /\ \A a \in S : \E b \in S : b \in Blockers(a)
    BY DEF Deadlocks
  <2>2. ASSUME NEW a \in S
        PROVE  /\ a \in Actors /\ InTx(a) /\ tx[a] \in Transactions /\ TxOK(a)
               /\ tx[a].todo \in Seq(Rows) /\ tx[a].todo # <<>>
               /\ row(a) \in Rows /\ row(a) = tx[a].todo[1] /\ 1 \in DOMAIN tx[a].todo
               /\ \E b \in S : /\ b # a /\ Holds(b, row(a))
                               /\ Exclusive(a, row(a)) \/ Exclusive(b, row(a))
    BY <2>1, Blocking, InTxIsTransaction DEF IInv
  <2>3. ASSUME NEW a \in S, NEW c \in Channels, Holds(a, DeliveryRow(c))
        PROVE  OnlyChannels(tx[a].todo) /\ tx[a].op \in {"resume", "recover"}
    <3>0. /\ tx[a].op \in {"enable", "disable", "accept", "resume", "fail", "recover"}
          /\ tx[a].todo # <<>> /\ TxOK(a) /\ InTx(a) /\ tx[a].arg \in Records
          /\ held[a] # {}
      BY <2>2, <2>3 DEF Transactions, Ops, ApiOps, Holds
    <3>1. ~ChangesFirst(a)
      BY <3>0 DEF ChangesFirst
    <3>2. tx[a].op = "disable" => ~CancelsSecond(a)
      <4> SUFFICES ASSUME tx[a].op = "disable", CancelsSecond(a) PROVE FALSE
        OBVIOUS
      <4>1. tx[a].arg \in Channels
        BY <3>0 DEF TxOK, ActorOK, ApiOps
      <4>2. ~Holds(a, DeliveryRow(tx[a].arg))
        BY <3>0 DEF CancelsSecond
      <4>3. DeliveryRow(c) \in {ChannelRow(tx[a].arg), DeliveryRow(tx[a].arg)}
        BY <2>3, RowsOfChannels DEF CancelsSecond
      <4> QED
        BY <2>3, <4>1, <4>2, <4>3, RowsOfChannels
    <3>3. tx[a].op \notin {"enable", "disable"}
      BY <3>0, <3>1, <3>2 DEF TxOK, SetEnabledOK
    <3>4. tx[a].op \notin {"accept", "fail"}
      BY <2>3, <3>0 DEF TxOK, AcceptOK, FailOK
    <3> QED
      BY <2>3, <3>0, <3>3, <3>4 DEF TxOK, ResumeOK, RecoverOK
  <2>4. ASSUME NEW a \in S, tx[a].op \in {"enable", "disable"}
        PROVE  held[a] = {}
    <3>1. ChangesFirst(a) \/ (tx[a].op = "disable" /\ CancelsSecond(a))
      BY <2>2, <2>4 DEF TxOK, SetEnabledOK
    <3>2. CASE ChangesFirst(a)
      BY <2>2, <3>2 DEF ChangesFirst
    <3>3. CASE tx[a].op = "disable" /\ CancelsSecond(a)
      <4> DEFINE c == tx[a].arg
      <4>1. c \in Channels
        BY <2>2, <3>3 DEF TxOK, ActorOK, ApiOps
      <4>2. /\ tx[a].todo = <<DeliveryRow(c)>> /\ status[c] \in Waiting
            /\ Holds(a, ChannelRow(c)) /\ Exclusive(a, ChannelRow(c))
        BY <2>2, <3>3 DEF CancelsSecond, Exclusive
      <4>3. PICK b \in S : b # a /\ Holds(b, DeliveryRow(c))
        <5>1. row(a) = DeliveryRow(c)
          BY <4>2
        <5> QED
          BY <2>2, <5>1
      <4>4. tx[b].op \in {"resume", "recover"}
        BY <2>3, <4>1, <4>3
      <4>5. tx[b].op = "recover" => status[c] = "processing"
        BY <2>2, <4>1, <4>3 DEF TxOK, RecoverOK
      <4>6. tx[b].op = "resume" => Holds(b, ChannelRow(c))
        BY <2>2, <4>1, <4>3 DEF TxOK, ResumeOK, SeenOK
      <4>7. ~Holds(b, ChannelRow(c))
        BY <2>2, <4>1, <4>2, <4>3, WhatLocksExclude
      <4> QED
        BY <4>2, <4>4, <4>5, <4>6, <4>7 DEF Waiting
    <3> QED
      BY <3>1, <3>2, <3>3
  <2>5. ASSUME NEW a \in S, row(a)[1] = "channel"
        PROVE  tx[a].op \in {"enable", "disable"}
    <3>1. PICK b \in S : /\ Holds(b, row(a))
                         /\ Exclusive(a, row(a)) \/ Exclusive(b, row(a))
      BY <2>2
    <3>2. tx[b].op \notin {"enable", "disable"}
      BY <2>4, <3>1 DEF Holds
    <3> QED
      BY <2>5, <3>1, <3>2 DEF Exclusive
  <2>6. ASSUME NEW a \in S, OnlyChannels(tx[a].todo)
        PROVE  tx[a].op \in {"enable", "disable"}
    BY <2>2, <2>5, <2>6 DEF OnlyChannels
  <2>7. ASSUME NEW a \in S
        PROVE  row(a)[1] = "channel"
    <3>1. PICK b \in S : Holds(b, row(a))
      BY <2>2
    <3>2. CASE row(a)[1] = "delivery"
      <4>1. PICK c \in Channels : row(a) = DeliveryRow(c)
        BY <2>2, <3>2 DEF Rows, DeliveryRow
      <4> QED
        BY <2>3, <2>6, <3>1, <4>1
    <3> QED
      BY <2>2, <3>2 DEF Rows
  <2>8. PICK a \in S : TRUE
    BY <2>1
  <2>9. PICK b \in S : Holds(b, row(a))
    BY <2>2
  <2> QED
    BY <2>4, <2>5, <2>7, <2>9 DEF Holds
<1> QED
  BY <1>1, SpecIInv, PTL

=============================================================================
