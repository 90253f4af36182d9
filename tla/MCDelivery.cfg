\* One event requested for two users, one of whom has a channel, two workers,
\* three attempts, under fairness.
\* The environment may stop asking: quiescence is not an error.
CHECK_DEADLOCK FALSE
SPECIFICATION FairSpec
CONSTANTS
    e1 = e1  u1 = u1  u2 = u2  c1 = c1  w1 = w1  w2 = w2
    Events = {e1}
    Users <- TwoUsers
    Channels <- OneChannel
    Owner <- OneOwner
    Registered <- OneChannel
    Requests <- ConflictingRequests
    Workers = {w1, w2}
    PolicyMaxAttempts = 3
    RecoverMaxAttempts = 3
    RecoverLimit = 2
INVARIANTS
    TypeOK
    AttemptsBounded
    ClaimIsExclusive
    SentMeansAccepted
    FailedIffDeadLetter
    RetryWaitHasWakeUp
    DisabledHasNoWaiting
    BelongsToRecipient
PROPERTIES
    TerminalIsFinal
    OnlyHolderEndsClaim
    BackoffHonoured
    KeepsPromise
    EventuallySettled
    FailureIsReported
