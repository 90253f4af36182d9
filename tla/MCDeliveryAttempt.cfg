\* Durations of 5 bits, jitter of 0, 20 and 100 percent, 6 attempts.
\* A delivery stops when it is sent or has failed.
CHECK_DEADLOCK FALSE
SPECIFICATION Spec
CONSTANTS
    HalfRange = 16
    Scale = 5
    Policies <- EdgePolicies
    Randoms <- SomeRandoms
    Suggestions <- SomeSuggestions
    RetryAfters <- SomeSuggestions
    Senders <- AllSenders
INVARIANTS
    TypeOK
    DelayInBand
    VerdictMatchesProvider
    TransientIsRetried
PROPERTIES
    DeliveryEnds
