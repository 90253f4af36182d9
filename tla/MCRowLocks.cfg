\* Quiescence: every record is handled and nobody asks for anything.
CHECK_DEADLOCK FALSE
SPECIFICATION FairSpec
CONSTANTS
    c1 = c1  c2 = c2  q1 = q1  q2 = q2
    Consumer = Consumer  Worker = Worker  Recovery = Recovery
    Channels <- TwoChannels
    ApiRequests <- TwoRequests
    Requests <- Asked
INVARIANTS
    DisabledHasNoWaiting
    OnlyDeletionDeadlocks
PROPERTIES
    RecordsConsumed
