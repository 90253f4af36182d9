\* A channel is deleted while one of its deliveries waits.
CHECK_DEADLOCK FALSE
SPECIFICATION Spec
CONSTANTS
    e1 = e1  u1 = u1  u2 = u2  c1 = c1  w1 = w1  w2 = w2
    Events = {e1}
    Users <- OneUser
    Channels <- OneChannel
    Owner <- OneOwner
    Registered <- OneChannel
    Requests <- OneRequest
    Workers = {w1, w2}
    PolicyMaxAttempts = 3
    RecoverMaxAttempts = 3
    RecoverLimit = 2
INVARIANTS
    DeletedHasNoWaiting
