\* Two requests with a background task each.
\* The process ends.
CHECK_DEADLOCK FALSE
SPECIFICATION FairSpec
CONSTANTS
    r1 = r1  r2 = r2
    Requests = {r1, r2}
INVARIANTS
    NoTaskAfterShutdown
    CleanExitIsQuiet
PROPERTIES
    ShutdownEnds
