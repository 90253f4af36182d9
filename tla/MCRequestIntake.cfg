\* Two urls in one feed with one follower, one of them not acceptable, two
\* relays that race for the rows, one partition, one disturbed production per
\* row, under fairness.
SPECIFICATION FairSpec
CONSTANTS
    k1 = k1
    Urls = {good, bad}
    Feeds = {f1}
    Users = {u1}
    Partitions = {k1}
    PartitionOf <- OnePartition
    Acceptable = {good}
    Relays = {p1, p2}
    MaxFaults = 1
INVARIANTS
    TypeOK
    CommittedIsHandled
    NoRequestLost
    DuplicatesNeedFaults
    InboxIsIntended
PROPERTIES
    RequestsArrive
