\* Two feeds that carry the same url.
SPECIFICATION Spec
CONSTANTS
    k1 = k1
    Urls = {good}
    Feeds = {f1, f2}
    Users = {u1, u2}
    Partitions = {k1}
    PartitionOf <- OnePartition
    Acceptable = {good}
    Relays = {p1}
    MaxFaults = 1
INVARIANTS
    FollowersAreNotified
