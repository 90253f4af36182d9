\* A minute is one unit of time, a background write takes at most another.
CHECK_DEADLOCK FALSE
SPECIFICATION Spec
CONSTANTS
    k1 = k1  u1 = u1  u2 = u2  f1 = f1   p1 = p1  p2 = p2  p3 = p3
    Users <- TwoUsers
    Feeds = {f1}
    Posts <- ThreePosts
    FeedOf <- Feed
    PublishedAt <- Moment
    Limits = {1, 2}
    Clients = {k1}
    TTL = 1
    FillTime = 1
    MaxFills = 1
    MaxEntries = 2
    MaxTime = 3
INVARIANTS
    OwnPosts
    WalkComplete
    StaleForAMinute
