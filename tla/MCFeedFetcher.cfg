\* Three feeds in batches of two, one of them broken.
SPECIFICATION FairSpec
CONSTANTS
    f1 = f1  f2 = f2  f3 = f3  a = a  b = b  bad = bad
    Feeds = {f1, f2, f3}
    Broken = {f3}
    Urls = {a, b}
    Invalid = bad
    Documents <- SomeDocuments
    Concurrency = 2
INVARIANTS
    TypeOK
PROPERTIES
    OvertakenOnce
    FetchedMeansSaved
    HealthyFeedsServed
