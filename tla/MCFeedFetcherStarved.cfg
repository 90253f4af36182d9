\* As many broken feeds as a batch has room for.
SPECIFICATION FairSpec
CONSTANTS
    f1 = f1  f2 = f2  f3 = f3  a = a  b = b  bad = bad
    Feeds = {f1, f2, f3}
    Broken = {f2, f3}
    Urls = {a, b}
    Invalid = bad
    Documents <- ShortDocuments
    Concurrency = 2
PROPERTIES
    HealthyFeedsServed
