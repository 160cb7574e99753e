SPECIFICATION FairSpec
CONSTANTS
    Skus = {s1, s2, s3, s4}
    Concurrency = 2
INVARIANTS NoSendAfterClose
PROPERTIES CommandEnds
CHECK_DEADLOCK FALSE
