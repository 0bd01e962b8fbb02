SPECIFICATION FairSpec
CONSTANTS
    BucketSeconds = 40
    Consumers = {c1, c2}
    c1 = c1
    c2 = c2
    QueueSize = 1
    Feeds <- AllFeeds
    CallbacksRaise = FALSE
PROPERTIES
    ShutdownNeverHangs
CHECK_DEADLOCK FALSE
