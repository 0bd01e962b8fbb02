SPECIFICATION FairSpec
CONSTANTS
    BucketSeconds = 40
    Consumers = {c1, c2}
    c1 = c1
    c2 = c2
    QueueSize = 2
    Feeds <- AllFeeds
    CallbacksRaise = TRUE
INVARIANTS
    CountersAddUp
    BarsMatchTicks
    SingleConsumerMatchesBatch
    CleanShutdown
PROPERTIES
    ImplementsDelivery
    ShutdownReturns
CHECK_DEADLOCK FALSE
