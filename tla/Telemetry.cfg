SPECIFICATION FairSpec
CONSTANTS
    InitialCash = 200
    Days <- MCDays
    Fills <- MCFills
    MarkPrices <- MCMarkPrices
    MaxTraded = 2
    MaxCrashes = 1
INVARIANTS
    CountIsHonest
    RepliesAreCurrent
PROPERTY
    CacheCatchesUp
