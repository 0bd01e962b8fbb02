SPECIFICATION FairSpec
CONSTANTS
    MaxRequests = 2
    Window = 2
    Requests = {r1, r2}
    r1 = r1
    r2 = r2
    MaxAttempts = 2
    InitialDelay = 1
    BackoffFactor = 2
    MaxDelay = 2
    MaxClock = 2
    MaxAdmissions = 3
    MaxExpiries = 1
INVARIANTS
    SequentialUseKeepsLimit
    AuthErrorMeansTwoTokensRefused
    AuthErrorHasCause
PROPERTIES
    RequestsEnd
CHECK_DEADLOCK FALSE
