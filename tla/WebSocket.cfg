SPECIFICATION FairSpec
CONSTANTS
    Symbols = {nifty, banknifty}
    nifty = nifty
    banknifty = banknifty
    MaxSequence = 4
    MaxAttempts = 2
INVARIANTS
    StreamIsContiguous
    ConnectedMeansLive
PROPERTIES
    ClosedIsTerminal
    AttemptsResolve
