SPECIFICATION FairSpec
CONSTANTS
    OrderIds <- GateOrderIds
    SlippageBps = 1000
    BrokerageBps = 0
    Proposals <- GateProposals
    MarketPrices <- GatePrices
    InitialCash = 1000
    Days <- TwoDays
    MaxPositionSize = 1
    MaxOrderQuantity = 2
    MaxPyramids = 1
    DailyLossLimit = 10
    NBars = 2
    Bars <- GateBars
    BarDay <- DayOfBar
    MacroSnapshots <- Regimes
    MaxBatch = 2
    PyramidCounts = {0}
    HookSettings <- AllHooks
INVARIANTS
    ClosedGateApprovesNothing
PROPERTIES
    ImplementsLedger
    AcceptedOrdersResolve
CHECK_DEADLOCK FALSE
