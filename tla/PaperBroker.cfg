SPECIFICATION BrokerSpec
CONSTANTS
    OrderIds <- MCOrderIds
    Proposals <- MCProposals
    MarketPrices <- MCMarketPrices
    SlippageBps = 10
    BrokerageBps = 3
INVARIANTS
    QueueMatchesBook
    OneFillPerFilledOrder
PROPERTIES
    OrdersOnlyProgress
