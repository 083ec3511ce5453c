CONSTANTS
    U64 = 100000
    FEE_BASIS_POINTS = 950
    CREATOR_FEE = 300
    LP_FEE_BASIS_POINTS = 2000
    PROTOCOL_FEE_BASIS_POINTS = 500
    COIN_CREATOR_FEE_BASIS_POINTS = 500
    DustTokens = 2
    SmallBuy = 3
    FallbackSmall = 5
    FallbackLarge = 25
    Pools = {"a", "b", "c", "d"}
    LpSupply <- MCLpSupply
    BaseSide = {"a", "b", "d"}
    Decodable = {"a", "b", "c"}
    InitPool <- MCInitPool
    InitCurve <- MCInitCurve
    TradeAmounts = {4, 14}
    Quotes = {1, 5, 8, 21}
    Slippages = {0, 500, 9999, 20000}
    MaxTrades = 2
    Rent = 1
    Surplus = 1
    InitWallets <- MCWallets
    Markets <- MCMarkets
    BuyRequests <- MCBuyRequests
    SellRequests <- MCSellRequests
    InputAmounts = {0, 3}
    SlippagePoints = {4000}
    Percents = {0, 50, 100, 101}
    MaxOps = 2
    MaxPending = 2
SPECIFICATION TradingSpec
CHECK_DEADLOCK FALSE
INVARIANTS
    QuotesAreSound
    QuoteHoldsWhileCheaper
    NoRoundTripGain
    PoolViewIsUsable
    WalletIsSound
    DefaultTradesLand
PROPERTIES
    BuyCostIsBounded
    SellKeepsItsLimits
    WsolOpsAreExact
