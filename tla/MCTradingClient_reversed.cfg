CONSTANTS
    U64 = 100000
    FEE_BASIS_POINTS = 950
    CREATOR_FEE = 300
    LP_FEE_BASIS_POINTS = 0
    PROTOCOL_FEE_BASIS_POINTS = 0
    COIN_CREATOR_FEE_BASIS_POINTS = 0
    DustTokens = 0
    SmallBuy = 3
    FallbackSmall = 1
    FallbackLarge = 2
    Rent = 1
    Surplus = 1
    InitWallets <- MCHolder
    Markets <- MCReversed
    BuyRequests <- MCNoRequest
    SellRequests <- MCReversedSale
    InputAmounts = {3}
    SlippagePoints = {4000}
    Percents = {0, 50, 100, 101}
    MaxOps = 2
    MaxPending = 2
SPECIFICATION Spec
CHECK_DEADLOCK FALSE
PROPERTIES
    SellsWhatIsAsked
