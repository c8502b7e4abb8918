SPECIFICATION MCSpec
CONSTANTS
    Coins = {"KMD", "LTC", "DGB"}
    FirstCoin = "KMD"
    SecondCoin = "LTC"
    WalletOnly = {"DGB"}
    Listed <- MCListed
    BotPairs <- MCBotPairs
    NoOrder = NoOrder
    NoPair = NoPair
    NoFees = NoFees
    MaxFunds = 2
    Amounts = {2}
    MaxCommands = 1
    MaxCalls = 1
    MaxEvents = 1
    O1 = O1  S1 = S1  S2 = S2  All = All  Some = Some
    Orders = {O1}
    OldSwaps <- MCOldSwaps
    Filters = {All, Some}
    Passes <- MCPasses
    Limits = {1, 2}
    Pages = {1, 2}
    NoFilter = All
    FirstLimit = 1
    Impatient = FALSE
    MaxChanges = 2
    MaxCancels = 1
    MaxFetches = 2
    Losses = 1
    MakerOrders = {"m1", "m2"}
    TakerOrders = {"t1"}
    PairOf <- MCPairOf
    TestPairs = {}
    Rates = {0, 1, 2}
    Spreads = {0, 1}
    Price <- MCPrice
    MaxBotEvents = 3
PROPERTIES
    ShownBookCatchesUp
    ChosenPageComes
    MarketIsFollowed
CHECK_DEADLOCK FALSE
