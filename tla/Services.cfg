SPECIFICATION MCSpec
CONSTANTS
    Assets = {"a"}
    Fiats = {"EUR"}
    CoinCurrencies <- MCCoinCurrencies
    MaxQuotes = 2
    WithoutId = {"KMD"}
    Workers = {"w"}
    MaxMoves = 1
    MaxAsks = 1
    MaxPings = 2
    MaxTurns = 3
    WaitingCoins = {"c"}
    CoinLimit = 2
    OtherCounts = {0, 1}
    MaxByHand = 1
    MaxFails = 1
    MaxAgain = 1
INVARIANTS
    PricesAgree
PROPERTIES
    RowsCatchUp
    WatchersRecover
    WaitingCoinsComeUp
CHECK_DEADLOCK FALSE
