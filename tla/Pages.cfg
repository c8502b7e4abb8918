SPECIFICATION MCSpec
CONSTANTS
    KMD = KMD
    A = A
    B = B
    Coins <- MCCoins
    PrimaryDexCoins <- MCPrimaryDexCoins
    SavedCoins <- MCPrimaryDexCoins
    MaxEnabled = 2
    MaxSessions = 2
    MaxCommands = 2
    ShownCoins = {"KMD", "BTC", "ETH"}
    ErcCoins = {"ETH"}
    TxSlots = {1, 2}
    PageSize = 1
    MaxTx = 3
    OldTxs = {0, 1}
    MaxChoices = 1
    MaxTxEvents = 2
    MaxTxFailures = 1
INVARIANTS
    ContainersAgree
    HistoryIsOfTheCoin
PROPERTIES
    AnnouncedComesUp
    ShownHistoryCatchesUp
CHECK_DEADLOCK FALSE
