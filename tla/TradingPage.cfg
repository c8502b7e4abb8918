SPECIFICATION Spec
CONSTANTS
    Coins = {"KMD", "LTC", "DGB"}
    FirstCoin = "KMD"
    SecondCoin = "LTC"
    WalletOnly = {"DGB"}
    Listed <- MCListed
    BotPairs <- MCBotPairs
    NoOrder = NoOrder
    NoPair = NoPair
    NoFees = NoFees
    MaxFunds = 2
    Amounts = {2}
    MaxCommands = 2
    MaxCalls = 1
    MaxEvents = 1
INVARIANTS
    FormIsOfThePair
    VanishedOrderIsReported
CHECK_DEADLOCK FALSE
