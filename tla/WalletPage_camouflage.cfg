SPECIFICATION Spec
CONSTANTS
    Coins = {"BCH", "SLP", "ARRR"}
    Platform = "BCH"
    Tokens = {"SLP"}
    ShieldedCoins = {"ARRR"}
    Sessions = {{"ARRR"}, {"BCH", "SLP"}}
    Slots = {1}
    Amounts = {1}
    Funds = 2
    LoopLimit = 2
    MaxCommands = 1
    MaxEvents = 1
    MaxFailures = 1
INVARIANTS
    BalanceIsLower
CHECK_DEADLOCK FALSE
