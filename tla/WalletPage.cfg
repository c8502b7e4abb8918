SPECIFICATION FairSpec
CONSTANTS
    Coins = {"BCH", "SLP", "ARRR"}
    Platform = "BCH"
    Tokens = {"SLP"}
    ShieldedCoins = {"ARRR"}
    Sessions = {{"ARRR"}, {"BCH", "SLP"}}
    Slots = {1, 2}
    Amounts = {1}
    Funds = 2
    LoopLimit = 2
    MaxCommands = 1
    MaxEvents = 1
    MaxFailures = 1
INVARIANTS
    SentIsConfirmed
PROPERTIES
    BalancesAreRight
    SendEnds
CHECK_DEADLOCK FALSE
