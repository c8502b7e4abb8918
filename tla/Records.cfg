SPECIFICATION MCSpec
CONSTANTS
    KMD = KMD
    BTC = BTC
    ARRR = ARRR
    X = X
    Y = Y
    MainThread = MainThread
    MainCoins <- MCMainCoins
    CustomCoins <- MCTwoCustomCoins
    DefaultCoins <- MCDefaultCoins
    PrimaryDexCoins <- MCPrimaryDexCoins
    ShieldedCoins <- MCShieldedCoins
    OldActive <- MCOldActive
    Gui <- MainThread
    MaxLogins = 2
    MaxCommands = 4
    ContactNames = {"n1", "n2"}
    AddressTypes = {"BNB", "BNBT"}
    AddressKeys = {"1", "T1"}
    AddressValues = {"v1"}
    Tags = {"t"}
    ValidAddresses <- MCValidAddresses
    MaxEdits = 4
    Uuids = {"u1", "u2"}
    OrderPrices <- MCOrderPrices
    Volumes = {1}
    MaxChanges = 3
SYMMETRY MCSymmetry
INVARIANTS
    SerialChangesHold
    ContactsAreKept
    RowsAndStatusAgree
PROPERTIES
    UpgradeKeepsSettings
CHECK_DEADLOCK FALSE
