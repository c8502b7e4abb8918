SPECIFICATION FairSpec
CONSTANTS
    KMD = KMD
    ETH = ETH
    TOK = TOK
    utxo = utxo
    erc = erc
    Coins <- MCCoins
    DefaultCoins <- MCDefaultCoins
    PrimaryDexCoins <- MCPrimaryDexCoins
    Parent <- MCParent
    Families <- MCFamilies
    Family <- MCFamily
    SavedActive <- MCSavedActive
    MaxBatch = 2
    MaxEnabled = 3
    MaxInFlight = 2
    MaxCommands = 2
INVARIANTS
    EnabledCoinsAccountedFor
    StoresAgree
PROPERTIES
    ActivationSettles
CHECK_DEADLOCK FALSE
