SPECIFICATION FairSpec
CONSTANTS
    Names = {"A", "B"}
    Passwords <- MCPasswords
    PinSuffixes <- MCPinSuffixes
    DefaultSuffix <- MCDefaultSuffix
    Seeds = {1, 2}
    NoFile = NoFile
    NoName = NoName
    Nobody = Nobody
    NoDaemon = NoDaemon
    MaxTries = 2
    MaxCommands = 6
    MaxEvents = 1
INVARIANTS
    SessionIsOfItsWallet
PROPERTIES
    ImplementsVault
    ScreensEnd
CHECK_DEADLOCK FALSE
