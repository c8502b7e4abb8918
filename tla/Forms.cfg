SPECIFICATION MCSpec
CONSTANTS
    Tokens = {"t1", "t2"}
    TokenWallets = {"w1", "w2"}
    NoToken = "none"
    MaxStarts = 4
    Options = {"spam", "post"}
    ShippedOn = {"spam"}
    Languages = {"en", "fr", "xx"}
    Translated = {"en", "fr"}
    DefaultLanguage = "en"
    SyncDates = {3, 31}
    DefaultDate = 31
    Checkpoints <- MCCheckpoints
    BlockTime = 3
    HeightRound = 2
    LastVersion = 3
    MaxStarted = 3
    Items = {1, 2}
    DayOf <- MCDayOf
    CoinsOf <- MCCoinsOf
    IsMaker <- MCIsMaker
    Dates <- MCDates
    Patterns <- MCPatterns
    FirstChoice <- MCFirstChoice
    MaxBatches = 2
    MaxActs = 5
    Addresses = {"", "a", "A", "x"}
    Verdict <- MCVerdict
    Converted <- MCConverted
    MaxQuestions = 4
    MaxClaims = 5
    TradedCoins = {"A", "A-x", "B"}
    Primary = "B"
    SecondPrimary = "A"
    MainTicker <- MCMainTicker
    Answers <- MCAnswers
    Rates <- MCRates
    Prices = {1}
    StatSlots = {1}
    MaxStatEvents = 2
    O1 = O1  S1 = S1  S2 = S2  All = All  Some = Some
    Orders = {O1}
    OldSwaps <- MCOldSwaps
    Filters = {All, Some}
    Passes <- MCPasses
    Limits = {1}
    Pages = {1, 2}
    NoFilter = All
    FirstLimit = 1
    Impatient = TRUE
    MaxChanges = 2
    MaxCancels = 0
    MaxFetches = 3
    Losses = 0
INVARIANTS
    OrderRowsAgree
    TokensAreKept
    PreferencesAreKept
    ListsAreOfTheChoice
    VerdictHolds
    ClaimsAreFresh
    FormShowsThePair
PROPERTIES
    SubmitRepairs
CHECK_DEADLOCK FALSE
