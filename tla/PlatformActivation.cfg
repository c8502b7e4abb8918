SPECIFICATION FairSpec
CONSTANTS
    BCH = BCH  ATOM = ATOM  IRIS = IRIS
    SLP1 = SLP1  SLP2 = SLP2  IBC1 = IBC1  ORPHAN = ORPHAN
    Platforms = {BCH, ATOM, IRIS}
    Tokens = {SLP1, IBC1, ORPHAN}
    Parent <- MCParent
    SlpPlatforms = {BCH}
    Configured = {BCH, ATOM}
    Relock = {"throws", "waits"}
    NoOwner = NoOwner
    MaxCalls = 2
    MaxCommands = 3
    Requests <- MCRequests
INVARIANTS
    EnabledTokensHavePlatform
    AnnouncementsAreTrue
PROPERTIES
    CallbacksEnd
CHECK_DEADLOCK FALSE
