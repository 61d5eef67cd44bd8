CONSTANTS
    Families <- MCFamilies
    Paths <- MCPaths
    Family <- MCFamily
    Rank <- MCRank
    Scope <- MCScope
    Alive = 1
    Expiration = 2
    Ends = {"a", "b"}
    PathAlive = 8
    Heartbeat = 3
    PingPeriod = 12
    PathExpiration = 13
    Activity = 100
    MaxWait = 1
    LossGap = 5
SPECIFICATION MCSpec
INVARIANTS LrMeansPath RedirectSticks ResetSilences KeptAlive
PROPERTIES LivePathStays
