CONSTANTS
    Mtu = 1444
    Header = 16
    MaxFragments = 7
    Sizes <- MCSizes
    Callers = {"a", "b"}
    Self = "me"
    Addrs = {"r", "s", "t"}
    DefaultPlanet <- MCPlanet
    Worlds <- MCWorlds
    Seeds = {"t", "none"}
    Embedders = {"contract", "OneService"}
    NoSeed = "none"
    LocalAddrs = {"x", "y", "z"}
    Wildcard = "any"
    MaxBindings = 2
    MaxSockets = 4
    Members = {"m", "n"}
    Low <- MCLow
    Workers = {"w", "x"}
    Pools <- MCPools
    Routes <- MCRoutes
    MaxTrials = 1000
    MaxPosts = 1
    MaxFailures = 1
    SendThreads = {"a", "b"}
    RingSize = 3
    Pointer = 6
    MaxIds = 8
    Peers = {"b", "s", "u"}
    Subscriber = "s"
    Bridges = {"b"}
    Limit = 2
    LikeExpire = 7
    TransmitTimeout = 1
    GatherDelay = 2
    Housekeeping = 1
    AnnouncePeriod = 1
    AnnounceDelay = 1
    MaxLost = 2
    MaxSends = 2
    RuleLists <- MCRuleLists
    Capability <- MCCapability
SPECIFICATION PartsSpec
INVARIANTS
    Reassembles ReceiverTakesAll
    UpstreamsExact DeorbitSticks
    SentOnce QueueSound StaysListed
    FilterMeaning EndsAgree
    ClashNeedsHaste FileFollows RecentExpected SocketsSound
PROPERTIES WorldsNeverBack
