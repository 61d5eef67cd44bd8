SPECIFICATION Spec
CONSTANTS
    PacketIds = {"p", "q", "w"}
    Fragments <- MCFragments
    Copies = {1, 2}
    Sent <- MCSent
    MaxFragments = 3
    WireFragments = 4
    QueueSize = 2
    Expire = 2
    MaxAge = 2
    Addrs = {"u", "x"}
    Upstreams = {"u"}
    HelloFrom = {}
    Source <- MCSource
    Issuer <- MCIssuer
    Trusted = {"q"}
    SendIds = {}
    Dest <- MCDest
    Senders = {}
    RetryDelay = 1
    MaxRetries = 0
    TxTimeout = 1
    MaxLag = 0
INVARIANTS
    SlotsSound
    OneEntryPerPacket
PROPERTIES
    ReassemblySpec
    EvictsOnlyOldest
    WaitingNotLost
