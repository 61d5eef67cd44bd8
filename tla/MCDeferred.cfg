SPECIFICATION Spec
CONSTANTS
    PacketIds = {"p"}
    Fragments <- MCFragments
    Copies = {1}
    Sent <- Datagrams
    MaxFragments = 1
    WireFragments = 1
    QueueSize = 1
    Expire = 3
    MaxAge = 3
    Addrs = {"u", "c"}
    Upstreams = {"u"}
    HelloFrom = {}
    Source <- MCSource
    Issuer <- MCIssuer
    Trusted = {}
    SendIds = {}
    Dest <- MCDest
    Senders = {}
    RetryDelay = 1
    MaxRetries = 1
    TxTimeout = 1
    MaxLag = 0
PROPERTIES
    WaitingNotLost
