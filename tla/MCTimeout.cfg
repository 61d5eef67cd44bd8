SPECIFICATION Spec
CONSTANTS
    PacketIds = {}
    Fragments <- MCNone
    Copies = {1}
    Sent = {}
    MaxFragments = 1
    WireFragments = 1
    QueueSize = 1
    Expire = 0
    MaxAge = 0
    Addrs = {"u", "x"}
    Upstreams = {"u"}
    HelloFrom = {"x"}
    Source <- MCNone
    Issuer <- MCNone
    Trusted = {}
    SendIds = {"m", "n"}
    Dest <- MCDest
    Senders = {"tap", "worker"}
    RetryDelay = 1
    MaxRetries = 2
    TxTimeout = 2
    MaxLag = 1
PROPERTIES
    TimeoutHonoured
