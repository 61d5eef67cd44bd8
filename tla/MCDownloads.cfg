CONSTANTS
    NSlots = 2
    MaxParts = 2
    Size <- MCSize
    Legacy = {2}
    Refusals = {"denied"}
    MaxFlight = 2
    MaxChanges = 2
    MaxFaults = 1
    Releases <- MCReleases
    Installed <- MCInstalled
    Chunk = 2
    Unit = 4990
    Envelope = 57
    MaxSize = 5
    Mtu = 1444
    Header = 16
    MaxFragments = 7
    MaxMail = 2
    MaxScans = 2
    MaxMishaps = 1
SPECIFICATION FairDownloads
INVARIANTS AssembledWhole ImageSound
PROPERTIES NoReplay ConfigArrives UpdateArrives
