CONSTANTS
    Releases <- MCReleases
    Installed <- MCInstalled
    Chunk = 2
    Unit = 4990
    Envelope = 57
    MaxSize = 5
    Mtu = 1444
    Header = 16
    MaxFragments = 7
    MaxMail = 2
    MaxScans = 2
    MaxMishaps = 1
SPECIFICATION FairUpdater
PROPERTIES EndsUpToDate
