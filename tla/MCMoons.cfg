CONSTANTS
    Callers = {"a"}
    Self = "me"
    Addrs = {"r", "s", "t"}
    DefaultPlanet <- MCPlanet
    Worlds <- MCWorlds
    Seeds = {"t", "none"}
    Embedders = {"OneService"}
    NoSeed = "none"
SPECIFICATION TopologySpec
INVARIANTS MoonsPersist
