SPECIFICATION MCSpec
CONSTANTS
    Nodes = {"a", "b", "c"}
    Met = {"c"}
    Links <- MCLinks
    MaxTime = 2
    MaxDelta = 0
    Qualifiers <- MCQualifiers
    Revocations <- MCRevocations
    Members = {"m"}
    Workers = {"w1", "w2"}
    Infos = {"a"}
    MaxQueue = 1
    MaxPosts = 2
INVARIANTS
    RevocationEffective
    AllowedAgrees
    OnlyAllowedServed
    PushShowsChange
PROPERTIES
    NewestKept
    FloodEnds
    UpdateReaches
