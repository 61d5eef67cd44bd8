SPECIFICATION Spec
CONSTANTS
    Nodes = {"a", "b", "c"}
    Met = {"c"}
    Links <- MCLinks
    MaxTime = 2
    MaxDelta = 0
    Qualifiers <- MCQualifiers
    Revocations <- MCRevocations
INVARIANTS
    ComRevocationEffective
