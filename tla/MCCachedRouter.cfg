CONSTANTS
    Node = {n1, n2}
    Session = {s1, s2}
    Grain = {g1}
    PlacementID = {i1}
    Thread = {t1}
    NoSession = NoSession
    NoNode = NoNode
    NoID = NoID
    GroupOf <- OneGroup
    TTL = 1
    MaxTime = 1
    MaxVersion = 2
    MaxStream = 2
    MaxEpoch = 2

SPECIFICATION CachedSpec
SYMMETRY Symmetry
VIEW View

INVARIANTS
    CacheIndexCoherent
    CacheCoherent
