CONSTANTS
    Node = {n1, n2}
    Session = {s1, s2}
    Grain = {g1}
    PlacementID = {i1}
    Thread = {t1, t2}
    NoSession = NoSession
    NoNode = NoNode
    NoID = NoID
    GroupOf <- OneGroup
    TTL = 1
    MaxTime = 1
    MaxVersion = 2

SPECIFICATION MemorySpec
SYMMETRY Symmetry
VIEW View

INVARIANTS
    ByNodeCoherent
    StaleRouteAnnounced

PROPERTIES
    SessionKeepsItsLease
    UnfitNodeOnlyShrinks
    OwnersPromise
