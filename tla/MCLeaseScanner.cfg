CONSTANTS
    Grain = {}
    PlacementID = {}
    NoNode = NoNode
    NoID = NoID
    Node = {n1, n2}
    Session = {s1, s2}
    NoSession = NoSession
    TTL = 1
    MaxTime = 1
    MaxLeaseVersion = 2
    ClockMayStepBack = FALSE
    Scanner = {k1}
    batchSize = 1

SPECIFICATION ScannerSpec

PROPERTIES
    ScansAreAtomic
    RenewalWins
    DueLeaseExpires
