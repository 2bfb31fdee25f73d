CONSTANTS
    Node = {n1, n2}
    Session = {s1, s2}
    Grain = {g1, g2}
    PlacementID = {i1, i2}
    NoSession = NoSession
    NoNode = NoNode
    NoID = NoID
    GroupOf <- OneGroup
    TTL = 1
    MaxTime = 1
    MaxLeaseVersion = 2
    ClockMayStepBack = TRUE
    MaxSequence = 3
    MaxVersion = 2

SPECIFICATION DirectorySpec
SYMMETRY Symmetry
VIEW View

INVARIANTS
    DirectoryTypeOK
    IndexCoherent

PROPERTIES
    LeaseNeverShortened
    RouteLossAnnounced
    DrainLeavesNothing
    UnfitNodeOnlyShrinks
    OwnershipContract
