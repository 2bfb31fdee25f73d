CONSTANTS
    Node = {n1}
    Session = {s1, s2}
    Grain = {}
    PlacementID = {}
    NoNode = NoNode
    NoSession = NoSession
    NoID = NoID
    NodeOf <- SameNode
    MaxLate = 1
    TTL = 2
    MaxTime = 3
    MaxLeaseVersion = 2
    ClockMayStepBack = FALSE

SPECIFICATION LeaseSpec
SYMMETRY Symmetry
VIEW View

INVARIANTS
    RegistryTypeOK
    LeaseIndexCoherent
    GrantConservative

PROPERTIES
    OfflineIsFinal
    GrantLostByDecision
