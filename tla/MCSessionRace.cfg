CONSTANTS
    Node = {n1}
    Session = {s1, s2}
    Grain = {g1}
    PlacementID = {i1}
    Client = {router, owner}
    router = router
    owner = owner
    resolveRouteMaxAttempts = 2
    MayDo <- RoutesAndRecovery
    ResendOps = {"resolve"}
    NoSession = NoSession
    NoNode = NoNode
    NoID = NoID
    GroupOf <- OneGroup
    TTL = 2
    MaxTime = 2
    MaxLeaseVersion = 1
    ClockMayStepBack = FALSE
    MaxSequence = 2
    MaxVersion = 2

SPECIFICATION RedisSpec
SYMMETRY Symmetry
VIEW View

INVARIANTS
    RouteConservative
    VersionNamesOneOwner

PROPERTIES
    ScriptsSeeCurrentPlacement
