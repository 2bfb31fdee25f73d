CONSTANTS
    Node = {n1}
    Session = {s1}
    Grain = {g1}
    PlacementID = {i1, i2}
    Client = {router, owner}
    router = router
    owner = owner
    resolveRouteMaxAttempts = 1
    MayDo <- RouterAndOwner
    ResendOps = {"allocate", "resolve"}
    NoSession = NoSession
    NoNode = NoNode
    NoID = NoID
    GroupOf <- OneGroup
    TTL = 1
    MaxTime = 0
    MaxLeaseVersion = 1
    ClockMayStepBack = FALSE
    MaxSequence = 3
    MaxVersion = 2

SPECIFICATION RedisSpec
SYMMETRY Symmetry
VIEW View

PROPERTY IdentifierNamesOneLifetime
