CONSTANTS
    Node = {n1, n2}
    Session = {s1, s2}
    Grain = {g1}
    PlacementID = {i1}
    NoSession = NoSession
    NoNode = NoNode
    NoID = NoID
    Self = n1
    SelfSession = s1
    PID = {a1, a2}
    NoPID = NoPID
    Thread = {t1}
    NoThread = NoThread
    TTL = 1
    MaxTime = 1
    MaxVersion = 2

SPECIFICATION ActivationSpec
VIEW View

INVARIANT FenceStopsAll
