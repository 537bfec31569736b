\* One client at a time, nothing fails: every sequence of four calls.
SPECIFICATION Spec
CONSTANTS
    f = f
    g = g
    nf = nf
    ng = ng
    nx = nx
    v1 = v1
    v2 = v2
    r1 = r1
    r2 = r2
    r3 = r3
    r4 = r4
    NoRow = NoRow
    NoCall = NoCall
    NoNetwork = NoNetwork
    NoContainer = NoContainer
    Services <- OneService
    Networks <- TwoNetworks
    Images <- MCImages
    MaxReplicas = 2
    Requests <- FourRequests
    Creators <- FourCreators
    OwnNetwork <- FOwnNetwork
    Calls <- SerialCalls
    InitialRows <- AnyScale
    MaxInFlight = 1
    Faults = {}
    MaxFaults = 0
SYMMETRY RequestSymmetry
INVARIANTS
    TypeOK
    StoreAndEngineAgree
PROPERTIES
    DeleteReleases
    NoCallFails
    InvokeArrives
    RefinesRegistry
