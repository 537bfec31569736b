\* Three concurrent calls on two functions; nothing fails.
SPECIFICATION Spec
CONSTANTS
    f = f
    g = g
    nf = nf
    ng = ng
    nx = nx
    v1 = v1
    v2 = v2
    r1 = r1
    r2 = r2
    r3 = r3
    r4 = r4
    NoRow = NoRow
    NoCall = NoCall
    NoNetwork = NoNetwork
    NoContainer = NoContainer
    Services <- MCServices
    Networks <- MCNetworks
    Images <- MCImages
    MaxReplicas = 2
    Requests <- ThreeRequests
    Creators <- ThreeCreators
    OwnNetwork <- MCOwnNetwork
    Calls <- RacingCalls
    InitialRows <- RaceFrom
    MaxInFlight = 3
    Faults = {}
    MaxFaults = 0
SYMMETRY RequestSymmetry
INVARIANTS
    ColdStartSettles
    ColdStartArrives
PROPERTIES
    RowLedger
    Isolation
    RefinesRegistry
