\* One client at a time; calls, the gateway and containers may fail twice.
SPECIFICATION Spec
CONSTANTS
    f = f
    g = g
    nf = nf
    ng = ng
    nx = nx
    v1 = v1
    v2 = v2
    r1 = r1
    r2 = r2
    r3 = r3
    r4 = r4
    NoRow = NoRow
    NoCall = NoCall
    NoNetwork = NoNetwork
    NoContainer = NoContainer
    Services <- OneService
    Networks <- TwoNetworks
    Images <- MCImages
    MaxReplicas = 2
    Requests <- ThreeRequests
    Creators <- ThreeCreators
    OwnNetwork <- FOwnNetwork
    Calls <- RetriedCalls
    InitialRows <- AnyScale
    MaxInFlight = 1
    Faults = {"engine", "store", "hangup", "exit", "crash"}
    MaxFaults = 2
SYMMETRY RequestSymmetry
PROPERTIES
    ScaleConverges
    UpdateRecreates
    RefinesRegistry
