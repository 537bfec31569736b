\* An invocation while a replica that never started is listed.
SPECIFICATION Spec
CONSTANTS
    f = f
    g = g
    nf = nf
    ng = ng
    nx = nx
    v1 = v1
    v2 = v2
    r1 = r1
    r2 = r2
    r3 = r3
    r4 = r4
    NoRow = NoRow
    NoCall = NoCall
    NoNetwork = NoNetwork
    NoContainer = NoContainer
    Services <- OneService
    Networks <- TwoNetworks
    Images <- MCImages
    MaxReplicas = 2
    Requests <- TwoRequests
    Creators <- TwoCreators
    OwnNetwork <- FOwnNetwork
    Calls <- RoutedCalls
    InitialRows <- OneDeployed
    MaxInFlight = 1
    Faults = {"engine"}
    MaxFaults = 1
PROPERTY RoutesToRunning
