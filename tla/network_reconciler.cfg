\* Two calls that may overlap, and the reconciler; one engine call may fail, the gateway
\* may be recreated or a function's process may exit.
SPECIFICATION ReconcilerSpec
CONSTANTS
    f = f
    g = g
    nf = nf
    ng = ng
    nx = nx
    v1 = v1
    r1 = r1
    r2 = r2
    NoRow = NoRow
    NoCall = NoCall
    NoNetwork = NoNetwork
    NoContainer = NoContainer
    Services <- MCServices
    Networks <- MCNetworks
    Images <- MCImages
    MaxReplicas = 1
    Requests <- MCRequests
    Creators <- MCCreators
    OwnNetwork <- MCOwnNetwork
    Calls <- MCCalls
    InitialRows <- MCInitialRows
    MaxInFlight = 2
    Faults = {"crash", "exit", "engine"}
    MaxFaults = 1
INVARIANTS
    ReconcilerTypeOK
    OwnNetworksReleased
PROPERTIES
    CutOffIsRepaired
    EveryCallAnswered
