\* Three calls under two keys, all at a time: as many as 2 * Limit + 1 failures in a
\* row need. The clock runs past a token's life and past two windows, so that the third
\* failure can fall into a second window.
SPECIFICATION Spec
CONSTANTS
    r1 = r1
    r2 = r2
    r3 = r3
    k1 = k1
    k2 = k2
    NoToken = NoToken
    NoCall = NoCall
    Requests <- MCRequests
    Keys <- MCKeys
    Kinds <- MCKinds
    TTL = 1
    Window = 1
    Limit = 1
    MaxTime = 4
    MaxInFlight = 3
SYMMETRY Symmetry
INVARIANTS
    AdmissionTypeOK
    TwiceLimitPerWindow
PROPERTIES
    OnlyLiveTokensAdmit
    LiveTokensAdmit
    RefusedInFullWindow
