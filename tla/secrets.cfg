\* Four concurrent calls on two secrets; file operations and the gateway may fail
\* twice.
SPECIFICATION Spec
CONSTANTS
    r1 = r1
    r2 = r2
    r3 = r3
    r4 = r4
    n1 = n1
    n2 = n2
    v1 = v1
    v2 = v2
    c1 = c1
    c2 = c2
    Empty = Empty
    Torn = Torn
    NoCall = NoCall
    Requests <- MCRequests
    Names <- MCNames
    Values <- MCValues
    Contents <- MCContents
    Decode <- MCDecode
    Calls <- MCCalls
    Faults = {"write", "crash"}
    MaxFaults = 2
SYMMETRY Symmetry
INVARIANTS
    SecretsTypeOK
    LossIsTold
    SecretLedger
PROPERTIES
    ClientsValuesStand
    DeploysGetThrough
