\* Three builds, a history of two, one stream.
SPECIFICATION Spec
CONSTANTS
    Builds = {b1, b2, b3}
    Streams = {s1}
    NoEntry = NoEntry
    Limit = 2
    Retention = 2
    Buffer = 1
    MaxTime = 2
SYMMETRY BuildSymmetry
INVARIANTS
    BuildTrackerTypeOK
    IndexIsExact
    HistoryTellsOutcome
    RecentBuildsAreListed
    StreamsCatchUp
