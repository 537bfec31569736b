\* Every list of up to three containers, scaled twice to every target.
SPECIFICATION Spec
CONSTANTS
    States = {"running", "restarting", "exited"}
    Indexes <- MCIndexes
    Ages = {0, 1}
    MaxListed = 3
    MaxTarget = 2
INVARIANTS
    PlanReachesTarget
    PlanIsStable
    AgreesWithScalePlan
PROPERTIES
    KeepsTheBest
