CONSTANTS
    Runners = {r1, r2}
    OnlyRunner = r1
    MaxRunners = 1
    MaxJobs = 2
SPECIFICATION LivenessSpec
INVARIANTS
    GrantsWithinLimit
PROPERTIES
    PreparationEnds
    GhostsGiveCapacityBack
    WaitingJobIsServed
