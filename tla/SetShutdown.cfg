CONSTANTS
    Runners = {r1, r2}
    MaxRunners = 1
    MaxJobs = 1
SPECIFICATION Spec
SYMMETRY RunnerSymmetry
INVARIANTS
    ShutdownLeavesNothing
