CONSTANTS
    Runners = {r1, r2}
    MaxRunners = 2
    MaxJobs = 2
SPECIFICATION Spec
SYMMETRY RunnerSymmetry
INVARIANTS
    TypeOK
    NoForgottenEnvironment
    TrackerConsistent
PROPERTIES
    BusyRunnerUndisturbed
    RefinesCustody
