CONSTANTS
    PerMinute = 2
    RawKept = 4
    HistoryKept = 7
    MaxSlot = 9
    Jobs = {j1, j2}
    Writers = {w1, w2}
    Nothing = Nothing
    PageSize = 1
    MaxBytes = 1
    TargetBytes = 0
    MaxLogs = 2
    MaxMessages = 2
    Machines = {m1, m2}
    Places = 1
    CapacityMaxWait = 4
    CapacityInitialBackoff = 1
    CapacityMaxBackoff = 2
    SshReadyMaxWait = 2
    SshReadyInitialBackoff = 1
    SshReadyMaxBackoff = 2
    CloudJobs = {j1, j2}
    Unnamed = Unnamed
    SampleQueueSize = 2
    InitialReconnectDelay = 1
    MaxReconnectDelay = 3
    MaxCloudChanges = 2
SPECIFICATION MCHostSpec
CHECK_DEADLOCK FALSE
INVARIANTS
    MinutesAreComplete
    NoMinuteSkipped
    ChartIsFaithful
    WritersHaveARunningJob
    NoOrphanLogs
    FollowerMissesNothing
    CleanedMachinesAreGone
    ConnectionIsReported
    SamplesNameTheirRunner
PROPERTIES
    CleaningEnds
    RunEnds
    AgentReconnects
