CONSTANTS
    MaxDraftEdits = 2
    Docs <- MCDocs
    Owners <- MCOwners
    Retyped <- MCRetyped
    Databases = {"default", "other"}
    DefaultDb = "default"
    Savers = {"console", "enroll"}
    EnrollCommand = "enroll"
    RevisionsKept = 2
    Masked = "***"
    None = None
    MaxWrites = 2
    MaxStarts = 2
    Requests = {q1, q2}
    Passwords = {"p", "q"}
    NoPassword = "none"
    FailureLimit = 2
    FailureWindow = 1
    BlockTime = 1
    SessionLifetime = 1
    MaxNow = 2
    Records = {k1, k2, k3, k4}
    MaxTime = 4
    ListLimit = 3
    LargestPage = 2
    DefaultPage = 1
    MaxChanges = 2
SPECIFICATION ConsoleSpec
CHECK_DEADLOCK FALSE
INVARIANTS
    DecodableConfigStarts
    RecoveryFindsLastStarted
    OrderedTokensStay
    CloudConfigHasCredential
    BlockHolds
    SessionsKnowThePassword
    PagesAddUp
PROPERTIES
    ViewCatchesUp
