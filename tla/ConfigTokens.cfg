CONSTANTS
    MaxDraftEdits = 2
    Docs <- MCDocs
    Owners <- MCOwners
    Retyped <- MCRetyped
    Databases = {"default", "other"}
    DefaultDb = "default"
    Savers = {"console", "enroll"}
    EnrollCommand = "enroll"
    RevisionsKept = 2
    Masked = "***"
    None = None
    MaxWrites = 2
    MaxStarts = 2
    Requests = {q1, q2}
    Passwords = {"p", "q"}
    NoPassword = "none"
    FailureLimit = 2
    FailureWindow = 1
    BlockTime = 1
    SessionLifetime = 1
    MaxNow = 2
    Records = {k1, k2}
    MaxTime = 1
    ListLimit = 2
    LargestPage = 1
    DefaultPage = 1
    MaxChanges = 0
SPECIFICATION ConsoleSpec
CHECK_DEADLOCK FALSE
INVARIANTS
    TokensStayWithTheirOrg
