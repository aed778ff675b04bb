CONSTANTS
    Account = Account
    NULL = NULL
    Workers = {w1, w2}
    Clients = {}
    ImportJobs = {i1}
    SystemJobs = {}
    Cancellable = {}
    MaxAttempts = 2
    LeaseDuration = 1
    RetryBase = 1
    MaxRetryDelay = 2
    MaxCrashes = 0
    Overlapping = TRUE

SPECIFICATION Spec
PROPERTY NoStalePublication
