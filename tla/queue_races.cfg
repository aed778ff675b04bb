SPECIFICATION MCSpec
CONSTANTS
    Account = Account
    NULL = NULL
    Workers = {w1, w2}
    Clients = {c1}
    ImportJobs = {i1}
    SystemJobs = {}
    Cancellable = {i1}
    MaxAttempts = 2
    LeaseDuration = 1
    RetryBase = 1
    MaxRetryDelay = 2
    MaxCrashes = 1
    Overlapping = TRUE
SYMMETRY Symmetry
INVARIANTS TypeOK FencingTokensUnique SucceededHasDraft HolderNeverSeesExpiry AttemptsAccounted
 
PROPERTY NoLeaseOnceCancelled
CHECK_DEADLOCK FALSE
