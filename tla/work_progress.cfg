SPECIFICATION MCSpec
CONSTANTS
    NULL = NULL
    Kinds = {"REPORT"}
    JobIds = {j1, j2}
    Hashes = {h1}
    Keys = {k1}
    Workers = {w1, w2}
    Clients = {c1}
    Sweepers = {s1}
    MaxAttempts = 1
    MaxFaults = 1
INVARIANTS SerialConsistent 
PROPERTIES PublishedUnderLease  ArtifactsSettle
CHECK_DEADLOCK FALSE
