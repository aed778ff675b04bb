SPECIFICATION Spec
CHECK_DEADLOCK FALSE
CONSTANTS
    Kinds = {"REPORT"}
    JobIds = {j1, j2}
    Hashes = {h1}
    Keys = {k1, k2}
    Workers = {w1, w2}
    Clients = {c1}
    Sweepers = {s1}
    MaxAttempts = 1
    MaxFaults = 1
    NULL = NULL
INVARIANT AcceptedIsStored
