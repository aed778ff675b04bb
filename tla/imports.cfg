\* One account, two requests, two uploads, one crash or lost answer.
CONSTANTS
    Clients = {c1, c2}
    Keys = {k1}
    Payloads = {a}
    Hashes = {h1}
    Simulated = h1
    NULL = NULL
    MaxImports = 2
    MaxProfiles = 2
    MaxDeletions = 1
    MaxFaults = 1
SPECIFICATION Spec
SYMMETRY Symmetry
INVARIANTS  ReferencesResolve LateImportNeverReady
CHECK_DEADLOCK FALSE
