SPECIFICATION Spec
CONSTANTS
    Resources = {r1}
    Backups = {b1, b2}
    MaxLosses = 2
    MaxFaults = 1
SYMMETRY Symmetry
INVARIANTS DatabaseFollowsLedger RestoreIsQualified
CHECK_DEADLOCK FALSE
