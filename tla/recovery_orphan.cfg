SPECIFICATION Spec
CONSTANTS
    Resources = {r1}
    Backups = {b1}
    MaxLosses = 1
    MaxFaults = 0
INVARIANTS DeletedNeverLiveAgain
CHECK_DEADLOCK FALSE
