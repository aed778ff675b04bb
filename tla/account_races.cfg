SPECIFICATION MCSpec
CONSTANTS
    Sessions = {s1, s2}
    Intents = {d1}
    Requests = {q1, q2}
    NONE = NONE
    Idle = 2
    Absolute = 2
    IntentLife = 1
    MaxTime = 2
SYMMETRY Symmetry
INVARIANTS EndedNeverServed PreparedIntentKept PartsConsistent
PROPERTIES RevocationIsFinal ReceiptKept
CHECK_DEADLOCK FALSE
