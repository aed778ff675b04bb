SPECIFICATION MCSpec
CONSTANTS
    NULL = NULL
    Ids = {d1, d2}
    Clients = {c1}
    Reconcilers = {r1}
    Operators = {o1}
    Sweepers = {s1}
    MaxFaults = 1
INVARIANTS SuppressedNeverActive OneRequested AbortedNeverFenced LedgerLeads ReceiptTellsPhase
INVARIANTS SweepConsistent LedgerConsistent
PROPERTIES ImplementsProtocol FencedBelowStops 
CHECK_DEADLOCK FALSE
