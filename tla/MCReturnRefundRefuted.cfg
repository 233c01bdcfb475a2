SPECIFICATION FairSpec
CONSTANTS
    Return = {"r1", "r2"}
    Worker = {"w1", "w2"}
    Units = 2
    Part <- MCPart
    Parts <- MCParts
    Taxable = 4
    Tax = 2
    Extra = 0
    MaxFailures = 2
    MaxLost = 1
    MaxCrashes = 1
INVARIANTS
    FailedAttemptFreesCap
    NeverOverRefunded
PROPERTIES
    RefundedOrderStays
    ReceivedIsSettled
CHECK_DEADLOCK FALSE
