SPECIFICATION Spec
CONSTANTS
    Return = {"r1", "r2"}
    Worker = {"w1", "w2"}
    Units = 3
    Part <- MCPart
    Parts <- MCParts
    Taxable = 4
    Tax = 1
    Extra = 1
    MaxFailures = 1
    MaxLost = 1
    MaxCrashes = 1
CHECK_DEADLOCK FALSE
INVARIANTS
    CapCoversMoney
    PutBackOnce
    NeverOverReturned
    RoundingBounded
    RefundedIsSettled
