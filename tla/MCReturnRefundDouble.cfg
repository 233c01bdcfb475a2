SPECIFICATION Spec
CONSTANTS
    Return = {"r1"}
    Worker = {"w1", "w2"}
    Units = 2
    Part <- MCPart
    Parts <- MCParts
    Taxable = 4
    Tax = 2
    Extra = 0
    MaxFailures = 0
    MaxLost = 0
    MaxCrashes = 1
CHECK_DEADLOCK FALSE
INVARIANTS
    NoDoublePay
