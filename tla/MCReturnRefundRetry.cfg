SPECIFICATION FairSpec
CONSTANTS
    Return = {"r1", "r2"}
    Worker = {"w1"}
    Units = 2
    Part <- MCPart
    Parts <- MCParts
    Taxable = 4
    Tax = 2
    Extra = 1
    MaxFailures = 2
    MaxLost = 0
    MaxCrashes = 0
CHECK_DEADLOCK FALSE
PROPERTIES
    ReceivedIsSettled
