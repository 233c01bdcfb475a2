SPECIFICATION TxSpec
CONSTANTS
    Sku = {1, 2}
    Warehouse = {1}
    Res = {1, 2}
    MaxQty = 1
    MaxOnHand = 1
    Proc = {"p1", "p2"}
    HashText <- Apart
    VersionMod = 2
    Ops = {"receive", "reserve"}
    MaxCalls = 2
INVARIANTS
    NoDeadlock
