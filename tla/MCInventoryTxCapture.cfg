SPECIFICATION TxSpec
CONSTANTS
    Sku = {1, 2}
    Warehouse = {1}
    Res = {1, 2}
    MaxQty = 1
    MaxOnHand = 2
    Proc = {"p1", "p2"}
    HashText <- Apart
    VersionMod = 3
    Ops = {"receive", "reserve", "commit"}
    MaxCalls = 2
INVARIANTS
    NoDeadlock
