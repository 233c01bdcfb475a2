SPECIFICATION TxSpec
CONSTANTS
    Sku = {1}
    Warehouse = {1, 2}
    Res = {1, 2}
    MaxQty = 1
    MaxOnHand = 1
    Proc = {"p1", "p2"}
    HashText <- Apart
    VersionMod = 2
    Ops = {"receive", "restock", "adjust", "reserve", "transfer", "release", "commit"}
    MaxCalls = 1
INVARIANTS
    CasNeverLoses
    NoDeadlock
PROPERTIES
    ImplementsInventory
