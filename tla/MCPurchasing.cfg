SPECIFICATION Spec
CONSTANTS
    Sku = {k1, k2}
    Session = {a1, a2}
    k1 = k1
    k2 = k2
    a1 = a1
    a2 = a2
    ReorderPoint = 0
    ReorderQty = 2
    MaxQty = 1
    MaxOrders = 2
INVARIANTS NeverOverReceived StockIsWhatWasReceived StatusTellsReceipts
SYMMETRY Alike
CHECK_DEADLOCK FALSE
