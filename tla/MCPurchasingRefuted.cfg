SPECIFICATION Spec
CONSTANTS
    Sku = {k1}
    Session = {a1, a2}
    k1 = k1
    a1 = a1
    a2 = a2
    ReorderPoint = 0
    ReorderQty = 1
    MaxQty = 1
    MaxOrders = 3
INVARIANTS
    NoDuplicateDraft
PROPERTIES
    CancelledStays
    NoOrderToInactiveSupplier
SYMMETRY Alike
CHECK_DEADLOCK FALSE
