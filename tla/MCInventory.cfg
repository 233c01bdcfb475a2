SPECIFICATION Spec
CONSTANTS
    s1 = s1
    w1 = w1
    w2 = w2
    r1 = r1
    r2 = r2
    r3 = r3
    Sku = {s1}
    Warehouse = {w1, w2}
    Res = {r1, r2, r3}
    MaxQty = 2
    MaxOnHand = 3
SYMMETRY Symmetry
INVARIANTS
    HeldIsReserved
    NoOversell
    NoStrandedReservation
    LedgerExplainsLevel
PROPERTIES
    FinishedOnce
