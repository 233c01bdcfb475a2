SPECIFICATION Spec
CONSTANTS
    Cart = {"c1", "c2"}
    Sku = {"s1", "s2"}
    Worker = {"w1", "w2"}
    Registered = {"c1"}
    Owner <- Strangers
    Stock = 2
    Limits <- OneUse
    MaxEdits = 3
INVARIANTS
    DoubleSubmitReuses
PROPERTIES
    OrderIsItsCart
CHECK_DEADLOCK FALSE
