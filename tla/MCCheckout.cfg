SPECIFICATION Spec
CONSTANTS
    Cart = {"c1", "c2"}
    Sku = {"s1"}
    Worker = {"w1", "w2"}
    Registered = {"c1"}
    Owner <- OnePerson
    Stock = 1
    Limits <- EitherLimit
    MaxEdits = 4
INVARIANTS
    OneOrderPerCart
    NumbersGapless
    CouponWithinLimits
    DiscountsAreRedeemed
CHECK_DEADLOCK FALSE
