SPECIFICATION Spec
CONSTANTS
    Order = {"o1"}
    Awb = {"awb1", "awb2"}
    Clerk = {c1, c2}
    Hook = {h1, h2}
    Report <- Deliveries
    MaxFaults = 0
    h1 = h1
    h2 = h2
    c1 = c1
    c2 = c2
PROPERTY DeliveryReachesOrder
CHECK_DEADLOCK FALSE
