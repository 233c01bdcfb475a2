SPECIFICATION Spec
CONSTANTS
    Order = {"o1"}
    Awb = {"awb1", "awb2"}
    Clerk = {c1}
    Hook = {h1}
    Report <- Disputed
    MaxFaults = 1
    h1 = h1
    c1 = c1
INVARIANTS
    OutForDeliveryIsNotDelivered
    EventsOnce
    FailedIsReshippable
PROPERTIES
    DeliveryReachesOrder
CHECK_DEADLOCK FALSE
