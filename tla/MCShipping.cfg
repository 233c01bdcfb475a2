SPECIFICATION Spec
CONSTANTS
    Order = {"o1"}
    Awb = {"awb1", "awb2"}
    Clerk = {c1, c2}
    Hook = {h1, h2}
    Report <- FullJourney
    MaxFaults = 1
    h1 = h1
    h2 = h2
    c1 = c1
    c2 = c2
INVARIANTS OneLiveShipment CancelledIsNotShipped StatusCaughtUp
PROPERTIES NeverRegresses DatedOnce
SYMMETRY Alike
CHECK_DEADLOCK FALSE
