SPECIFICATION EquitySpec
CONSTANTS
    Founder = {f1}
    Platform = platform
    Session = {w1, w2}
    f1 = f1
    platform = platform
    NoOne = NoOne
    w1 = w1
    w2 = w2
    PlatformUnits = 1
    FounderUnits = 2
    Cliff = 1
    Duration = 3
    Month = 2
    Amount = {1}
    MaxDay = 3
    AdminStatus = {"ACTIVE", "SUSPENDED"}
    MaxEvents = 4
INVARIANTS
    VestedWithin
PROPERTIES
    TimerStartsOnce
    AuditIsOfItsTime
    HandoverVestsInFull
CHECK_DEADLOCK FALSE
