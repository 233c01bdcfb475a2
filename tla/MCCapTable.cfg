SPECIFICATION EquitySpec
CONSTANTS
    Founder = {f1, f2}
    Platform = platform
    Session = {w1, w2}
    f1 = f1
    f2 = f2
    platform = platform
    NoOne = NoOne
    w1 = w1
    w2 = w2
    PlatformUnits = 3
    FounderUnits = 3
    Cliff = 1
    Duration = 1
    Month = 1
    Amount = {3}
    MaxDay = 1
    AdminStatus = {"ACTIVE", "SUSPENDED"}
    MaxEvents = 4
INVARIANTS TableSums AuditExplainsTable
PROPERTY DilutionIsFair
SYMMETRY Alike
VIEW WithoutVesting
CHECK_DEADLOCK FALSE
