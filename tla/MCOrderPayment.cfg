SPECIFICATION FairSpec
CONSTANTS
    Line = {"l1", "l2"}
    Api = {"a1", "a2"}
    Cron = {"c1"}
    Targets = {"PROCESSING", "SHIPPED", "CANCELLED"}
    Ttl = 2
    StaleAfter = 3
    MaxAge = 4
    MaxAborts = 1
INVARIANTS
    HoldsEndWithPending
    SoldOnce
    PaidLosesOnlyExpired
PROPERTIES
    PaidCancelReturnsStock
    PendingEnds
