SPECIFICATION Spec
CONSTANTS
    Line = {"l1"}
    Api = {"a1", "a2"}
    Cron = {"c1"}
    Targets = {"PROCESSING", "CANCELLED"}
    Ttl = 2
    StaleAfter = 3
    MaxAge = 4
    MaxAborts = 0
INVARIANTS
    PaidOrderHasStock
    CancelReturnsStock
    CronSparesPaidOrders
    NoLockCycle
