SPECIFICATION Spec
CONSTANTS
    Person = {p1, p2}
    p1 = p1
    p2 = p2
    Session = {w1, w2}
    w1 = w1
    w2 = w2
    NoOne = NoOne
    Capacity = 1
    Attempts = 2
    MaxBatch = 2
    MaxManual = 1
    MaxJobs = 1
    LastPhase = 2
INVARIANTS OneFilling FilledOnce CountersAddUp
SYMMETRY Alike
VIEW WithoutLostCounters
CHECK_DEADLOCK FALSE
