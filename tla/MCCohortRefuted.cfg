SPECIFICATION Spec
CONSTANTS
    Person = {p1, p2, p3}
    p1 = p1
    p2 = p2
    p3 = p3
    Session = {w1, w2}
    w1 = w1
    w2 = w2
    NoOne = NoOne
    Capacity = 2
    Attempts = 2
    MaxBatch = 2
    MaxManual = 0
    MaxJobs = 2
    LastPhase = 3
INVARIANTS
    CohortSize
    SeatsRefilled
PROPERTIES
    FlippedWasFull
    PhasesInOrder
    ScreeningSparesRemoved
SYMMETRY Alike
VIEW WithoutLostCounters
CHECK_DEADLOCK FALSE
