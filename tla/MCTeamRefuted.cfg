SPECIFICATION Spec
CONSTANTS
    Member = {m1, m2}
    m1 = m1
    m2 = m2
    Teams = {t1, t2}
    t1 = t1
    t2 = t2
    NoTeam = NoTeam
    Session = {w1, w2}
    w1 = w1
    w2 = w2
    NoOne = NoOne
    MaxSize = 1
    Dept = {d1}
    d1 = d1
    NoDept = NoDept
    MaxRequests = 1
INVARIANTS
    NeverOverfilled
    DepartmentOnce
    CountTellsMembers
PROPERTIES
    FrozenOnceLocked
    LockedIsComplete
    VerdictStays
SYMMETRY Alike
CHECK_DEADLOCK FALSE
