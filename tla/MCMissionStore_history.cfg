CONSTANTS
    m1 = m1
    m2 = m2
    Missions = {m1, m2}
    MaxEntries = 12
SPECIFICATION Spec
SYMMETRY MCSymmetry
INVARIANTS
    TypeOK
    TimelineIsHistory
    StagedOnce
PROPERTY HistoryIsKept
CHECK_DEADLOCK FALSE
