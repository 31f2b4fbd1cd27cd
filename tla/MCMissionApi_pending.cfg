CONSTANTS
    m1 = m1
    r1 = r1
    r2 = r2
    q1 = q1
    q2 = q2
    k1 = k1
    NoKey = NoKey
    Missions = {m1}
    Requests = {r1, r2}
    Reviewers = {q1, q2}
    Keys = {k1}
    Statuses = {"approved", "rejected", "pending"}
    Findings = {"none", "degraded"}
    VehicleMayFail = TRUE
    ArchiveMayFail = TRUE
    ArchiveOnCompletion = TRUE
SPECIFICATION ApiSpec
SYMMETRY MCSymmetry
INVARIANT ApprovedByChimera
