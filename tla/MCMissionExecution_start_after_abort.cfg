CONSTANTS
    m1 = m1
    r1 = r1
    Missions = {m1}
    Requests = {r1}
    Findings = {"none"}
    VehicleMayFail = FALSE
    ArchiveMayFail = FALSE
    ArchiveOnCompletion = TRUE
SPECIFICATION Spec
PROPERTY StartRespectsOperator
CHECK_DEADLOCK FALSE
