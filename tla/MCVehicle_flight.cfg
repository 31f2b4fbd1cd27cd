CONSTANTS
    m1 = m1
    r1 = r1
    r2 = r2
    r3 = r3
    Missions = {m1}
    Requests = {r1, r2, r3}
    Findings = {"none", "timeout"}
    VehicleMayFail = TRUE
    ArchiveMayFail = TRUE
    ArchiveOnCompletion = TRUE
    Waypoints = 2
SPECIFICATION FairVehicleSpec
INVARIANTS
    TypeOK
    ResumingIsOwned
    ArchiveIsFinal
    AnnouncedMatchesState
    TaskMatchesState
    VehicleTypeOK
    OrdersAgree
PROPERTIES
    NoSecondExecutor
    ExecutorNeverAbandons
    StagingResolves
    ResumingResolves
    ExecutorWindsDown
    SafetyCommandsLand
