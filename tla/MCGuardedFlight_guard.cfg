CONSTANTS
    m1 = m1
    r1 = r1
    Missions = {m1}
    Requests = {r1}
    Findings = {"none", "blocked", "degraded", "timeout"}
    VehicleMayFail = TRUE
    ArchiveMayFail = TRUE
    ArchiveOnCompletion = TRUE
    Freshness = 1
    Timeout = 1
    ReadsMayFail = TRUE
SPECIFICATION FairGuardedSpec
INVARIANT
    GuardedTypeOK
PROPERTIES
    RecordClosedAtExport
    ImpairmentActs
    TimeoutActs
    CollectorStops
