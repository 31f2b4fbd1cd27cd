CONSTANTS
    Freshness = 1
    Timeout = 1
    ComplianceEnabled = TRUE
    Cases <- MCCases
SPECIFICATION ValidationSpec
INVARIANTS
    ContainmentIsExact
    PassedStaysInside
    PassedIsNotReturned
CHECK_DEADLOCK FALSE
