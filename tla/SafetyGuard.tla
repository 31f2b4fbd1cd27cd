----------------------------- MODULE SafetyGuard -----------------------------
(***************************************************************************)
(* services/safety_guard.py: what the monitor loop of a mission is told of *)
(* the last telemetry sample of its vehicle and of the time since staging. *)
(* The module declares no variable.  Ages and times count ticks and stop   *)
(* at the first value that is over the limit: nothing tells later ones     *)
(* apart.                                                                  *)
(***************************************************************************)
EXTENDS Naturals

CONSTANTS
    Freshness,  \* constraints.telemetry_freshness_ms
    Timeout     \* constraints.mission_timeout_s

ASSUME GuardAssumption == {Freshness, Timeout} \subseteq Nat

\* The health of a vehicle: battery, link quality and estimator are within their
\* limits, or the battery is below the mission's, or else one of the others is not.
Healths == {"nominal", "low_battery", "unsound"}

\* What the telemetry cache may hold for a vehicle.
NoSample == [health |-> "none", age |-> 0]
Samples  == [health : Healths, age : 0 .. Freshness + 1]

\* One tick later.
Older(age, limit) == IF age > limit THEN age ELSE age + 1

\* Mutant: the freshness is looked at first.
CheckFreshnessFirst(sample, elapsed) ==
    IF sample = NoSample \/ sample.age > Freshness THEN "blocked"
    ELSE IF sample.health # "nominal" THEN "degraded"
    ELSE IF elapsed > Timeout THEN "timeout"
    ELSE "none"

\* Mutant: weak links and bad estimators get a prefix the executor does not know.
CheckRenamed(sample, elapsed) ==
    IF sample = NoSample THEN "blocked"
    ELSE IF sample.health # "nominal" THEN "warning"
    ELSE IF sample.age > Freshness THEN "blocked"
    ELSE IF elapsed > Timeout THEN "timeout"
    ELSE "none"

\* SafetyGuard.check: the first violation in the order of the code, or none.
Check(sample, elapsed) ==
    IF sample = NoSample THEN "blocked"
    ELSE IF sample.health # "nominal" THEN "degraded"
    ELSE IF sample.age > Freshness THEN "blocked"
    ELSE IF elapsed > Timeout THEN "timeout"
    ELSE "none"

=============================================================================
