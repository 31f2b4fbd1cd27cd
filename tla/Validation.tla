------------------------------ MODULE Validation -----------------------------
(***************************************************************************)
(* services/validation.py: the checks a mission passes before its          *)
(* approval.  validate() suspends nowhere, so it is one action; what it    *)
(* reads is the mission and the last telemetry sample of its vehicle.      *)
(*                                                                         *)
(* Coordinates and altitudes are integers, and the quotient of the ray     *)
(* casting is compared without rounding.  Of the regulatory block there is *)
(* what the checks tell apart.                                             *)
(***************************************************************************)
EXTENDS SafetyGuard, Integers, FiniteSets, Sequences

CONSTANTS
    Cases,             \* sets of missions, each with the sample the telemetry cache
                       \* holds for its vehicle
    ComplianceEnabled  \* compliance_enabled

Points == [lon : Int, lat : Int]

\* The fields of Geofence, Route, Constraints and Regulatory that are looked at.
IsPlan(m) ==
    /\ m.fence \in Seq(Points) /\ Len(m.fence) >= 3
    /\ m.route \in Seq([at : Points, alt : Int]) /\ m.route # <<>>
    /\ m.max_altitude \in Int
    /\ m.remote_id \in {"not_required", "active", "missing"}
    /\ m.airspace \in {"not_required", "authorized", "missing"}

ASSUME ValidationAssumption ==
    /\ ComplianceEnabled \in BOOLEAN
    /\ \A family \in Cases : \A c \in family : IsPlan(c.plan) /\ c.sample \in Samples \cup {NoSample}

VARIABLES
    plan,    \* the mission
    sample,  \* the telemetry cache for its vehicle
    result   \* MissionRecord.validation_result

validationVars == <<plan, sample, result>>

NoResult == [passed |-> FALSE, checks |-> {}]

ValidationInit ==
    /\ \E family \in Cases : \E c \in family : plan = c.plan /\ sample = c.sample
    /\ result = NoResult

-----------------------------------------------------------------------------
(* The geofence.                                                           *)

\* Mutant: the two ends of an edge are compared differently.
CrossesMixed(p, a, b) ==
    /\ (a.lat > p.lat) # (b.lat >= p.lat)
    /\ LET run  == (p.lon - a.lon) * (b.lat - a.lat)
           rise == (b.lon - a.lon) * (p.lat - a.lat)
       IN  IF b.lat > a.lat THEN run < rise ELSE run > rise

\* The ray from p to the east meets the edge from a to b: its ends are on either
\* side of the ray, and p is west of where the edge meets it.
Crosses(p, a, b) ==
    /\ (a.lat > p.lat) # (b.lat > p.lat)
    /\ LET run  == (p.lon - a.lon) * (b.lat - a.lat)
           rise == (b.lon - a.lon) * (p.lat - a.lat)
       IN  IF b.lat > a.lat THEN run < rise ELSE run > rise

\* The vertex before the i-th; the ring is closed whether or not it repeats its first.
Before(fence, i) == IF i = 1 THEN fence[Len(fence)] ELSE fence[i - 1]

Crossings(p, fence) == {i \in 1 .. Len(fence) : Crosses(p, fence[i], Before(fence, i))}

\* _point_in_polygon: `inside` is toggled at each crossing.
PointInPolygon(p, fence) == Cardinality(Crossings(p, fence)) % 2 = 1

-----------------------------------------------------------------------------
(* The checks.                                                             *)

Outcome(name, status) == {[name |-> name, status |-> status]}

FailsIf(condition) == IF condition THEN "failed" ELSE "passed"

\* Mutant: the verdict on the last waypoint is the verdict on the route.
GeofenceOfLast(m) ==
    Outcome("geofence_containment",
            FailsIf(~ PointInPolygon(m.route[Len(m.route)].at, m.fence)))

\* The first waypoint outside fails the check and ends the loop.
Geofence(m) ==
    Outcome("geofence_containment",
            FailsIf(\E i \in DOMAIN m.route : ~ PointInPolygon(m.route[i].at, m.fence)))

Altitude(m) ==
    Outcome("altitude_limit", FailsIf(\E i \in DOMAIN m.route : m.route[i].alt > m.max_altitude))

\* Mutant: a low battery is a warning, as a missing one is.
TelemetryWarnsOfBattery(s) ==
    Outcome("battery_threshold", IF s.health = "nominal" THEN "passed" ELSE "warning")
        \cup Outcome("telemetry_freshness",
                     IF s = NoSample THEN "warning" ELSE FailsIf(s.age > Freshness))

\* Battery and freshness of the sample; without one, two warnings.
Telemetry(s) ==
    Outcome("battery_threshold",
            IF s = NoSample THEN "warning" ELSE FailsIf(s.health = "low_battery"))
        \cup Outcome("telemetry_freshness",
                     IF s = NoSample THEN "warning" ELSE FailsIf(s.age > Freshness))

RemoteId(m) ==
    IF m.remote_id = "not_required" THEN {}
    ELSE Outcome("remote_id_compliance", FailsIf(m.remote_id = "missing"))

Airspace(m) ==
    IF m.airspace = "not_required" THEN {}
    ELSE Outcome("airspace_authorization",
                 IF m.airspace = "missing" THEN "warning" ELSE "passed")

Checks(m, s) ==
    Geofence(m) \cup Altitude(m) \cup Telemetry(s)
        \cup (IF ComplianceEnabled THEN RemoteId(m) \cup Airspace(m) ELSE {})

Passed(checks) == \A c \in checks : c.status # "failed"

Validates ==
    /\ result = NoResult
    /\ result' = [passed |-> Passed(Checks(plan, sample)), checks |-> Checks(plan, sample)]
    /\ UNCHANGED <<plan, sample>>

ValidationSpec == ValidationInit /\ [][Validates]_validationVars

-----------------------------------------------------------------------------
(* Properties.  The reference for the geometry is the orientation of three *)
(* points, and triangles in the place of edges.                            *)

\* Positive if p is to the left of the way from a to b, zero on its line.
Turn(a, b, p) == (b.lon - a.lon) * (p.lat - a.lat) - (b.lat - a.lat) * (p.lon - a.lon)

\* To the left of the way from a to b is the place a hair to the east of p and a
\* hair of that hair to the north, which is on the line of no two points.
Left(a, b, p) ==
    \/ Turn(a, b, p) > 0
    \/ Turn(a, b, p) = 0 /\ (b.lat < a.lat \/ (b.lat = a.lat /\ b.lon > a.lon))

Within(p, a, b, c) ==
    \/ Left(a, b, p) /\ Left(b, c, p) /\ Left(c, a, p)
    \/ Left(b, a, p) /\ Left(c, b, p) /\ Left(a, c, p)

\* That place is in an odd number of the triangles that fan out from the first vertex.
InFan(p, fence) ==
    Cardinality({i \in 3 .. Len(fence) : Within(p, fence[1], fence[i - 1], fence[i])}) % 2 = 1

\* The geofence verdict is the geometry's: the check passes exactly if every
\* waypoint is inside the fence, whichever way round and from whichever vertex the
\* ring is given, convex or not, closed or not, and wherever the ray goes.  A
\* waypoint on the fence itself counts to what is east of it or, on an edge from
\* west to east, to what is north (validation.py:15-27, 39-51).
ContainmentIsExact ==
    result # NoResult =>
        ([name |-> "geofence_containment", status |-> "passed"] \in result.checks
            <=> \A i \in DOMAIN plan.route : InFan(plan.route[i].at, plan.fence))

\* Every vertex is on one side of every edge, or on its line.
OneSide(fence, p, side) == \A i \in DOMAIN fence : side * Turn(Before(fence, i), fence[i], p) >= 0

ConvexTo(fence, side) == \A i \in DOMAIN fence : OneSide(fence, fence[i], side)

\* The integer points from p to q.
Leg(p, q) ==
    LET between(i, x, j) == (i <= x /\ x <= j) \/ (j <= x /\ x <= i)
        span(i, j) == {x \in (i .. j) \cup (j .. i) : between(i, x, j)}
    IN  {x \in [lon : span(p.lon, q.lon), lat : span(p.lat, q.lat)] : Turn(p, q, x) = 0}

\* Only the waypoints are checked, and what is flown are the legs: on a route
\* that passed, no point of a leg is outside a convex fence, and no point on the
\* fence itself is taken for one inside of another (validation.py:39-51).
PassedStaysInside ==
    result.passed =>
        \A side \in {-1, 1} : ConvexTo(plan.fence, side) =>
            \A i \in 1 .. Len(plan.route) - 1 :
                \A p \in Leg(plan.route[i].at, plan.route[i + 1].at) : OneSide(plan.fence, p, side)

\* Validation and guard agree on the telemetry they both look at: a mission that
\* passed on a sample is not sent home or held up by the guard for the same
\* sample.  Link quality and estimator are looked at by the guard only, and
\* without a sample validation warns where the guard blocks
\* (validation.py:73-109, safety_guard.py:25-61).
PassedIsNotReturned ==
    result.passed /\ sample # NoSample /\ sample.health # "unsound" => Check(sample, 0) = "none"

=============================================================================
