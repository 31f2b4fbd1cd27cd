----------------------------- MODULE MCValidation ----------------------------
(***************************************************************************)
(* Validation on a small grid.  The vertices of the fences have even       *)
(* coordinates, so that waypoints fall between them as well as on them.    *)
(***************************************************************************)
EXTENDS Validation, Functions

Grid     == [lon : 0 .. 4, lat : 0 .. 4]
Vertices == {p \in Grid : p.lon % 2 = 0 /\ p.lat % 2 = 0}
Origin   == [lon |-> 0, lat |-> 0]

\* Triangles and quadrilaterals, in both directions, crossing themselves or not;
\* and the triangles as a closed ring.
Triangles == {<<Origin, a, b>> : a, b \in Vertices}
Quads     == {f \in {<<Origin, a, b, c>> : a, b, c \in Vertices} : IsInjective(f)}
Closed    == {f \o <<Origin>> : f \in Triangles}

Convex == {f \in Triangles \cup Quads :
              \E side \in {-1, 1} : ConvexTo(f, side) /\ \E p \in Grid : InFan(p, f)}

Plan(fence, route, remote_id, airspace) ==
    [fence |-> fence, route |-> route, max_altitude |-> 1,
     remote_id |-> remote_id, airspace |-> airspace]

At(p, alt) == [at |-> p, alt |-> alt]

Nominal == [health |-> "nominal", age |-> 0]

\* One waypoint and any fence.
Places ==
    {[plan |-> Plan(f, <<At(p, 1)>>, "active", "authorized"), sample |-> Nominal] :
        f \in Triangles \cup Quads \cup Closed, p \in Grid}

\* A leg and a convex fence.
Legs ==
    {[plan |-> Plan(f, <<At(p, 1), At(q, 1)>>, "active", "authorized"), sample |-> Nominal] :
        f \in Convex, p, q \in Grid}

\* One place inside, with any altitude, telemetry and papers.
Papers ==
    {[plan |-> Plan(<<Origin, [lon |-> 4, lat |-> 0], [lon |-> 0, lat |-> 4]>>,
                    <<At([lon |-> 1, lat |-> 1], 1), At([lon |-> 1, lat |-> 1], alt)>>, r, a),
      sample |-> s] :
        alt \in 0 .. 2, s \in Samples \cup {NoSample},
        r \in {"not_required", "active", "missing"}, a \in {"not_required", "authorized", "missing"}}

MCCases == {Places, Legs, Papers}

=============================================================================
