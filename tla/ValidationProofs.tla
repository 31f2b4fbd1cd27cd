--------------------------- MODULE ValidationProofs --------------------------
(***************************************************************************)
(* What a validation means, for every mission and every sample: fences of  *)
(* any number of vertices and of any shape, routes of any length.          *)
(***************************************************************************)
EXTENDS Validation, FiniteSetTheorems, WellFoundedInduction, TLAPS

\* What the result stands for.
ResultIsOfCase ==
    /\ IsPlan(plan)
    /\ sample \in Samples \cup {NoSample}
    /\ result # NoResult =>
          result = [passed |-> Passed(Checks(plan, sample)), checks |-> Checks(plan, sample)]

LEMMA ResultInvariant == ValidationSpec => []ResultIsOfCase
<1>1. ValidationInit => ResultIsOfCase
  BY ValidationAssumption DEF ValidationInit, ResultIsOfCase, NoResult
<1>2. ResultIsOfCase /\ [Validates]_validationVars => ResultIsOfCase'
  <2> SUFFICES ASSUME ResultIsOfCase, [Validates]_validationVars
               PROVE  ResultIsOfCase'
    OBVIOUS
  <2>1. UNCHANGED <<plan, sample>>
    BY DEF Validates, validationVars
  <2>2. result' # NoResult =>
          result' = [passed |-> Passed(Checks(plan, sample)), checks |-> Checks(plan, sample)]
    <3>1. CASE Validates
      BY <3>1 DEF Validates
    <3>2. CASE UNCHANGED validationVars
      BY <3>2 DEF ResultIsOfCase, validationVars
    <3> QED
      BY <3>1, <3>2
  <2> QED
    BY <2>1, <2>2 DEF ResultIsOfCase
<1> QED
  BY <1>1, <1>2, PTL DEF ValidationSpec

\* What a mission that passed has passed.
LEMMA PassedResult ==
    ASSUME ResultIsOfCase, result.passed
    PROVE  /\ Passed(Checks(plan, sample))
           /\ \A i \in DOMAIN plan.route : PointInPolygon(plan.route[i].at, plan.fence)
<1>1. Passed(Checks(plan, sample))
  BY DEF ResultIsOfCase, NoResult
<1>2. \A c \in Geofence(plan) : c.status # "failed"
  BY <1>1 DEF Passed, Checks
<1>3. FailsIf(\E i \in DOMAIN plan.route :
                 ~ PointInPolygon(plan.route[i].at, plan.fence)) # "failed"
  BY <1>2 DEF Geofence, Outcome
<1> QED
  BY <1>1, <1>3 DEF FailsIf

LEMMA ElementIn == ASSUME NEW S, NEW s \in Seq(S), NEW i \in DOMAIN s PROVE s[i] \in S
OBVIOUS

LEMMA PlanType ==
    ASSUME ResultIsOfCase
    PROVE  /\ plan.fence \in Seq(Points) /\ Len(plan.fence) >= 3
           /\ \A i \in DOMAIN plan.route : plan.route[i].at \in Points
<1>1. plan.route \in Seq([at : Points, alt : Int])
  BY DEF ResultIsOfCase, IsPlan
<1>2. \A i \in DOMAIN plan.route : plan.route[i] \in [at : Points, alt : Int]
  BY <1>1, ElementIn
<1> QED
  BY <1>2 DEF ResultIsOfCase, IsPlan

-----------------------------------------------------------------------------

\* Validation and guard agree on a sample, whatever the limits of the mission and
\* whatever else was checked (validation.py:73-109, safety_guard.py:25-61).
THEOREM ValidationAgreesWithGuard == ValidationSpec => []PassedIsNotReturned
<1>1. ResultIsOfCase => PassedIsNotReturned
  <2> SUFFICES ASSUME ResultIsOfCase, result.passed, sample # NoSample, sample.health # "unsound"
               PROVE  Check(sample, 0) = "none"
    BY DEF PassedIsNotReturned
  <2>1. sample \in Samples /\ Passed(Checks(plan, sample))
    BY PassedResult DEF ResultIsOfCase
  <2>2. Telemetry(sample) \subseteq Checks(plan, sample)
    BY DEF Checks
  <2>3. \A c \in Telemetry(sample) : c.status # "failed"
    BY <2>1, <2>2 DEF Passed
  <2>4. FailsIf(sample.health = "low_battery") # "failed"
    BY <2>3 DEF Telemetry, Outcome
  <2>5. FailsIf(sample.age > Freshness) # "failed"
    BY <2>3 DEF Telemetry, Outcome
  <2>6. sample.health = "nominal" /\ ~ (sample.age > Freshness)
    BY <2>1, <2>4, <2>5 DEF FailsIf, Samples, Healths
  <2>7. ~ (0 > Timeout)
    BY GuardAssumption
  <2> QED
    BY <2>6, <2>7 DEF Check
<1> QED
  BY <1>1, ResultInvariant, PTL

-----------------------------------------------------------------------------

LEMMA ProductsGrow ==
    ASSUME NEW x \in Int, NEW y \in Int, NEW t \in Int, x <= y, t >= 0
    PROVE  x * t <= y * t
<1>1. (y - x) * t >= 0
  BY SMT
<1>2. (y - x) * t = y * t - x * t
  BY SMT
<1> QED
  BY <1>1, <1>2, SMT

\* An edge that the ray from p meets has an end south of p or level with it, one
\* north of it, and one east of it.
LEMMA EdgeAround ==
    ASSUME NEW p \in Points, NEW a \in Points, NEW b \in Points, Crosses(p, a, b)
    PROVE  /\ \/ a.lat <= p.lat /\ b.lat > p.lat
              \/ b.lat <= p.lat /\ a.lat > p.lat
           /\ a.lon > p.lon \/ b.lon > p.lon
<1>1. /\ p.lon \in Int /\ p.lat \in Int /\ a.lon \in Int /\ a.lat \in Int
      /\ b.lon \in Int /\ b.lat \in Int
  BY DEF Points
<1> DEFINE run  == (p.lon - a.lon) * (b.lat - a.lat)
           rise == (b.lon - a.lon) * (p.lat - a.lat)
<1>2. /\ (a.lat > p.lat) # (b.lat > p.lat)
      /\ b.lat > a.lat => run < rise
      /\ ~ b.lat > a.lat => run > rise
  BY DEF Crosses
<1>3. \/ a.lat <= p.lat /\ b.lat > p.lat
      \/ b.lat <= p.lat /\ a.lat > p.lat
  BY <1>1, <1>2
<1>4. ASSUME a.lon <= p.lon, b.lon <= p.lon
      PROVE  FALSE
  <2>1. CASE a.lat <= p.lat /\ b.lat > p.lat
    <3>1. (b.lon - a.lon) * (p.lat - a.lat) <= (p.lon - a.lon) * (p.lat - a.lat)
      BY <1>1, <1>4, <2>1, ProductsGrow
    <3>2. (p.lat - a.lat) * (p.lon - a.lon) <= (b.lat - a.lat) * (p.lon - a.lon)
      BY <1>1, <1>4, <2>1, ProductsGrow
    <3>3. run < rise
      BY <1>1, <1>2, <2>1
    <3> QED
      BY <1>1, <3>1, <3>2, <3>3, SMT
  <2>2. CASE b.lat <= p.lat /\ a.lat > p.lat
    <3>1. (b.lon - a.lon) * (a.lat - p.lat) <= (p.lon - a.lon) * (a.lat - p.lat)
      BY <1>1, <1>4, <2>2, ProductsGrow
    <3>2. (a.lat - p.lat) * (p.lon - a.lon) <= (a.lat - b.lat) * (p.lon - a.lon)
      BY <1>1, <1>4, <2>2, ProductsGrow
    <3>3. run > rise
      BY <1>1, <1>2, <2>2
    <3> QED
      BY <1>1, <3>1, <3>2, <3>3, SMT
  <2> QED
    BY <1>3, <2>1, <2>2
<1> QED
  BY <1>1, <1>3, <1>4

\* A waypoint inside a fence has a vertex south of it or level with it, one north
\* of it and one east of it.
LEMMA InsideIsWithinReach ==
    ASSUME NEW p \in Points, NEW fence \in Seq(Points), Len(fence) >= 3, PointInPolygon(p, fence)
    PROVE  \E i, j, k \in DOMAIN fence :
               fence[i].lat <= p.lat /\ fence[j].lat > p.lat /\ fence[k].lon > p.lon
<1>1. Crossings(p, fence) # {}
  <2>1. SUFFICES ASSUME Crossings(p, fence) = {}
                 PROVE  FALSE
    OBVIOUS
  <2>2. Cardinality(Crossings(p, fence)) = 0
    BY <2>1, FS_EmptySet, Zenon
  <2> QED
    BY <2>2 DEF PointInPolygon
<1>2. PICK i \in DOMAIN fence : Crosses(p, fence[i], Before(fence, i))
  BY <1>1 DEF Crossings
<1>3. PICK j \in DOMAIN fence : Before(fence, i) = fence[j]
  BY <1>2 DEF Before
<1>4. fence[i] \in Points /\ fence[j] \in Points
  BY <1>2, <1>3
<1> QED
  BY <1>2, <1>3, <1>4, EdgeAround

\* A mission with a waypoint north, south or east of its whole fence never passes,
\* whatever the shape of the fence (validation.py:15-27, 39-51).
RouteWithinReach ==
    result.passed =>
        \A w \in DOMAIN plan.route : \E i, j, k \in DOMAIN plan.fence :
            /\ plan.fence[i].lat <= plan.route[w].at.lat
            /\ plan.fence[j].lat > plan.route[w].at.lat
            /\ plan.fence[k].lon > plan.route[w].at.lon

\* No polygon of any size lets a far waypoint through: the parity of the ray's
\* crossings is odd only if it meets an edge at all (validation.py:15-27).
THEOREM PassedIsWithinReach == ValidationSpec => []RouteWithinReach
<1>1. ResultIsOfCase => RouteWithinReach
  <2> SUFFICES ASSUME ResultIsOfCase, result.passed, NEW w \in DOMAIN plan.route
               PROVE  \E i, j, k \in DOMAIN plan.fence :
                          /\ plan.fence[i].lat <= plan.route[w].at.lat
                          /\ plan.fence[j].lat > plan.route[w].at.lat
                          /\ plan.fence[k].lon > plan.route[w].at.lon
    BY DEF RouteWithinReach
  <2> QED
    BY PassedResult, PlanType, InsideIsWithinReach
<1> QED
  BY <1>1, ResultInvariant, PTL

-----------------------------------------------------------------------------
(* Parity.                                                                 *)

\* Every set of natural numbers that is not empty has a least one: what the
\* inductions below are built on.
LEMMA LeastNat ==
    ASSUME NEW T \in SUBSET Nat, T # {}
    PROVE  \E n \in T : \A k \in T : n <= k
<1> DEFINE R == OpToRel(<, Nat)
<1>1. \A k, n \in Nat : k < n => <<k, n>> \in R
  BY DEF OpToRel
<1>2. IsWellFoundedOn(R, Nat)
  BY NatLessThanWellFounded
<1> HIDE DEF R
<1>3. PICK n \in T : \A k \in T : ~ (<<k, n>> \in R)
  BY <1>2, WFMin
<1>4. \A k \in T : ~ (k < n) /\ k \in Nat /\ n \in Nat
  BY <1>1, <1>3
<1> QED
  BY <1>4

\* S has an odd number of members.
Odd(S) == Cardinality(S) % 2 = 1

LEMMA OddEmpty == ~ Odd({})
BY FS_EmptySet DEF Odd

LEMMA OddSingleton == ASSUME NEW x PROVE IsFiniteSet({x}) /\ Odd({x})
<1>1. IsFiniteSet({x}) /\ Cardinality({x}) = 1
  BY FS_Singleton
<1> QED
  BY <1>1 DEF Odd

\* The parity of the members that are in one of two sets and not in both.
LEMMA OddDifference ==
    ASSUME NEW S, NEW T, IsFiniteSet(S), IsFiniteSet(T)
    PROVE  /\ IsFiniteSet((S \ T) \cup (T \ S))
           /\ Odd((S \ T) \cup (T \ S)) <=> ~ (Odd(S) <=> Odd(T))
<1> DEFINE s == Cardinality(S)
           t == Cardinality(T)
           both == Cardinality(S \cap T)
<1>1. /\ IsFiniteSet(S \ T) /\ Cardinality(S \ T) = s - both
      /\ IsFiniteSet(T \ S) /\ Cardinality(T \ S) = t - Cardinality(T \cap S)
  BY FS_Difference
<1>2. T \cap S = S \cap T /\ (S \ T) \cap (T \ S) = {}
  OBVIOUS
<1>3. s \in Nat /\ t \in Nat /\ both \in Nat
  BY FS_CardinalityType, FS_Intersection
<1>4. /\ IsFiniteSet((S \ T) \cup (T \ S))
      /\ Cardinality((S \ T) \cup (T \ S)) = (s - both) + (t - both) - 0
  <2>1. /\ IsFiniteSet((S \ T) \cup (T \ S))
        /\ Cardinality((S \ T) \cup (T \ S))
             = Cardinality(S \ T) + Cardinality(T \ S) - Cardinality((S \ T) \cap (T \ S))
    BY <1>1, FS_Union
  <2> QED
    BY <1>1, <1>2, <2>1, FS_EmptySet
<1>5. ((s - both) + (t - both) - 0) % 2 = 1 <=> (s % 2 = 1) # (t % 2 = 1)
  BY <1>3
<1> QED
  BY <1>4, <1>5 DEF Odd

LEMMA OddUnion ==
    ASSUME NEW S, NEW T, IsFiniteSet(S), IsFiniteSet(T), S \cap T = {}
    PROVE  Odd(S \cup T) <=> ~ (Odd(S) <=> Odd(T))
<1>1. S \cup T = (S \ T) \cup (T \ S)
  OBVIOUS
<1> QED
  BY <1>1, OddDifference

\* Where, on the way from 2 to n, one enters or leaves B.
Changes(B, n) == {i \in 2 .. n : (i \in B) # (i - 1 \in B)}

LEMMA ChangesAreFinite == ASSUME NEW B, NEW n \in Nat PROVE IsFiniteSet(Changes(B, n))
<1>1. IsFiniteSet(2 .. n)
  BY FS_Interval
<1> QED
  BY <1>1, FS_Subset DEF Changes

\* One enters and leaves B an even number of times if one ends up where one began.
LEMMA OddChanges ==
    ASSUME NEW B, NEW n \in Nat \ {0}
    PROVE  Odd(Changes(B, n)) <=> ~ (n \in B <=> 1 \in B)
<1> DEFINE P(k) == Odd(Changes(B, k)) <=> ~ (k \in B <=> 1 \in B)
<1>1. SUFFICES ASSUME ~ P(n) PROVE FALSE
  OBVIOUS
<1> DEFINE T == {k \in Nat \ {0} : ~ P(k)}
<1>2. PICK k \in T : \A j \in T : k <= j
  <2>1. T \in SUBSET Nat /\ n \in T
    BY <1>1
  <2> QED
    BY <2>1, LeastNat
<1>3. k \in Nat \ {0} /\ ~ P(k)
  BY <1>2
<1>4. CASE k = 1
  <2>1. Changes(B, 1) = {}
    BY DEF Changes
  <2> QED
    BY <1>3, <1>4, <2>1, OddEmpty
<1>5. CASE k # 1
  <2>1. k - 1 \in Nat \ {0} /\ k \in 2 .. k
    BY <1>3, <1>5
  <2>2. P(k - 1)
    <3>1. k - 1 \notin T
      BY <1>2, <1>3, <2>1
    <3> QED
      BY <2>1, <3>1
  <2> DEFINE old == Changes(B, k - 1)
  <2>3. old \cap {k} = {} /\ IsFiniteSet(old) /\ IsFiniteSet({k}) /\ Odd({k})
    <3>1. IsFiniteSet(old)
      BY <2>1, ChangesAreFinite
    <3>2. k \notin old
      BY <2>1 DEF Changes
    <3> QED
      BY <3>1, <3>2, OddSingleton
  <2>4. CASE (k \in B) # (k - 1 \in B)
    <3>1. Changes(B, k) = old \cup {k}
      BY <1>3, <2>1, <2>4 DEF Changes
    <3>2. Odd(Changes(B, k)) <=> ~ Odd(old)
      BY <2>3, <3>1, OddUnion
    <3> QED
      BY <1>3, <2>2, <2>4, <3>2
  <2>5. CASE (k \in B) <=> (k - 1 \in B)
    <3>1. Changes(B, k) = old
      BY <1>3, <2>1, <2>5 DEF Changes
    <3> QED
      BY <1>3, <2>2, <2>5, <3>1
  <2> QED
    BY <2>4, <2>5
<1> QED
  BY <1>4, <1>5

-----------------------------------------------------------------------------
(* Edges, lines and triangles.                                             *)

LEMMA TurnType ==
    ASSUME NEW a \in Points, NEW b \in Points, NEW p \in Points
    PROVE  /\ a.lon \in Int /\ a.lat \in Int /\ Turn(a, b, p) \in Int
           /\ Turn(b, a, p) = -Turn(a, b, p)
           /\ a = b => Turn(a, b, p) = 0
BY DEF Points, Turn

\* An edge is crossed if it goes north past p and p is on its left, or south and p
\* is on its right.
LEMMA CrossesByTurn ==
    ASSUME NEW p \in Points, NEW a \in Points, NEW b \in Points
    PROVE  Crosses(p, a, b) <=> \/ a.lat <= p.lat /\ p.lat < b.lat /\ Turn(a, b, p) > 0
                                \/ b.lat <= p.lat /\ p.lat < a.lat /\ Turn(a, b, p) < 0
<1>1. /\ p.lon \in Int /\ p.lat \in Int /\ a.lon \in Int /\ a.lat \in Int
      /\ b.lon \in Int /\ b.lat \in Int
  BY DEF Points
<1> DEFINE run  == (p.lon - a.lon) * (b.lat - a.lat)
           rise == (b.lon - a.lon) * (p.lat - a.lat)
<1>2. run \in Int /\ rise \in Int /\ Turn(a, b, p) = rise - run
  BY <1>1 DEF Turn
<1>3. Crosses(p, a, b) <=> /\ (a.lat > p.lat) # (b.lat > p.lat)
                           /\ IF b.lat > a.lat THEN run < rise ELSE run > rise
  BY DEF Crosses
<1> HIDE DEF run, rise
<1> QED
  BY <1>1, <1>2, <1>3

LEMMA CrossesIsSymmetric ==
    ASSUME NEW p \in Points, NEW a \in Points, NEW b \in Points
    PROVE  Crosses(p, a, b) <=> Crosses(p, b, a)
<1>1. Turn(a, b, p) \in Int /\ Turn(b, a, p) = - Turn(a, b, p)
  BY TurnType
<1>2. a.lat \in Int /\ b.lat \in Int /\ p.lat \in Int
  BY DEF Points
<1> QED
  BY <1>1, <1>2, CrossesByTurn

\* How far north of p the corners of a triangle are, weighted by the sides across.
LEMMA TurnsBalance ==
    ASSUME NEW p \in Points, NEW a \in Points, NEW b \in Points, NEW c \in Points
    PROVE  (a.lat - p.lat) * Turn(b, c, p) + (b.lat - p.lat) * Turn(c, a, p)
             + (c.lat - p.lat) * Turn(a, b, p) = 0
<1> DEFINE Cross(x, y, u, v) == x * v - y * u
<1>1. /\ p.lon \in Int /\ p.lat \in Int /\ a.lon \in Int /\ a.lat \in Int
      /\ b.lon \in Int /\ b.lat \in Int /\ c.lon \in Int /\ c.lat \in Int
  BY DEF Points
<1>2. ASSUME NEW u \in Points, NEW v \in Points
      PROVE  Turn(u, v, p) = (u.lon - p.lon) * (v.lat - p.lat) - (u.lat - p.lat) * (v.lon - p.lon)
  BY SMT DEF Turn, Points
<1>3. ASSUME NEW x \in Int, NEW y \in Int, NEW u \in Int, NEW v \in Int, NEW s \in Int, NEW t \in Int
      PROVE  y * (u * t - v * s) + v * (s * y - t * x) + t * (x * v - y * u) = 0
  BY SMT
<1> QED
  BY <1>1, <1>2, <1>3

\* On the way from v to u, at the height of p: what a linear function is at p, from
\* what it is at the two ends.
LEMMA LinearAtHeight ==
    ASSUME NEW p \in Points, NEW u \in Points, NEW v \in Points, NEW x \in Int, NEW y \in Int,
           NEW z \in Int
    PROVE  LET h(q) == x * q.lon + y * q.lat - z
           IN  (u.lat - v.lat) * h(p) = (p.lat - v.lat) * h(u) + (u.lat - p.lat) * h(v) - x * Turn(v, u, p)
BY SMT DEF Turn, Points

\* The sign of a product.
LEMMA SignOfProduct ==
    ASSUME NEW x \in Int, NEW y \in Int
    PROVE  /\ x * y \in Int
           /\ x > 0 /\ y > 0 => x * y > 0
           /\ x > 0 /\ y < 0 => x * y < 0
           /\ x <= 0 /\ y > 0 => x * y <= 0
           /\ x <= 0 /\ y < 0 => x * y >= 0
           /\ x < 0 /\ y > 0 => x * y < 0
           /\ x < 0 /\ y < 0 => x * y > 0
BY SMT

\* An edge with ends a and b north of the ray, and p at t from it.
Meets(a, b, t) == \/ a <= 0 /\ 0 < b /\ t > 0
                  \/ b <= 0 /\ 0 < a /\ t < 0

LEMMA SignsOfTriangle ==
    ASSUME NEW a \in Int, NEW b \in Int, NEW c \in Int, NEW u \in Int, NEW v \in Int, NEW w \in Int,
           u # 0, v # 0, w # 0, a * v + b * w + c * u = 0, ~ (a = 0 /\ b = 0)
    PROVE  (u > 0 /\ v > 0 /\ w > 0) \/ (u < 0 /\ v < 0 /\ w < 0)
             <=> ((Meets(a, b, u) <=> Meets(b, c, v)) <=> Meets(c, a, w))
<1> DEFINE av == a * v
           bw == b * w
           cu == c * u
<1>1. /\ av \in Int
      /\ a > 0 /\ v > 0 => av > 0
      /\ a > 0 /\ v < 0 => av < 0
      /\ a <= 0 /\ v > 0 => av <= 0
      /\ a <= 0 /\ v < 0 => av >= 0
      /\ a < 0 /\ v > 0 => av < 0
      /\ a < 0 /\ v < 0 => av > 0
  BY SignOfProduct
<1>2. /\ bw \in Int
      /\ b > 0 /\ w > 0 => bw > 0
      /\ b > 0 /\ w < 0 => bw < 0
      /\ b <= 0 /\ w > 0 => bw <= 0
      /\ b <= 0 /\ w < 0 => bw >= 0
      /\ b < 0 /\ w > 0 => bw < 0
      /\ b < 0 /\ w < 0 => bw > 0
  BY SignOfProduct
<1>3. /\ cu \in Int
      /\ c > 0 /\ u > 0 => cu > 0
      /\ c > 0 /\ u < 0 => cu < 0
      /\ c <= 0 /\ u > 0 => cu <= 0
      /\ c <= 0 /\ u < 0 => cu >= 0
  BY SignOfProduct
<1>4. av + bw + cu = 0
  OBVIOUS
<1> HIDE DEF av, bw, cu
<1> QED
  BY <1>1, <1>2, <1>3, <1>4 DEF Meets

\* In a triangle whose sides p is not in line with exactly if an odd number of them
\* is crossed.
LEMMA OffLineParity ==
    ASSUME NEW p \in Points, NEW a \in Points, NEW b \in Points, NEW c \in Points,
           a # b => Turn(a, b, p) # 0, b # c => Turn(b, c, p) # 0, c # a => Turn(c, a, p) # 0
    PROVE  (\/ Turn(a, b, p) > 0 /\ Turn(b, c, p) > 0 /\ Turn(c, a, p) > 0
            \/ Turn(a, b, p) < 0 /\ Turn(b, c, p) < 0 /\ Turn(c, a, p) < 0)
             <=> ((Crosses(p, a, b) <=> Crosses(p, b, c)) <=> Crosses(p, c, a))
<1>1. /\ p.lat \in Int /\ a.lat \in Int /\ b.lat \in Int /\ c.lat \in Int
      /\ Turn(a, b, p) \in Int /\ Turn(b, c, p) \in Int /\ Turn(c, a, p) \in Int
  BY TurnType
<1>2. CASE a # b /\ b # c /\ c # a
  <2> DEFINE A == a.lat - p.lat
             B == b.lat - p.lat
             C == c.lat - p.lat
             u == Turn(a, b, p)
             v == Turn(b, c, p)
             w == Turn(c, a, p)
  <2>1. A \in Int /\ B \in Int /\ C \in Int /\ u \in Int /\ v \in Int /\ w \in Int
    BY <1>1
  <2>2. u # 0 /\ v # 0 /\ w # 0
    BY <1>2
  <2>3. A * v + B * w + C * u = 0
    BY TurnsBalance
  <2>4. ~ (A = 0 /\ B = 0)
    <3>1. SUFFICES ASSUME A = 0, B = 0 PROVE u = 0
      BY <2>2
    <3>2. a.lat = p.lat /\ b.lat = p.lat
      BY <1>1, <3>1
    <3>3. a.lon \in Int /\ b.lon \in Int /\ p.lon \in Int
      BY DEF Points
    <3> QED
      BY <1>1, <3>2, <3>3, SMT DEF Turn
  <2>5. /\ Crosses(p, a, b) <=> Meets(A, B, u)
        /\ Crosses(p, b, c) <=> Meets(B, C, v)
        /\ Crosses(p, c, a) <=> Meets(C, A, w)
    BY <1>1, CrossesByTurn DEF Meets
  <2> HIDE DEF A, B, C, u, v, w
  <2>6. (u > 0 /\ v > 0 /\ w > 0) \/ (u < 0 /\ v < 0 /\ w < 0)
          <=> ((Meets(A, B, u) <=> Meets(B, C, v)) <=> Meets(C, A, w))
    BY <2>1, <2>2, <2>3, <2>4, SignsOfTriangle
  <2> QED
    BY <2>5, <2>6 DEF u, v, w
<1>3. CASE a = b \/ b = c \/ c = a
  <2>1. ~ (\/ Turn(a, b, p) > 0 /\ Turn(b, c, p) > 0 /\ Turn(c, a, p) > 0
           \/ Turn(a, b, p) < 0 /\ Turn(b, c, p) < 0 /\ Turn(c, a, p) < 0)
    BY <1>1, <1>3, TurnType
  <2>2. \A q \in Points : ~ Crosses(p, q, q)
    BY DEF Crosses
  <2> QED
    BY <1>3, <2>1, <2>2, CrossesIsSymmetric
<1> QED
  BY <1>2, <1>3

\* The plane in a scale of N * N, and in it the place a hair to the east of p, N, and
\* a hair of that to the north, 1.
Scaled(a, N) == [lon |-> (N * N) * a.lon, lat |-> (N * N) * a.lat]
Nudged(p, N) == [lon |-> (N * N) * p.lon + N, lat |-> (N * N) * p.lat + 1]

\* A sum whose first two summands decide before the third.
LEMMA Outweighed ==
    ASSUME NEW N \in Nat \ {0}, NEW t \in Int, NEW x \in Int, NEW y \in Int,
           -N < x, x < N, -N < y, y < N
    PROVE  LET z == N * (N * t + x) + y
           IN  /\ z \in Int
               /\ z > 0 <=> t > 0 \/ (t = 0 /\ (x > 0 \/ (x = 0 /\ y > 0)))
               /\ z < 0 <=> t < 0 \/ (t = 0 /\ (x < 0 \/ (x = 0 /\ y < 0)))
<1> DEFINE h == N * t + x
           z == N * h + y
<1>1. /\ h \in Int
      /\ h > 0 <=> t > 0 \/ (t = 0 /\ x > 0)
      /\ h < 0 <=> t < 0 \/ (t = 0 /\ x < 0)
  <2>1. t >= 1 => N * t >= N
    BY SMT
  <2>2. t <= -1 => N * t <= -N
    BY SMT
  <2>3. N * t \in Int /\ (t = 0 => N * t = 0)
    BY SMT
  <2> DEFINE Nt == N * t
  <2> HIDE DEF Nt
  <2>4. /\ Nt + x \in Int
        /\ Nt + x > 0 <=> t > 0 \/ (t = 0 /\ x > 0)
        /\ Nt + x < 0 <=> t < 0 \/ (t = 0 /\ x < 0)
    BY <2>1, <2>2, <2>3, SMT DEF Nt
  <2> QED
    BY <2>4 DEF Nt
<1> HIDE DEF h
<1>2. /\ z \in Int
      /\ z > 0 <=> h > 0 \/ (h = 0 /\ y > 0)
      /\ z < 0 <=> h < 0 \/ (h = 0 /\ y < 0)
  <2>1. h >= 1 => N * h >= N
    BY <1>1, SMT
  <2>2. h <= -1 => N * h <= -N
    BY <1>1, SMT
  <2>3. N * h \in Int /\ (h = 0 => N * h = 0)
    BY <1>1, SMT
  <2> DEFINE Nh == N * h
  <2> HIDE DEF Nh
  <2>4. /\ Nh + y \in Int
        /\ Nh + y > 0 <=> h > 0 \/ (h = 0 /\ y > 0)
        /\ Nh + y < 0 <=> h < 0 \/ (h = 0 /\ y < 0)
    BY <1>1, <2>1, <2>2, <2>3, SMT DEF Nh
  <2> QED
    BY <2>4 DEF Nh
<1>3. h = 0 <=> t = 0 /\ x = 0
  BY <1>1
<1>4. z = N * (N * t + x) + y
  BY DEF h
<1> QED
  BY <1>1, <1>2, <1>3, <1>4

LEMMA NudgedTurn ==
    ASSUME NEW N \in Nat \ {0}, NEW a \in Points, NEW b \in Points, NEW p \in Points
    PROVE  /\ Scaled(a, N) \in Points /\ Nudged(p, N) \in Points
           /\ Turn(Scaled(a, N), Scaled(b, N), Nudged(p, N))
                = (N * N) * (N * (N * Turn(a, b, p) + (a.lat - b.lat)) + (b.lon - a.lon))
<1> DEFINE M == N * N
           x == b.lon - a.lon
           y == b.lat - a.lat
           v == p.lat - a.lat
           w == p.lon - a.lon
<1>1. /\ p.lon \in Int /\ p.lat \in Int /\ a.lon \in Int /\ a.lat \in Int
      /\ b.lon \in Int /\ b.lat \in Int /\ M \in Int
  BY SMT DEF Points
<1>2. Scaled(a, N) \in Points /\ Nudged(p, N) \in Points
  BY <1>1 DEF Scaled, Nudged, Points
<1>3. x \in Int /\ y \in Int /\ v \in Int /\ w \in Int
  BY <1>1
<1>4. Turn(a, b, p) = x * v - y * w
  BY DEF Turn
<1>5. Turn(Scaled(a, N), Scaled(b, N), Nudged(p, N)) = (M * x) * (M * v + 1) - (M * y) * (M * w + N)
  <2> HIDE DEF M
  <2>1. /\ M * b.lon - M * a.lon = M * x /\ M * b.lat - M * a.lat = M * y
        /\ (M * p.lat + 1) - M * a.lat = M * v + 1 /\ (M * p.lon + N) - M * a.lon = M * w + N
    BY <1>1, SMT
  <2> QED
    BY <2>1 DEF Turn, Scaled, Nudged, M
<1> HIDE DEF x, y, v, w
<1>6. (M * x) * (M * v + 1) - (M * y) * (M * w + N) = M * (M * (x * v - y * w) - N * y + x)
  <2> HIDE DEF M
  <2> QED
    BY <1>1, <1>3, SMT
<1>7. M * (x * v - y * w) - N * y + x = N * (N * (x * v - y * w) - y) + x
  BY <1>3, SMT
<1>8. -y = a.lat - b.lat /\ x = b.lon - a.lon
  BY <1>1 DEF x, y
<1>9. N * (x * v - y * w) - y = N * (x * v - y * w) + (a.lat - b.lat)
  <2>1. ASSUME NEW k \in Int PROVE k - y = k + (a.lat - b.lat)
    BY <1>1, <1>8, <1>3, SMT
  <2>2. N * (x * v - y * w) \in Int
    BY <1>3, SMT
  <2> QED
    BY <2>1, <2>2
<1> QED
  BY <1>2, <1>4, <1>5, <1>6, <1>7, <1>8, <1>9

\* In that scale nothing is in line any more, the left side of an edge is what Left
\* says, and the ray crosses the same edges.
LEMMA NudgedEdge ==
    ASSUME NEW N \in Nat \ {0, 1}, NEW a \in Points, NEW b \in Points, NEW p \in Points,
           -N < a.lat - b.lat, a.lat - b.lat < N, -N < b.lon - a.lon, b.lon - a.lon < N
    PROVE  LET t == Turn(Scaled(a, N), Scaled(b, N), Nudged(p, N))
           IN  /\ t \in Int
               /\ t > 0 <=> Left(a, b, p)
               /\ t < 0 <=> Left(b, a, p)
               /\ a # b => t # 0
               /\ Crosses(Nudged(p, N), Scaled(a, N), Scaled(b, N)) <=> Crosses(p, a, b)
<1> DEFINE t == Turn(Scaled(a, N), Scaled(b, N), Nudged(p, N))
           u == Turn(a, b, p)
           x == a.lat - b.lat
           y == b.lon - a.lon
           z == N * (N * u + x) + y
           M == N * N
<1>1. /\ p.lat \in Int /\ a.lat \in Int /\ b.lat \in Int /\ a.lon \in Int /\ b.lon \in Int
      /\ u \in Int /\ Turn(b, a, p) = -u
  BY TurnType DEF Points
<1>2. /\ z \in Int
      /\ z > 0 <=> u > 0 \/ (u = 0 /\ (x > 0 \/ (x = 0 /\ y > 0)))
      /\ z < 0 <=> u < 0 \/ (u = 0 /\ (x < 0 \/ (x = 0 /\ y < 0)))
  <2>1. x \in Int /\ y \in Int /\ -N < x /\ x < N /\ -N < y /\ y < N
    BY <1>1
  <2> HIDE DEF x, y, u
  <2> QED
    BY <1>1, <2>1, Outweighed
<1>3. t = M * z /\ Scaled(a, N) \in Points /\ Scaled(b, N) \in Points /\ Nudged(p, N) \in Points
  BY NudgedTurn
<1>4. M \in Int /\ M > 1
  BY SMT
<1>5. t \in Int /\ (t > 0 <=> z > 0) /\ (t < 0 <=> z < 0)
  <2> HIDE DEF t, z, M
  <2> QED
    BY <1>2, <1>3, <1>4, SMT
<1>6. Left(a, b, p) <=> u > 0 \/ (u = 0 /\ (x > 0 \/ (x = 0 /\ y > 0)))
  BY <1>1 DEF Left
<1>7. Left(b, a, p) <=> u < 0 \/ (u = 0 /\ (x < 0 \/ (x = 0 /\ y < 0)))
  <2> HIDE DEF u
  <2> QED
    BY <1>1 DEF Left
<1>8. a # b => x # 0 \/ y # 0
  <2>1. a = [lon |-> a.lon, lat |-> a.lat] /\ b = [lon |-> b.lon, lat |-> b.lat]
    BY DEF Points
  <2>2. x = 0 /\ y = 0 => a.lat = b.lat /\ a.lon = b.lon
    BY <1>1
  <2> QED
    BY <2>1, <2>2
<1>9. ASSUME NEW q \in Points
      PROVE  /\ Scaled(q, N).lat <= Nudged(p, N).lat <=> q.lat <= p.lat
             /\ Nudged(p, N).lat < Scaled(q, N).lat <=> p.lat < q.lat
  <2>1. q.lat \in Int
    BY DEF Points
  <2>2. /\ M * q.lat \in Int /\ M * p.lat \in Int
        /\ q.lat <= p.lat => M * q.lat <= M * p.lat
        /\ q.lat > p.lat => M * q.lat >= M * p.lat + M
    <3> HIDE DEF M
    <3>1. ASSUME NEW d \in Int PROVE M * d \in Int /\ (d >= 0 => M * d >= 0) /\ (d >= 1 => M * d >= M)
      BY <1>4, SMT
    <3>2. M * q.lat - M * p.lat = M * (q.lat - p.lat) /\ M * p.lat - M * q.lat = M * (p.lat - q.lat)
      BY <1>1, <1>4, <2>1, SMT
    <3> QED
      BY <1>1, <1>4, <2>1, <3>1, <3>2, SMT
  <2>3. Scaled(q, N).lat = M * q.lat /\ Nudged(p, N).lat = M * p.lat + 1
    BY DEF Scaled, Nudged
  <2> HIDE DEF M
  <2> QED
    BY <1>1, <1>4, <2>1, <2>2, <2>3
<1>10. Crosses(Nudged(p, N), Scaled(a, N), Scaled(b, N))
         <=> \/ a.lat <= p.lat /\ p.lat < b.lat /\ t > 0
             \/ b.lat <= p.lat /\ p.lat < a.lat /\ t < 0
  BY <1>3, <1>9, CrossesByTurn
<1>11. Crosses(p, a, b) <=> \/ a.lat <= p.lat /\ p.lat < b.lat /\ u > 0
                            \/ b.lat <= p.lat /\ p.lat < a.lat /\ u < 0
  BY CrossesByTurn
<1>12. /\ t \in Int
       /\ t > 0 <=> Left(a, b, p)
       /\ t < 0 <=> Left(b, a, p)
       /\ a # b => t # 0
       /\ Crosses(Nudged(p, N), Scaled(a, N), Scaled(b, N)) <=> Crosses(p, a, b)
  <2> HIDE DEF t, u, z
  <2> QED
    BY <1>1, <1>2, <1>5, <1>6, <1>7, <1>8, <1>10, <1>11
<1> QED
  BY <1>12

\* Inside a triangle exactly if an odd number of its sides is crossed.
LEMMA TriangleParity ==
    ASSUME NEW p \in Points, NEW a \in Points, NEW b \in Points, NEW c \in Points
    PROVE  Within(p, a, b, c) <=> ((Crosses(p, a, b) <=> Crosses(p, b, c)) <=> Crosses(p, c, a))
<1> DEFINE Abs(i) == IF i < 0 THEN -i ELSE i
           N == 2 + Abs(b.lat - a.lat) + Abs(c.lat - b.lat) + Abs(a.lat - c.lat)
                  + Abs(b.lon - a.lon) + Abs(c.lon - b.lon) + Abs(a.lon - c.lon)
           P == Nudged(p, N)
           A == Scaled(a, N)
           B == Scaled(b, N)
           C == Scaled(c, N)
<1>1. /\ a.lon \in Int /\ a.lat \in Int /\ b.lon \in Int /\ b.lat \in Int
      /\ c.lon \in Int /\ c.lat \in Int
  BY DEF Points
<1>2. /\ N \in Nat \ {0, 1}
      /\ -N < a.lat - b.lat /\ a.lat - b.lat < N /\ -N < b.lon - a.lon /\ b.lon - a.lon < N
      /\ -N < b.lat - c.lat /\ b.lat - c.lat < N /\ -N < c.lon - b.lon /\ c.lon - b.lon < N
      /\ -N < c.lat - a.lat /\ c.lat - a.lat < N /\ -N < a.lon - c.lon /\ a.lon - c.lon < N
  <2>1. \A i \in Int : Abs(i) \in Nat /\ -Abs(i) <= i /\ i <= Abs(i)
    OBVIOUS
  <2>2. /\ Abs(b.lat - a.lat) \in Nat /\ Abs(c.lat - b.lat) \in Nat /\ Abs(a.lat - c.lat) \in Nat
        /\ Abs(b.lon - a.lon) \in Nat /\ Abs(c.lon - b.lon) \in Nat /\ Abs(a.lon - c.lon) \in Nat
        /\ -Abs(b.lat - a.lat) <= b.lat - a.lat /\ b.lat - a.lat <= Abs(b.lat - a.lat)
        /\ -Abs(c.lat - b.lat) <= c.lat - b.lat /\ c.lat - b.lat <= Abs(c.lat - b.lat)
        /\ -Abs(a.lat - c.lat) <= a.lat - c.lat /\ a.lat - c.lat <= Abs(a.lat - c.lat)
        /\ -Abs(b.lon - a.lon) <= b.lon - a.lon /\ b.lon - a.lon <= Abs(b.lon - a.lon)
        /\ -Abs(c.lon - b.lon) <= c.lon - b.lon /\ c.lon - b.lon <= Abs(c.lon - b.lon)
        /\ -Abs(a.lon - c.lon) <= a.lon - c.lon /\ a.lon - c.lon <= Abs(a.lon - c.lon)
    BY <1>1, <2>1
  <2> HIDE DEF Abs
  <2> QED
    BY <1>1, <2>2
<1> HIDE DEF N
<1>3. P \in Points /\ A \in Points /\ B \in Points /\ C \in Points
  BY <1>2, NudgedTurn
<1>4. /\ Turn(A, B, P) > 0 <=> Left(a, b, p)
      /\ Turn(A, B, P) < 0 <=> Left(b, a, p)
      /\ A # B => Turn(A, B, P) # 0
      /\ Crosses(P, A, B) <=> Crosses(p, a, b)
  BY <1>2, NudgedEdge
<1>5. /\ Turn(B, C, P) > 0 <=> Left(b, c, p)
      /\ Turn(B, C, P) < 0 <=> Left(c, b, p)
      /\ B # C => Turn(B, C, P) # 0
      /\ Crosses(P, B, C) <=> Crosses(p, b, c)
  BY <1>2, NudgedEdge
<1>6. /\ Turn(C, A, P) > 0 <=> Left(c, a, p)
      /\ Turn(C, A, P) < 0 <=> Left(a, c, p)
      /\ C # A => Turn(C, A, P) # 0
      /\ Crosses(P, C, A) <=> Crosses(p, c, a)
  BY <1>2, NudgedEdge
<1> HIDE DEF P, A, B, C
<1>7. (\/ Turn(A, B, P) > 0 /\ Turn(B, C, P) > 0 /\ Turn(C, A, P) > 0
       \/ Turn(A, B, P) < 0 /\ Turn(B, C, P) < 0 /\ Turn(C, A, P) < 0)
        <=> ((Crosses(P, A, B) <=> Crosses(P, B, C)) <=> Crosses(P, C, A))
  BY <1>3, <1>4, <1>5, <1>6, OffLineParity
<1> QED
  BY <1>4, <1>5, <1>6, <1>7 DEF Within

-----------------------------------------------------------------------------
(* The ray casting against the geometry.                                   *)

LEMMA SubsetOfIntervalIsFinite ==
    ASSUME NEW m \in Nat, NEW n \in Nat, NEW S \in SUBSET (m .. n)
    PROVE  IsFiniteSet(S)
<1>1. IsFiniteSet(m .. n)
  BY FS_Interval
<1> QED
  BY <1>1, FS_Subset

\* A ring taken edge by edge: the edges from the second vertex on, and the edge that
\* closes it.
LEMMA OddRing ==
    ASSUME NEW n \in Nat \ {0}, NEW S \in SUBSET (1 .. n)
    PROVE  Odd(S) <=> ~ (Odd(S \ {1}) <=> 1 \in S)
<1>1. IsFiniteSet(S \ {1}) /\ IsFiniteSet({1}) /\ Odd({1}) /\ IsFiniteSet(S)
  BY SubsetOfIntervalIsFinite, OddSingleton
<1>2. CASE 1 \in S
  <2>1. S = (S \ {1}) \cup {1} /\ (S \ {1}) \cap {1} = {}
    BY <1>2
  <2>2. Odd((S \ {1}) \cup {1}) <=> ~ (Odd(S \ {1}) <=> Odd({1}))
    BY <1>1, <2>1, OddUnion
  <2> QED
    BY <1>1, <1>2, <2>1, <2>2
<1>3. CASE 1 \notin S
  <2>1. S = S \ {1}
    BY <1>3
  <2> QED
    BY <1>3, <2>1
<1> QED
  BY <1>2, <1>3

\* The ray casting and the fan agree on every point, on the fence or off it
\* (validation.py:15-27).
LEMMA RayCastingIsExact ==
    ASSUME NEW p \in Points, NEW fence \in Seq(Points), Len(fence) >= 3
    PROVE  PointInPolygon(p, fence) <=> InFan(p, fence)
<1> DEFINE n == Len(fence)
           f(i) == fence[i]
           crossed == Crossings(p, fence)
           inner == {i \in 3 .. n : Within(p, f(1), f(i - 1), f(i))}
           B == {i \in 1 .. n : Crosses(p, f(1), f(i))}
           turns == Changes(B, n)
<1>1. n \in Nat \ {0} /\ n >= 3 /\ \A i \in 1 .. n : f(i) \in Points
  OBVIOUS
<1>2. 1 \notin B
  BY <1>1 DEF Crosses
<1>3. ASSUME NEW i \in 3 .. n
      PROVE  i \in crossed <=> ~ (i \in inner <=> i \in turns)
  <2>1. i \in 1 .. n /\ i - 1 \in 1 .. n /\ 1 \in 1 .. n /\ i # 1 /\ i \in 2 .. n
    BY <1>1
  <2>2. i \in crossed <=> Crosses(p, f(i), f(i - 1))
    BY <2>1 DEF Crossings, Before
  <2>3. i \in turns <=> ~ (Crosses(p, f(1), f(i)) <=> Crosses(p, f(1), f(i - 1)))
    BY <2>1 DEF Changes
  <2>4. Within(p, f(1), f(i - 1), f(i))
          <=> ((Crosses(p, f(1), f(i - 1)) <=> Crosses(p, f(i - 1), f(i))) <=> Crosses(p, f(i), f(1)))
    <3>1. f(1) \in Points /\ f(i - 1) \in Points /\ f(i) \in Points
      BY <1>1, <2>1
    <3> HIDE DEF f
    <3> QED
      BY <3>1, TriangleParity
  <2>5. /\ Crosses(p, f(i), f(1)) <=> Crosses(p, f(1), f(i))
        /\ Crosses(p, f(i - 1), f(i)) <=> Crosses(p, f(i), f(i - 1))
    BY <1>1, <2>1, CrossesIsSymmetric
  <2> QED
    BY <2>2, <2>3, <2>4, <2>5
<1>4. 2 \in crossed <=> 2 \in turns
  <2>1. 2 \in crossed <=> Crosses(p, f(2), f(1))
    BY <1>1 DEF Crossings, Before
  <2>2. 2 \in turns <=> 2 \in B
    BY <1>1, <1>2 DEF Changes
  <2> QED
    BY <1>1, <2>1, <2>2, CrossesIsSymmetric
<1>5. crossed \ {1} = (inner \ turns) \cup (turns \ inner)
  <2>1. crossed \ {1} \subseteq 2 .. n /\ inner \subseteq 2 .. n /\ turns \subseteq 2 .. n
    BY <1>1 DEF Crossings, Changes
  <2> HIDE DEF crossed, inner, turns
  <2>2. \A i \in 2 .. n : i \in crossed <=> ~ (i \in inner <=> i \in turns)
    <3>1. ASSUME NEW i \in 2 .. n PROVE i = 2 \/ i \in 3 .. n
      BY <1>1
    <3>2. 2 \notin inner
      BY <1>1 DEF inner
    <3> QED
      BY <1>3, <1>4, <3>1, <3>2
  <2>3. 1 \notin 2 .. n
    OBVIOUS
  <2> QED
    BY <2>1, <2>2, <2>3, Zenon
<1>6. IsFiniteSet(inner) /\ IsFiniteSet(turns)
  BY <1>1, SubsetOfIntervalIsFinite, ChangesAreFinite
<1>7. Odd(turns) <=> n \in B
  BY <1>1, <1>2, OddChanges
<1>8. 1 \in crossed <=> n \in B
  BY <1>1, CrossesIsSymmetric DEF Crossings, Before
<1>9. Odd(crossed) <=> ~ (Odd(crossed \ {1}) <=> 1 \in crossed)
  <2>1. crossed \in SUBSET (1 .. n)
    BY DEF Crossings
  <2> HIDE DEF crossed, n
  <2> QED
    BY <1>1, <2>1, OddRing
<1>10. Odd(crossed \ {1}) <=> ~ (Odd(inner) <=> Odd(turns))
  <2> HIDE DEF crossed, inner, turns
  <2> QED
    BY <1>5, <1>6, OddDifference
<1>11. PointInPolygon(p, fence) <=> Odd(crossed)
  BY DEF PointInPolygon, Odd
<1>12. InFan(p, fence) <=> Odd(inner)
  BY DEF InFan, Odd
<1> QED
  BY <1>7, <1>8, <1>9, <1>10, <1>11, <1>12

\* The verdict on the fence is the geometry's, for fences and routes of any number of
\* points, waypoints on the fence included: no other check speaks of the fence, and the
\* first waypoint outside decides (validation.py:15-27, 39-51).
THEOREM ContainmentIsSound == ValidationSpec => []ContainmentIsExact
<1>1. ResultIsOfCase => ContainmentIsExact
  <2> SUFFICES ASSUME ResultIsOfCase, result # NoResult
               PROVE  [name |-> "geofence_containment", status |-> "passed"] \in result.checks
                        <=> \A i \in DOMAIN plan.route : InFan(plan.route[i].at, plan.fence)
    BY DEF ContainmentIsExact
  <2> DEFINE c == [name |-> "geofence_containment", status |-> "passed"]
             outside == \E i \in DOMAIN plan.route : ~ PointInPolygon(plan.route[i].at, plan.fence)
  <2>1. result.checks = Checks(plan, sample)
    BY DEF ResultIsOfCase
  <2>2. \A name, status : c \in Outcome(name, status)
                            <=> name = "geofence_containment" /\ status = "passed"
    BY DEF Outcome
  <2>3. /\ c \notin Altitude(plan) /\ c \notin Telemetry(sample)
        /\ c \notin RemoteId(plan) /\ c \notin Airspace(plan)
    <3>1. \A name, status : name # "geofence_containment" => c \notin Outcome(name, status)
      BY <2>2
    <3> HIDE DEF c
    <3>2. c \notin Altitude(plan)
      BY <3>1 DEF Altitude
    <3>3. c \notin Telemetry(sample)
      BY <3>1 DEF Telemetry
    <3>4. c \notin RemoteId(plan)
      BY <3>1 DEF RemoteId
    <3>5. c \notin Airspace(plan)
      BY <3>1 DEF Airspace
    <3> QED
      BY <3>2, <3>3, <3>4, <3>5
  <2>4. c \in Checks(plan, sample) <=> c \in Geofence(plan)
    BY <2>3 DEF Checks
  <2>5. c \in Geofence(plan) <=> ~ outside
    BY <2>2 DEF Geofence, FailsIf
  <2>6. \A i \in DOMAIN plan.route :
           PointInPolygon(plan.route[i].at, plan.fence) <=> InFan(plan.route[i].at, plan.fence)
    BY PlanType, RayCastingIsExact
  <2> QED
    BY <2>1, <2>4, <2>5, <2>6
<1> QED
  BY <1>1, ResultInvariant, PTL

-----------------------------------------------------------------------------
(* The ring as it is written.                                              *)

\* The same ring with its first vertex repeated at the end, as GeoJSON has it, from
\* its second vertex on, and the other way round.
Closing(fence) == Append(fence, fence[1])
Turned(fence) == [i \in 1 .. Len(fence) |-> fence[IF i = Len(fence) THEN 1 ELSE i + 1]]
Reversal(fence) == [i \in 1 .. Len(fence) |-> fence[Len(fence) + 1 - i]]

\* Sets whose members are paired have the same parity.
LEMMA OddPairs ==
    ASSUME NEW S, NEW T, IsFiniteSet(S), NEW f \in Bijection(S, T)
    PROVE  Odd(S) <=> Odd(T)
<1>1. Cardinality(T) = Cardinality(S)
  BY FS_Bijection DEF ExistsBijection
<1> QED
  BY <1>1 DEF Odd

LEMMA InverseMakesBijection ==
    ASSUME NEW S, NEW f \in [S -> S], NEW g \in [S -> S], \A x \in S : g[f[x]] = x /\ f[g[x]] = x
    PROVE  f \in Bijection(S, S)
BY DEF Bijection, Injection, Surjection, IsInjective

\* Two rings whose edges are paired have the same points inside.
LEMMA PairedEdges ==
    ASSUME NEW p, NEW fence, NEW ring, Len(fence) \in Nat, Len(ring) = Len(fence),
           NEW f \in Bijection(1 .. Len(fence), 1 .. Len(fence)),
           \A i \in 1 .. Len(fence) :
               Crosses(p, ring[i], Before(ring, i)) <=> Crosses(p, fence[f[i]], Before(fence, f[i]))
    PROVE  PointInPolygon(p, ring) <=> PointInPolygon(p, fence)
<1> DEFINE S == Crossings(p, ring)
           T == Crossings(p, fence)
           n == Len(fence)
           a == [i \in S |-> f[i]]
<1>1. S \in SUBSET (1 .. n) /\ T \in SUBSET (1 .. n)
  BY DEF Crossings
<1>2. /\ \A i \in 1 .. n : f[i] \in 1 .. n /\ (i \in S <=> f[i] \in T)
      /\ \A i, j \in 1 .. n : f[i] = f[j] => i = j
      /\ \A j \in 1 .. n : \E i \in 1 .. n : f[i] = j
  BY DEF Crossings, Bijection, Injection, Surjection, IsInjective
<1>3. IsFiniteSet(S)
  BY <1>1, SubsetOfIntervalIsFinite
<1> HIDE DEF S, T
<1>4. a \in Bijection(S, T)
  BY <1>1, <1>2 DEF Bijection, Injection, Surjection, IsInjective
<1>5. Odd(S) <=> Odd(T)
  BY <1>3, <1>4, OddPairs
<1> QED
  BY <1>5 DEF S, T, PointInPolygon, Odd

\* The verdict on a point does not depend on how the client writes the fence: whether
\* the ring is closed, where it begins and which way round it goes, for rings of any
\* length and shape and points anywhere, those on an edge included
\* (validation.py:15-27).
THEOREM RingAsWritten ==
    ASSUME NEW p \in Points, NEW fence \in Seq(Points), Len(fence) >= 3
    PROVE  /\ PointInPolygon(p, Closing(fence)) <=> PointInPolygon(p, fence)
           /\ PointInPolygon(p, Turned(fence)) <=> PointInPolygon(p, fence)
           /\ PointInPolygon(p, Reversal(fence)) <=> PointInPolygon(p, fence)
<1> DEFINE n == Len(fence)
<1>1. n \in Nat /\ n >= 3 /\ \A i \in 1 .. n : fence[i] \in Points
  OBVIOUS
<1>2. PointInPolygon(p, Closing(fence)) <=> PointInPolygon(p, fence)
  <2> DEFINE ring == Closing(fence)
             S == Crossings(p, ring)
             T == Crossings(p, fence)
  <2>1. Len(ring) = n + 1 /\ ring[n + 1] = fence[1] /\ \A i \in 1 .. n : ring[i] = fence[i]
    BY <1>1 DEF Closing
  <2> HIDE DEF ring
  <2>2. 1 \notin S
    BY <1>1, <2>1 DEF Crossings, Before, Crosses
  <2>3. n + 1 \in S <=> 1 \in T
    BY <1>1, <2>1 DEF Crossings, Before
  <2>4. ASSUME NEW i \in 2 .. n PROVE i \in S <=> i \in T
    BY <1>1, <2>1 DEF Crossings, Before
  <2>5. S \in SUBSET (1 .. n + 1) /\ T \in SUBSET (1 .. n)
    BY <2>1 DEF Crossings
  <2> HIDE DEF S, T
  <2>6. S \ {n + 1} = T \ {1}
    <3>1. \A i \in 1 .. n + 1 : i = 1 \/ i = n + 1 \/ i \in 2 .. n
      BY <1>1
    <3>2. \A i \in 1 .. n : i \in 1 .. n + 1 /\ i # n + 1
      BY <1>1
    <3> QED
      BY <1>1, <2>2, <2>4, <2>5, <3>1, <3>2
  <2>7. Odd(S) <=> ~ (Odd(S \ {n + 1}) <=> n + 1 \in S)
    <3>1. IsFiniteSet(S \ {n + 1}) /\ IsFiniteSet({n + 1}) /\ Odd({n + 1})
      <4>1. n + 1 \in Nat
        BY <1>1
      <4>2. S \ {n + 1} \in SUBSET (1 .. n + 1)
        BY <2>5, Zenon
      <4>3. IsFiniteSet(S \ {n + 1})
        BY <4>1, <4>2, SubsetOfIntervalIsFinite
      <4> QED
        BY <4>3, OddSingleton
    <3>2. CASE n + 1 \in S
      <4>1. S = (S \ {n + 1}) \cup {n + 1} /\ (S \ {n + 1}) \cap {n + 1} = {}
        BY <3>2
      <4>2. Odd((S \ {n + 1}) \cup {n + 1}) <=> ~ (Odd(S \ {n + 1}) <=> Odd({n + 1}))
        BY <3>1, <4>1, OddUnion
      <4> QED
        BY <3>1, <3>2, <4>1, <4>2
    <3>3. CASE n + 1 \notin S
      <4>1. S = S \ {n + 1}
        BY <3>3
      <4> QED
        BY <3>3, <4>1
    <3> QED
      BY <3>2, <3>3
  <2>8. Odd(T) <=> ~ (Odd(T \ {1}) <=> 1 \in T)
    <3>1. n \in Nat \ {0}
      BY <1>1
    <3> HIDE DEF n
    <3> QED
      BY <2>5, <3>1, OddRing
  <2>9. Odd(S) <=> Odd(T)
    BY <2>3, <2>6, <2>7, <2>8
  <2> QED
    BY <2>9 DEF PointInPolygon, Odd, S, T, ring
<1>3. PointInPolygon(p, Turned(fence)) <=> PointInPolygon(p, fence)
  <2> DEFINE f == [i \in 1 .. n |-> IF i = n THEN 1 ELSE i + 1]
             g == [i \in 1 .. n |-> IF i = 1 THEN n ELSE i - 1]
             ring == Turned(fence)
  <2>1. f \in [1 .. n -> 1 .. n] /\ g \in [1 .. n -> 1 .. n]
    BY <1>1
  <2>2. \A i \in 1 .. n : g[f[i]] = i /\ f[g[i]] = i
    BY <1>1
  <2>3. Len(ring) = n /\ \A i \in 1 .. n : ring[i] = fence[f[i]]
    BY <1>1 DEF Turned
  <2> HIDE DEF ring
  <2>4. ASSUME NEW i \in 1 .. n PROVE Before(ring, i) = Before(fence, f[i])
    BY <1>1, <2>3 DEF Before
  <2> HIDE DEF f, g
  <2>5. f \in Bijection(1 .. n, 1 .. n)
    BY <2>1, <2>2, InverseMakesBijection
  <2>6. \A i \in 1 .. n :
            Crosses(p, ring[i], Before(ring, i)) <=> Crosses(p, fence[f[i]], Before(fence, f[i]))
    BY <2>3, <2>4
  <2>7. PointInPolygon(p, ring) <=> PointInPolygon(p, fence)
    BY <1>1, <2>3, <2>5, <2>6, PairedEdges
  <2> QED
    BY <2>7 DEF ring
<1>4. PointInPolygon(p, Reversal(fence)) <=> PointInPolygon(p, fence)
  <2> DEFINE f == [i \in 1 .. n |-> IF i = 1 THEN 1 ELSE n + 2 - i]
             ring == Reversal(fence)
  <2>1. f \in [1 .. n -> 1 .. n] /\ \A i \in 1 .. n : f[f[i]] = i
    BY <1>1
  <2>2. Len(ring) = n /\ \A i \in 1 .. n : ring[i] = fence[n + 1 - i]
    BY <1>1 DEF Reversal
  <2> HIDE DEF ring
  <2>3. ASSUME NEW i \in 1 .. n
        PROVE  /\ ring[i] \in Points /\ Before(ring, i) \in Points
               /\ ring[i] = Before(fence, f[i]) /\ Before(ring, i) = fence[f[i]]
    <3>1. CASE i = 1
      BY <1>1, <2>2, <3>1 DEF Before
    <3>2. CASE i # 1
      <4>1. i - 1 \in 1 .. n /\ n + 1 - (i - 1) = n + 2 - i /\ n + 2 - i \in 1 .. n /\ n + 2 - i # 1
            /\ (n + 2 - i) - 1 = n + 1 - i /\ n + 1 - i \in 1 .. n
        BY <1>1, <3>2
      <4> QED
        BY <1>1, <2>2, <3>2, <4>1 DEF Before
    <3> QED
      BY <3>1, <3>2
  <2> HIDE DEF f
  <2>4. \A i \in 1 .. n :
            Crosses(p, ring[i], Before(ring, i)) <=> Crosses(p, fence[f[i]], Before(fence, f[i]))
    BY <2>3, CrossesIsSymmetric
  <2>5. f \in Bijection(1 .. n, 1 .. n)
    BY <2>1, InverseMakesBijection
  <2>6. PointInPolygon(p, ring) <=> PointInPolygon(p, fence)
    BY <1>1, <2>2, <2>4, <2>5, PairedEdges
  <2> QED
    BY <2>6 DEF ring
<1> QED
  BY <1>2, <1>3, <1>4

-----------------------------------------------------------------------------
(* The hull of the fence.                                                  *)

\* The edges of a ring that go from one side of a height to the other.
Straddles(p, fence) ==
    {i \in 1 .. Len(fence) : (fence[i].lat > p.lat) # (Before(fence, i).lat > p.lat)}

\* A closed way goes north as often as it comes back.
LEMMA StraddlesAreEven ==
    ASSUME NEW p \in Points, NEW fence \in Seq(Points), Len(fence) >= 3
    PROVE  ~ Odd(Straddles(p, fence))
<1> DEFINE n == Len(fence)
           S == Straddles(p, fence)
           B == {i \in 1 .. n : fence[i].lat > p.lat}
<1>1. n \in Nat \ {0} /\ n >= 3
  OBVIOUS
<1>2. S \ {1} = Changes(B, n)
  BY <1>1 DEF Straddles, Before, Changes
<1>3. 1 \in S <=> ~ (n \in B <=> 1 \in B)
  BY <1>1 DEF Straddles, Before
<1>4. Odd(S) <=> ~ (Odd(S \ {1}) <=> 1 \in S)
  <2>1. S \in SUBSET (1 .. n)
    BY DEF Straddles
  <2> HIDE DEF S, n
  <2> QED
    BY <1>1, <2>1, OddRing
<1>5. Odd(Changes(B, n)) <=> ~ (n \in B <=> 1 \in B)
  BY <1>1, OddChanges
<1> HIDE DEF B, S
<1>6. ~ Odd(S)
  BY <1>2, <1>3, <1>4, <1>5
<1> QED
  BY <1>6 DEF S

\* The points on one side of a line, or on it.
HalfPlane(x, y, z) == {q \in Points : x * q.lon + y * q.lat - z >= 0}

\* A point west of where an edge passes its height is in every half plane that is open
\* to the west and has the ends of the edge; and so to the east.
LEMMA BesideEdge ==
    ASSUME NEW p \in Points, NEW x \in Int, NEW y \in Int, NEW z \in Int,
           NEW u \in HalfPlane(x, y, z), NEW v \in HalfPlane(x, y, z),
           v.lat <= p.lat, p.lat <= u.lat, v.lat < u.lat, x * Turn(v, u, p) <= 0
    PROVE  p \in HalfPlane(x, y, z)
<1> DEFINE h(q) == x * q.lon + y * q.lat - z
           north == u.lat - p.lat
           south == p.lat - v.lat
           t == x * Turn(v, u, p)
<1>1. u \in Points /\ v \in Points /\ h(u) >= 0 /\ h(v) >= 0
  BY DEF HalfPlane
<1>2. /\ h(u) \in Int /\ h(v) \in Int /\ h(p) \in Int /\ t \in Int
      /\ north \in Int /\ south \in Int /\ u.lat - v.lat \in Int
      /\ north >= 0 /\ south >= 0 /\ u.lat - v.lat > 0
  <2>1. /\ p.lon \in Int /\ p.lat \in Int /\ u.lon \in Int /\ u.lat \in Int
        /\ v.lon \in Int /\ v.lat \in Int /\ Turn(v, u, p) \in Int
    BY <1>1, TurnType
  <2> QED
    BY <2>1
<1>3. (u.lat - v.lat) * h(p) = south * h(u) + north * h(v) - t
  BY <1>1, LinearAtHeight
<1>4. t <= 0
  OBVIOUS
<1> HIDE DEF h, north, south, t
<1>5. south * h(u) >= 0 /\ north * h(v) >= 0
  BY <1>1, <1>2, SMT
<1>6. ASSUME NEW d \in Int, d > 0, NEW e \in Int, d * e >= 0 PROVE e >= 0
  BY <1>6, SMT
<1>7. (u.lat - v.lat) * h(p) >= 0
  BY <1>2, <1>3, <1>4, <1>5, SMT
<1>8. h(p) >= 0
  BY <1>2, <1>6, <1>7
<1> QED
  BY <1>8 DEF h, HalfPlane

\* A point inside a fence, by the ray casting, is in every half plane that has all of
\* the fence: the ray meets an edge to the east of the point, and since the way round
\* the fence passes the height of the point an even number of times, it passes it to
\* the west of the point as well (validation.py:15-27).
LEMMA InsideIsInHull ==
    ASSUME NEW p \in Points, NEW fence \in Seq(Points), Len(fence) >= 3, PointInPolygon(p, fence),
           NEW x \in Int, NEW y \in Int, NEW z \in Int,
           \A i \in DOMAIN fence : fence[i] \in HalfPlane(x, y, z)
    PROVE  p \in HalfPlane(x, y, z)
<1> DEFINE n == Len(fence)
           crossed == Crossings(p, fence)
           straddling == Straddles(p, fence)
<1>1. n \in Nat /\ n >= 3 /\ DOMAIN fence = 1 .. n
  OBVIOUS
<1>2. Odd(crossed) /\ ~ Odd(straddling)
  BY StraddlesAreEven DEF PointInPolygon, Odd
<1>3. crossed \subseteq straddling
  BY DEF Crossings, Straddles, Crosses
<1>4. ASSUME NEW i \in straddling
      PROVE  /\ Before(fence, i) \in HalfPlane(x, y, z) /\ fence[i] \in HalfPlane(x, y, z)
             /\ i \in crossed <=> Crosses(p, fence[i], Before(fence, i))
             /\ (fence[i].lat > p.lat) # (Before(fence, i).lat > p.lat)
  <2>1. i \in 1 .. n
    BY DEF Straddles
  <2> QED
    BY <1>1, <2>1 DEF Straddles, Crossings, Before
<1>5. ASSUME NEW a \in HalfPlane(x, y, z), NEW b \in HalfPlane(x, y, z),
             (a.lat > p.lat) # (b.lat > p.lat), Crosses(p, a, b) <=> x <= 0
      PROVE  p \in HalfPlane(x, y, z)
  <2>1. /\ a \in Points /\ b \in Points /\ p.lat \in Int /\ a.lat \in Int /\ b.lat \in Int
        /\ Turn(a, b, p) \in Int /\ Turn(b, a, p) \in Int /\ Turn(b, a, p) = - Turn(a, b, p)
    BY TurnType DEF HalfPlane
  <2>2. ASSUME NEW t \in Int, t > 0 <=> x <= 0 PROVE x * t <= 0
    BY <2>2, SMT
  <2>3. CASE a.lat <= p.lat /\ p.lat < b.lat
    <3>1. Crosses(p, a, b) <=> Turn(a, b, p) > 0
      BY <2>1, <2>3, CrossesByTurn
    <3>2. x * Turn(a, b, p) <= 0
      BY <1>5, <2>1, <2>2, <3>1
    <3> QED
      BY <2>1, <2>3, <3>2, BesideEdge
  <2>4. CASE b.lat <= p.lat /\ p.lat < a.lat
    <3>1. Crosses(p, a, b) <=> Turn(b, a, p) > 0
      BY <2>1, <2>4, CrossesByTurn
    <3>2. x * Turn(b, a, p) <= 0
      BY <1>5, <2>1, <2>2, <3>1
    <3> QED
      BY <2>1, <2>4, <3>2, BesideEdge
  <2> QED
    BY <1>5, <2>1, <2>3, <2>4
<1>6. CASE x <= 0
  <2>1. PICK i \in straddling : i \in crossed
    BY <1>2, <1>3, OddEmpty
  <2> QED
    BY <1>4, <1>5, <1>6, <2>1
<1>7. CASE ~ x <= 0
  <2>1. PICK i \in straddling : i \notin crossed
    <3>1. crossed # straddling
      BY <1>2
    <3> QED
      BY <1>3, <3>1
  <2> QED
    BY <1>4, <1>5, <1>7, <2>1
<1> QED
  BY <1>6, <1>7

\* A half plane has the whole way between two of its points.
LEMMA LegInHalfPlane ==
    ASSUME NEW x \in Int, NEW y \in Int, NEW z \in Int,
           NEW p \in HalfPlane(x, y, z), NEW q \in HalfPlane(x, y, z), NEW w \in Leg(p, q)
    PROVE  w \in HalfPlane(x, y, z)
<1>1. /\ p \in Points /\ q \in Points
      /\ p.lon \in Int /\ p.lat \in Int /\ q.lon \in Int /\ q.lat \in Int
  BY DEF HalfPlane, Points
<1>2. /\ w \in Points /\ Turn(p, q, w) = 0 /\ w.lon \in Int /\ w.lat \in Int
      /\ (p.lon <= w.lon /\ w.lon <= q.lon) \/ (q.lon <= w.lon /\ w.lon <= p.lon)
      /\ (p.lat <= w.lat /\ w.lat <= q.lat) \/ (q.lat <= w.lat /\ w.lat <= p.lat)
  <2> DEFINE between(i, k, j) == (i <= k /\ k <= j) \/ (j <= k /\ k <= i)
             span(i, j) == {k \in (i .. j) \cup (j .. i) : between(i, k, j)}
  <2>1. w \in [lon : span(p.lon, q.lon), lat : span(p.lat, q.lat)] /\ Turn(p, q, w) = 0
    BY DEF Leg
  <2>2. w = [lon |-> w.lon, lat |-> w.lat] /\ w.lon \in span(p.lon, q.lon) /\ w.lat \in span(p.lat, q.lat)
    BY <2>1
  <2> QED
    BY <1>1, <2>1, <2>2 DEF Points
<1>3. CASE p.lat # q.lat
  <2>1. Turn(q, p, w) = 0
    BY <1>1, <1>2, TurnType
  <2>2. CASE p.lat < q.lat
    BY <1>1, <1>2, <2>2, BesideEdge
  <2>3. CASE q.lat < p.lat
    BY <1>1, <1>2, <2>1, <2>3, BesideEdge
  <2> QED
    BY <1>1, <1>3, <2>2, <2>3
<1>4. CASE p.lat = q.lat
  <2>1. w.lat = p.lat
    BY <1>1, <1>2, <1>4
  <2>2. x * p.lon <= x * w.lon \/ x * q.lon <= x * w.lon
    <3>1. ASSUME NEW i \in Int, NEW j \in Int, i <= j
          PROVE  (x >= 0 => x * i <= x * j) /\ (x <= 0 => x * j <= x * i)
      BY <3>1, SMT
    <3>2. CASE p.lon <= w.lon /\ w.lon <= q.lon
      <4>1. CASE x >= 0
        BY <1>1, <1>2, <3>1, <3>2, <4>1
      <4>2. CASE x <= 0
        BY <1>1, <1>2, <3>1, <3>2, <4>2
      <4> QED
        BY <4>1, <4>2
    <3>3. CASE q.lon <= w.lon /\ w.lon <= p.lon
      <4>1. CASE x >= 0
        BY <1>1, <1>2, <3>1, <3>3, <4>1
      <4>2. CASE x <= 0
        BY <1>1, <1>2, <3>1, <3>3, <4>2
      <4> QED
        BY <4>1, <4>2
    <3> QED
      BY <1>2, <3>2, <3>3
  <2> DEFINE r == x * p.lon
             s == x * q.lon
             t == x * w.lon
             l == y * p.lat
  <2>3. r \in Int /\ s \in Int /\ t \in Int /\ l \in Int /\ z \in Int
    BY <1>1, <1>2
  <2>4. r + l - z >= 0 /\ s + l - z >= 0
    BY <1>4 DEF HalfPlane
  <2>5. w \in HalfPlane(x, y, z) <=> t + l - z >= 0
    BY <1>2, <2>1 DEF HalfPlane
  <2>6. r <= t \/ s <= t
    BY <2>2
  <2> HIDE DEF r, s, t, l
  <2> QED
    BY <2>3, <2>4, <2>5, <2>6
<1> QED
  BY <1>3, <1>4

\* A passed route stays in the convex hull of its fence, whatever the shape of the
\* fence: each half plane that has every vertex has every waypoint and every point of
\* every leg.
RouteInHull ==
    result.passed =>
        \A x, y, z \in Int :
            (\A i \in DOMAIN plan.fence : plan.fence[i] \in HalfPlane(x, y, z)) =>
                /\ \A i \in DOMAIN plan.route : plan.route[i].at \in HalfPlane(x, y, z)
                /\ \A i \in 1 .. Len(plan.route) - 1 :
                       Leg(plan.route[i].at, plan.route[i + 1].at) \subseteq HalfPlane(x, y, z)

\* Only waypoints are checked, but what is flown between them is in the hull as well
\* (validation.py:15-27, 39-51).
THEOREM PassedIsInHull == ValidationSpec => []RouteInHull
<1>1. ResultIsOfCase => RouteInHull
  <2> SUFFICES ASSUME ResultIsOfCase, result.passed, NEW x \in Int, NEW y \in Int, NEW z \in Int,
                      \A i \in DOMAIN plan.fence : plan.fence[i] \in HalfPlane(x, y, z)
               PROVE  /\ \A i \in DOMAIN plan.route : plan.route[i].at \in HalfPlane(x, y, z)
                      /\ \A i \in 1 .. Len(plan.route) - 1 :
                             Leg(plan.route[i].at, plan.route[i + 1].at) \subseteq HalfPlane(x, y, z)
    BY DEF RouteInHull
  <2>1. \A i \in DOMAIN plan.route : plan.route[i].at \in HalfPlane(x, y, z)
    BY PassedResult, PlanType, InsideIsInHull
  <2>2. ASSUME NEW i \in 1 .. Len(plan.route) - 1
        PROVE  Leg(plan.route[i].at, plan.route[i + 1].at) \subseteq HalfPlane(x, y, z)
    <3>1. i \in DOMAIN plan.route /\ i + 1 \in DOMAIN plan.route
      BY DEF ResultIsOfCase, IsPlan
    <3> QED
      BY <2>1, <3>1, LegInHalfPlane
  <2> QED
    BY <2>1, <2>2
<1> QED
  BY <1>1, ResultInvariant, PTL

\* The points on one side of an edge.
LEMMA SideIsHalfPlane ==
    ASSUME NEW a \in Points, NEW b \in Points, NEW side \in {-1, 1}
    PROVE  \E x, y, z \in Int : \A q \in Points : q \in HalfPlane(x, y, z) <=> side * Turn(a, b, q) >= 0
<1>1. a.lon \in Int /\ a.lat \in Int /\ b.lon \in Int /\ b.lat \in Int
  BY DEF Points
<1> DEFINE x == - side * (b.lat - a.lat)
           y == side * (b.lon - a.lon)
           z == side * ((b.lon - a.lon) * a.lat - (b.lat - a.lat) * a.lon)
<1>2. x \in Int /\ y \in Int /\ z \in Int
  BY <1>1
<1>3. ASSUME NEW q \in Points PROVE x * q.lon + y * q.lat - z = side * Turn(a, b, q)
  <2>1. q.lon \in Int /\ q.lat \in Int
    BY DEF Points
  <2>2. CASE side = 1
    BY <1>1, <2>1, <2>2, SMT DEF Turn
  <2>3. CASE side = -1
    BY <1>1, <2>1, <2>3, SMT DEF Turn
  <2> QED
    BY <2>2, <2>3
<1> HIDE DEF x, y, z
<1> QED
  BY <1>2, <1>3 DEF HalfPlane

\* No leg of a passed route leaves a convex fence, of any number of vertices and given
\* either way round (validation.py:39-51).
THEOREM PassedIsInside == ValidationSpec => []PassedStaysInside
<1>1. ResultIsOfCase /\ RouteInHull => PassedStaysInside
  <2> SUFFICES ASSUME ResultIsOfCase, RouteInHull, result.passed, NEW side \in {-1, 1},
                      ConvexTo(plan.fence, side), NEW i \in 1 .. Len(plan.route) - 1,
                      NEW p \in Leg(plan.route[i].at, plan.route[i + 1].at), NEW j \in DOMAIN plan.fence
               PROVE  side * Turn(Before(plan.fence, j), plan.fence[j], p) >= 0
    BY DEF PassedStaysInside, OneSide
  <2>1. plan.fence \in Seq(Points) /\ Len(plan.fence) >= 3
    BY PlanType
  <2>2. Before(plan.fence, j) \in Points /\ plan.fence[j] \in Points
    BY <2>1 DEF Before
  <2>3. PICK x, y, z \in Int : \A q \in Points :
            q \in HalfPlane(x, y, z) <=> side * Turn(Before(plan.fence, j), plan.fence[j], q) >= 0
    BY <2>2, SideIsHalfPlane
  <2>4. \A k \in DOMAIN plan.fence : plan.fence[k] \in HalfPlane(x, y, z)
    BY <2>1, <2>3, ElementIn DEF ConvexTo, OneSide
  <2>5. p \in HalfPlane(x, y, z)
    BY <2>4 DEF RouteInHull
  <2> QED
    BY <2>3, <2>5 DEF HalfPlane
<1> QED
  BY <1>1, ResultInvariant, PassedIsInHull, PTL

=============================================================================
