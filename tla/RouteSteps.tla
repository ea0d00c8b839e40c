----------------------------- MODULE RouteSteps ------------------------------
(* The steps of the walkthrough and the part of the route a step can reach    *)
(* (frontend/src/lib/fuelOptimizationWalkthrough.ts).  A point of the route   *)
(* is its distance from the start; a route is the sequence of its vertices.   *)
EXTENDS ReserveRules, Sequences, FiniteSets, SequencesExt, FiniteSetsExt

\* calculateRouteTotalDistanceMeters
TotalDistance(route) == IF Len(route) < 2 THEN 0 ELSE Last(route)

\* A point of the itinerary is shown when it is the goal the plan failed at,
\* or was reached and is more than a station passed by.
Shown(point) ==
  IF point.status = "unreachable" THEN point.primary
  ELSE point.kind # "station" \/ point.failurePoint

StepKind(point) ==
  CASE point.kind \in {"start", "destination"} -> point.kind
    [] point.kind = "station" -> "checkpoint"
    [] OTHER -> IF point.status = "unreachable" THEN "unreachable_station" ELSE "stop"

\* A step, with the fuel it departs with.
Step(kind, status, offset, sequence, fuel) ==
  [kind |-> kind, status |-> status, offset |-> offset,
   sequence |-> sequence, fuel |-> fuel]

\* A value a step lacks.
Undefined == 0 - 1

\* The points in the order of their sequence numbers, of which no two are the
\* same.
BySequence(points) ==
  [i \in 1 .. Cardinality(points) |->
     CHOOSE p \in points :
       Cardinality({q \in points : q.sequence < p.sequence}) = i - 1]

\* Without an itinerary: the start, the stops in order, the destination.
StepsOfStops(stops, route, fuel) ==
  LET start == Step("start", "reached", 0, Undefined, fuel)
      end == Step("destination", "reached", TotalDistance(route), Undefined, 0)
      ordered == BySequence(stops)
      middle == [i \in DOMAIN ordered |->
                   Step("stop", "reached", ordered[i].offset, Undefined, ordered[i].after)]
  IN  IF route = <<>> THEN middle ELSE <<start>> \o middle \o <<end>>

BuildBaseSteps(response, route, fuel) ==
  IF response.itinerary # {}
  THEN LET points == BySequence({p \in response.itinerary : Shown(p)})
       IN  [i \in DOMAIN points |->
              Step(StepKind(points[i]), points[i].status, points[i].offset,
                   points[i].sequence,
                   IF StepKind(points[i]) = "stop" THEN points[i].after
                   ELSE points[i].fuel)]
  ELSE StepsOfStops(response.stops, route, fuel)

PickupBeforeDestination(steps, offset) == Max({1, Len(steps)})

\* The pickup goes before the first step beyond it.
PickupPosition(steps, offset) ==
  LET beyond == {i \in DOMAIN steps : steps[i].offset > offset}
  IN  IF beyond = {} THEN Len(steps) + 1 ELSE Min(beyond)

WithPickup(steps, pickup) ==
  IF pickup = Undefined THEN steps
  ELSE InsertAt(steps, PickupPosition(steps, pickup),
                Step("pickup", "reached", pickup, Undefined, Undefined))

BuildSteps(response, route, fuel, pickup) ==
  WithPickup(BuildBaseSteps(response, route, fuel), pickup)

\* The number shown on a step: its place, the pickups up to it not counted.
Ordinal(steps, i) ==
  (i - 1) - Cardinality({j \in 1 .. i : steps[j].kind = "pickup"})

\* routeOffsetOfCoordinate for a point beside the route at distance x: the
\* first of the vertices nearest to it.
OffsetOf(route, x) ==
  LET gap(v) == IF v >= x THEN v - x ELSE x - v
      nearest == {i \in DOMAIN route : \A j \in DOMAIN route : gap(route[i]) <= gap(route[j])}
  IN  IF route = <<>> THEN 0 ELSE route[Min(nearest)]

-----------------------------------------------------------------------------
\* The span of the route a step reaches on the fuel it departs with, and where
\* on it the reserve begins.
Span(step, perGallon, total, reserve) ==
  LET end == Least(total, step.offset + Most(0, step.fuel) * perGallon)
  IN  [start |-> step.offset,
       reserveStart |-> Least(end, step.offset
                          + Most(0, step.fuel - Most(0, reserve)) * perGallon),
       end |-> end]

\* A destination departs nowhere, and a step may reach nothing.
HasSpan(step, perGallon, total, reserve) ==
  /\ step.kind # "destination" /\ step.fuel # Undefined
  /\ perGallon > 0
  /\ Span(step, perGallon, total, reserve).end > step.offset

SegmentUncut(route, i, from, to) ==
  [from |-> route[i], to |-> Most(route[i], Least(route[i + 1], to))]

\* The points drawn for the part of the route from one distance to another:
\* each segment it touches, cut to it; a point drawn already is not repeated.
SegmentPart(route, i, from, to) ==
  [from |-> Most(route[i], Least(route[i + 1], from)),
   to |-> Most(route[i], Least(route[i + 1], to))]

Drawn(line, part) ==
  LET opened == IF line = <<>> THEN <<part.from>> ELSE line
  IN  IF Last(opened) = part.to THEN opened ELSE Append(opened, part.to)

Touched(route, i, from, to) == route[i + 1] >= from /\ route[i] <= to

SliceRouteByDistance(route, from, to) ==
  LET segments == Len(route) - 1
      upTo[i \in 0 .. segments] ==
        CASE i = 0 -> <<>>
          [] i > 0 /\ Touched(route, i, from, to) ->
               Drawn(upTo[i - 1], SegmentPart(route, i, from, to))
          [] OTHER -> upTo[i - 1]
  IN  IF Len(route) < 2 \/ to <= from \/ Len(upTo[segments]) < 2 THEN <<>>
      ELSE upTo[segments]
=============================================================================
