----------------------------- MODULE Walkthrough -----------------------------
(* The walkthrough of a fuel plan on the map page: its steps, the step shown  *)
(* and the chat that explains it (OptimizationWalkthrough.tsx with the step   *)
(* state of routes/_layout/map.tsx).  Routes, plans, pickups and the chat's   *)
(* answers come and go independently of what the user is looking at.          *)
EXTENDS RouteSteps, ExplainChat

CONSTANTS
  Polylines,  \* routes the map may be given, as their vertices
  Responses,  \* plans the optimizer may return
  Pickups,    \* points a pickup may be at, off the route or on it
  Reserve, PerGallon, InitialFuel,
  MaxTurns    \* bound: routes, plans, pickups, steps and explanations chosen

\* What the backend may send: the fuel a start or a stop departs with is never
\* negative, the fuel projected at a goal that was not reached may be.
Fuel == Nat \cup {Undefined}

PlanPoint ==
  [sequence : Nat, offset : Nat, fuel : Int, after : Fuel,
   kind : {"start", "station", "refuel", "destination", "unreachable_station"},
   status : {"reached", "unreachable"}, primary : BOOLEAN, failurePoint : BOOLEAN]

PlanStop == [sequence : Nat, offset : Nat, after : Fuel]

\* Points are numbered along the route.
AlongRoute(points) ==
  /\ IsFiniteSet(points)
  /\ \A p, q \in points :
       p # q => \/ p.sequence < q.sequence /\ p.offset <= q.offset
                \/ q.sequence < p.sequence /\ q.offset <= p.offset

Plan(r) ==
  /\ r \in [run : Nat, itinerary : SUBSET PlanPoint, stops : SUBSET PlanStop]
  /\ AlongRoute(r.itinerary) /\ AlongRoute(r.stops)
  /\ \A p \in r.itinerary : p.kind = "start" => p.fuel \in Fuel

\* Vertices by their distances from the first, as the page measures them.
Measured(route) ==
  /\ route \in Seq(Nat)
  /\ route # <<>> => route[1] = 0
  /\ \A i, j \in DOMAIN route : i <= j => route[i] <= route[j]

ASSUME WalkthroughAssumption ==
  /\ \A route \in Polylines : Measured(route) /\ Len(route) >= 2
  /\ Pickups \subseteq Nat
  /\ Reserve \in Nat /\ PerGallon \in Nat /\ InitialFuel \in Nat
  /\ \A r \in Responses : Plan(r)

VARIABLES
  coordinates,  \* routeCoordinates, or <<>> when there is no route
  response,     \* optimizationResult, or Nobody
  pickup,       \* shipmentPickup: where it is, or Undefined
  active,       \* activeStepIndex
  explain,      \* explainTarget
  turns

walkVars == <<coordinates, response, pickup, active, explain, turns, chatVars>>

Anchors == {"start", "pickup", "destination"}

StepsOf(r, route, p) ==
  IF r = Nobody \/ route = <<>> THEN <<>>
  ELSE BuildSteps(r, route, InitialFuel,
                  IF p = Undefined THEN Undefined ELSE OffsetOf(route, p))

Steps == StepsOf(response, coordinates, pickup)

\* The panel falls back to the first step when there are fewer than before.
ShownIndex(steps, index) == IF index < Len(steps) THEN index + 1 ELSE 1
ActiveStep == Steps[ShownIndex(Steps, active)]

\* The map has no such fallback: beyond the last step it is handed none.
MapHasStep == active < Len(Steps)
MapStep == Steps[active + 1]

\* The figures of the panel.  Fuel is departed with at the start and at a stop;
\* the step after the active one is missing at the end, and beyond it too.
DepartureFuel(step) == IF step.kind \in {"start", "stop"} THEN step.fuel ELSE Undefined

Figures(step, index) ==
  [rangeOnFuel |-> IF DepartureFuel(step) = Undefined THEN Undefined
                   ELSE step.fuel * PerGallon,
   rangeWithoutReserve |-> IF DepartureFuel(step) = Undefined THEN Undefined
                           ELSE Max({0, step.fuel - Reserve}) * PerGallon,
   toNext |-> IF index + 2 \in DOMAIN Steps THEN Steps[index + 2].offset - step.offset
              ELSE Undefined,
   toDestination |-> IF step.kind = "destination" THEN Undefined
                     ELSE TotalDistance(coordinates) - step.offset]

\* The blocks of details, each with the figures it may have; a start is an
\* anchor too and has its distances twice.
StartBlock == {"rangeOnFuel", "rangeWithoutReserve", "toNext", "toDestination"}
CheckpointBlock == {"toDestination"}
StopBlock == {"rangeOnFuel", "rangeWithoutReserve", "toNext", "toDestination"}
AnchorBlock == {"toNext", "toDestination"}

Details(step, index) ==
  LET named == (IF step.kind = "start" THEN StartBlock ELSE {})
                 \cup (IF step.kind = "checkpoint" THEN CheckpointBlock ELSE {})
                 \cup (IF step.kind = "stop" THEN StopBlock ELSE {})
                 \cup (IF step.kind \in Anchors THEN AnchorBlock ELSE {})
      figures == Figures(step, index)
  IN  [f \in {g \in named : figures[g] # Undefined} |-> figures[f]]

\* What the chat asks about: the plan, a stop of it by sequence, or an anchor.
Subject(r, steps, index, target) ==
  IF steps = <<>> \/ target = Nobody THEN Nobody
  ELSE [plan |-> r.run,
        stop |-> IF target = "step" THEN steps[ShownIndex(steps, index)].sequence
                 ELSE Undefined,
        anchor |-> IF target \in Anchors THEN target ELSE Nobody]

\* The panel is unmounted with its last step, and forgets the chat's target.
Show(r, route, p, index, target) ==
  LET steps == StepsOf(r, route, p)
      kept == IF steps = <<>> THEN Nobody ELSE target
  IN  /\ response' = r /\ coordinates' = route /\ pickup' = p
      /\ active' = index /\ explain' = kept
      /\ Retarget(Subject(r, steps, index, kept))

Turn == turns < MaxTurns /\ turns' = turns + 1

WalkInit ==
  /\ coordinates = <<>>
  /\ response = Nobody
  /\ pickup = Undefined
  /\ active = 0
  /\ explain = Nobody
  /\ turns = 0
  /\ ChatInit

\* The plan is kept, and the step shown with it, when the route is replaced.
RouteDrawn(route) ==
  Turn /\ route # coordinates /\ Show(response, route, pickup, active, explain)

PlanShownAtStep(r) ==
  Turn /\ Show([r EXCEPT !.run = turns + 1], coordinates, pickup, active, explain)

\* A plan arrives, and its first step is shown; the page may have lost its
\* route in the meantime.
PlanShown(r) ==
  Turn /\ Show([r EXCEPT !.run = turns + 1], coordinates, pickup, 0, explain)

LayersReset ==
  /\ Turn
  /\ response # Nobody \/ coordinates # <<>>
  /\ Show(Nobody, <<>>, pickup, 0, explain)

ChangePickup(p) ==
  Turn /\ p # pickup /\ Show(response, coordinates, p, active, explain)

\* A pill, Back or Next; the index is kept within the steps.
HandleStepChange(index) ==
  /\ Turn
  /\ Steps # <<>>
  /\ Show(response, coordinates, pickup, Max({0, Min({index, Len(Steps) - 1})}), explain)

Back == active > 0 /\ HandleStepChange(active - 1)
Next1 == active < Len(Steps) - 1 /\ HandleStepChange(active + 1)
Jump == \E i \in DOMAIN Steps : HandleStepChange(i - 1)

\* "Explain plan", "Explain this stop" and "Explain this point".
Offered(target) ==
  CASE target = "plan" -> TRUE
    [] target = "step" -> ActiveStep.kind = "stop" /\ ActiveStep.sequence # Undefined
    [] OTHER -> ActiveStep.kind = target

Explain(target) ==
  /\ Turn
  /\ Steps # <<>>
  /\ Offered(target)
  /\ Show(response, coordinates, pickup, active, target)

CloseExplain ==
  /\ Turn
  /\ explain # Nobody
  /\ Show(response, coordinates, pickup, active, Nobody)

WalkNext ==
  \/ \E route \in Polylines : RouteDrawn(route)
  \/ \E r \in Responses : PlanShown(r)
  \/ LayersReset
  \/ \E p \in Pickups \cup {Undefined} : ChangePickup(p)
  \/ Back
  \/ Next1
  \/ Jump
  \/ \E target \in Anchors \cup {"plan", "step"} : Explain(target)
  \/ CloseExplain
  \/ ChatNext /\ UNCHANGED <<coordinates, response, pickup, active, explain, turns>>

WalkSpec == WalkInit /\ [][WalkNext]_walkVars /\ ChatFairness

-----------------------------------------------------------------------------
(* Properties. *)

\* A plan without an itinerary ends where the route does, so that the page's
\* destination is its last point only while no stop lies beyond the end.  The
\* backend measures the route as an ellipsoid's line and takes its length from
\* the provider, the page measures it on a sphere; and the route may since have
\* been replaced by a shorter one.
EndIsLast ==
  \/ response.itinerary # {}
  \/ \A stop \in response.stops : stop.offset <= TotalDistance(coordinates)

\* Wherever the pickup is put, the stops keep the numbers they have without it,
\* and the steps come in the order of the route: those of an itinerary whatever
\* route they are shown on.
PickupKeepsOrder ==
  LET base == StepsOf(response, coordinates, Undefined)
      kept == {i \in DOMAIN Steps : Steps[i].kind # "pickup"}
  IN  /\ Steps # <<>> /\ EndIsLast =>
           \A i, j \in DOMAIN Steps : i < j => Steps[i].offset <= Steps[j].offset
      /\ {<<Ordinal(Steps, i), Steps[i]>> : i \in kept}
           = {<<Ordinal(base, i), base[i]>> : i \in DOMAIN base}

\* The two lines of ReachableRouteLayer, on fuel and on reserve, cover what
\* the step on the map can reach of the route shown, exactly and without
\* overlap, whichever route the plan was made for.
Covers(line, from, to) ==
  IF from = to THEN line = <<>> ELSE line # <<>> /\ Head(line) = from /\ Last(line) = to

MapSpan == Span(MapStep, PerGallon, TotalDistance(coordinates), Reserve)
MapHasSpan ==
  MapHasStep /\ HasSpan(MapStep, PerGallon, TotalDistance(coordinates), Reserve)

SpanIsDrawn ==
  MapHasSpan =>
    /\ Covers(SliceRouteByDistance(coordinates, MapSpan.start, MapSpan.reserveStart),
              MapSpan.start, MapSpan.reserveStart)
    /\ Covers(SliceRouteByDistance(coordinates, MapSpan.reserveStart, MapSpan.end),
              MapSpan.reserveStart, MapSpan.end)

\* Panel and map resolve the active index separately, and have the same step
\* but in one case: the pickup was taken off the plan while its last step was
\* shown; the panel then falls back to the first step and the map draws none.
\* With the same step, and that on the route shown, the ranges the panel names
\* are the lines drawn, as far as the route goes: "uses the same
\* fuel-to-distance conversion as the 'Range on fuel' figure in the walkthrough
\* panel".  No distance it names then runs backwards.
PanelMatchesMap ==
  Steps # <<>> =>
    LET shown == Details(ActiveStep, active)
        left == TotalDistance(coordinates) - ActiveStep.offset
        reach(end) == IF MapHasSpan THEN end - MapSpan.start ELSE 0
    IN  /\ MapHasStep \/ (pickup = Undefined /\ active = Len(Steps))
        /\ MapHasStep => ActiveStep = MapStep
        /\ MapHasStep /\ left >= 0 =>
             /\ \A f \in DOMAIN shown : shown[f] >= 0
             /\ "rangeOnFuel" \in DOMAIN shown =>
                  /\ reach(MapSpan.end) = Min({left, shown["rangeOnFuel"]})
                  /\ reach(MapSpan.reserveStart) = Min({left, shown["rangeWithoutReserve"]})
=============================================================================
