------------------------------- MODULE MapPage -------------------------------
(* The map page of the frontend (frontend/src/routes/_layout/map.tsx) and its *)
(* refine control: three requests whose answers come back in any order while  *)
(* the user goes on changing the page.                                        *)
(*                                                                            *)
(*   overview    the route and its layers (`mutation`),                       *)
(*   optimizing  the fuel plan of the route (`fuelOptimizationMutation`),     *)
(*   creating, recalculating  the refined trip of the plan (RefineRouteControl)*)
(*                                                                            *)
(* A handler of a mutation runs with the page's values at the time of the     *)
(* answer: useMutation hands every render's callbacks to the pending mutation.*)
EXTENDS ReserveRules, FiniteSets

CONSTANTS
  Vehicles,   \* the vehicles the selector lists
  Tank,       \* usable gallons of each
  Reserves,   \* what the user may type as the reserve, in quarter gallons
  Routes,     \* ids of stored routes
  MaxRuns,    \* bound: optimization runs the backend makes
  None

VARIABLES
  vehicle,        \* selectedVehicleId
  constrained,    \* useVehicleConstraints
  reserve,        \* reserveGallons
  routeId,        \* the route the optimizer is asked about
  drawn,          \* routeCoordinates: the route, and what its request asked for
  calculatedWith, \* what the page says the route was built with
  overview,       \* the pending route request
  optimizing,     \* the route of the pending optimization request
  result,         \* optimizationResult: its run and the route it is of
  runs,           \* runs the backend has made
  trip,           \* tripPlan: the run it was created for
  creating,       \* runs a trip is being created for
  recalculating,  \* trips being refined again
  tracked,        \* the request the mounted refine control waits for
  made,           \* trips acknowledged for each run
  refinedVisible  \* the refined-route layer is switched on

routeVars == <<routeId, drawn, calculatedWith>>
planVars == <<result, runs>>
tripVars == <<trip, creating, recalculating, tracked, made, refinedVisible>>
formVars == <<vehicle, constrained, reserve>>
vars == <<formVars, routeVars, overview, optimizing, planVars, tripVars>>

Runs == 1 .. MaxRuns
Settings == [vehicle : Vehicles \cup {None}, enabled : BOOLEAN]
Drawings == [route : Routes, vehicle : Vehicles \cup {None}, enabled : BOOLEAN]
Results == [run : Runs, route : Routes]
Refinements == [kind : {"create", "recalculate"}, run : Runs]

ASSUME MapPageAssumption ==
  /\ Tank \in [Vehicles -> Nat \ {0}]
  /\ Reserves \subseteq Nat
  /\ MaxRuns \in Nat
  /\ None \notin Vehicles /\ None \notin Routes /\ None \notin Runs
  /\ None \notin Settings /\ None \notin Drawings
  /\ None \notin Results /\ None \notin Refinements

\* The types of the page's state.
TypeOK ==
  /\ vehicle \in Vehicles \cup {None}
  /\ constrained \in BOOLEAN
  /\ reserve \in Nat
  /\ routeId \in Routes \cup {None}
  /\ drawn \in Drawings \cup {None}
  /\ calculatedWith \in Settings \cup {None}
  /\ overview \in Settings \cup {None}
  /\ optimizing \in Routes \cup {None}
  /\ result \in Results \cup {None}
  /\ runs \in 0 .. MaxRuns
  /\ trip \in Runs \cup {None}
  /\ creating \subseteq Runs
  /\ recalculating \subseteq Runs
  /\ tracked \in Refinements \cup {None}
  /\ made \in [Runs -> Nat]
  /\ refinedVisible \in BOOLEAN

Init ==
  /\ vehicle = None
  /\ constrained = TRUE
  /\ reserve = 12
  /\ routeId = None
  /\ drawn = None
  /\ calculatedWith = None
  /\ overview = None
  /\ optimizing = None
  /\ result = None
  /\ runs = 0
  /\ trip = None
  /\ creating = {}
  /\ recalculating = {}
  /\ tracked = None
  /\ made = [r \in Runs |-> 0]
  /\ refinedVisible = FALSE

-----------------------------------------------------------------------------
(* The form. *)

\* Selecting a vehicle proposes a reserve for its tank.
HandleSelectVehicle(v) ==
  /\ vehicle' = v
  /\ reserve' = GetDefaultReserve(Tank[v])
  /\ UNCHANGED <<constrained, routeVars, overview, optimizing, planVars, tripVars>>

ToggleConstraints ==
  /\ constrained' = ~constrained
  /\ UNCHANGED <<vehicle, reserve, routeVars, overview, optimizing, planVars, tripVars>>

\* The reserve field is in the fuel panel, which a route id brings up.
EditReserve(q) ==
  /\ routeId # None
  /\ reserve' = q
  /\ UNCHANGED <<vehicle, constrained, routeVars, overview, optimizing, planVars, tripVars>>

HandleToggleLayer ==
  /\ refinedVisible' = ~refinedVisible
  /\ UNCHANGED <<formVars, routeVars, overview, optimizing, planVars,
                 trip, creating, recalculating, tracked, made>>

-----------------------------------------------------------------------------
(* The route. *)

\* "Calculate" and "Refresh": both are disabled while a request is pending.
HandleCalculateRoute ==
  /\ overview = None
  /\ overview' = [vehicle |-> IF constrained THEN vehicle ELSE None,
                  enabled |-> constrained]
  /\ UNCHANGED <<formVars, routeVars, optimizing, planVars, tripVars>>

\* The steps of the walkthrough, and with them its panel and the refine
\* control in it, are there while a result and a route are.
Walkthrough == result # None /\ drawn # None

ResetLayersKeepingRouteId ==
  /\ drawn' = None
  /\ calculatedWith' = None
  /\ result' = None
  /\ trip' = None
  /\ tracked' = None
  /\ UNCHANGED <<routeId, runs, creating, recalculating, made, refinedVisible>>

ResetLayers ==
  /\ drawn' = None
  /\ routeId' = None
  /\ calculatedWith' = None
  /\ result' = None
  /\ trip' = None
  /\ tracked' = None
  /\ UNCHANGED <<runs, creating, recalculating, made, refinedVisible>>

\* A route with geometry arrives.  The plan and the trip of the route before
\* stay on the page.
RouteArrives(g) ==
  /\ overview # None
  /\ overview' = None
  /\ drawn' = [route |-> g, vehicle |-> overview.vehicle, enabled |-> overview.enabled]
  /\ calculatedWith' = [vehicle |-> vehicle, enabled |-> constrained]
  /\ routeId' = g
  /\ UNCHANGED <<formVars, optimizing, planVars, tripVars>>

\* An answer without usable geometry clears the page.
RouteWithoutGeometry ==
  /\ overview # None
  /\ overview' = None
  /\ ResetLayers
  /\ UNCHANGED <<formVars, optimizing>>

RouteFails ==
  /\ overview # None
  /\ overview' = None
  /\ UNCHANGED <<formVars, routeVars, optimizing, planVars, tripVars>>

-----------------------------------------------------------------------------
(* The fuel plan. *)

HandleOptimizeFuel ==
  /\ routeId # None
  /\ optimizing = None
  /\ vehicle # None
  /\ WithinLimits(reserve, Tank[vehicle])
  /\ optimizing' = routeId
  /\ UNCHANGED <<formVars, routeVars, overview, planVars, tripVars>>

\* The plan is kept feasible or not; the trip of the plan before is dropped.
PlanArrives ==
  /\ optimizing # None
  /\ runs < MaxRuns
  /\ optimizing' = None
  /\ runs' = runs + 1
  /\ result' = [run |-> runs + 1, route |-> optimizing]
  /\ trip' = None
  /\ UNCHANGED <<formVars, routeVars, overview,
                 creating, recalculating, tracked, made, refinedVisible>>

PlanFails ==
  /\ optimizing # None
  /\ optimizing' = None
  /\ UNCHANGED <<formVars, routeVars, overview, planVars, tripVars>>

-----------------------------------------------------------------------------
(* The refined trip. *)

\* "Refine route via stops": creates the run's trip, or refines the trip shown.
Refine ==
  /\ Walkthrough
  /\ tracked = None
  /\ IF trip # None
     THEN /\ tracked' = [kind |-> "recalculate", run |-> trip]
          /\ recalculating' = recalculating \cup {trip}
          /\ UNCHANGED creating
     ELSE /\ tracked' = [kind |-> "create", run |-> result.run]
          /\ creating' = creating \cup {result.run}
          /\ UNCHANGED recalculating
  /\ UNCHANGED <<formVars, routeVars, overview, optimizing, planVars,
                 trip, made, refinedVisible>>

\* The control stops waiting when its own request is answered.
Untrack(kind, r) ==
  tracked' = IF tracked = [kind |-> kind, run |-> r] THEN None ELSE tracked

HandleTripPlanDrawn(r, geometry) ==
  /\ trip' = IF geometry THEN r ELSE trip
  /\ refinedVisible' = (refinedVisible \/ geometry)

\* handleTripPlanChange: a plan with geometry also reveals its layer.  It runs
\* for an answer that outlives the control, too.
HandleTripPlanChange(r, geometry) ==
  /\ trip' = r
  /\ refinedVisible' = (refinedVisible \/ geometry)

TripCreated(r, geometry) ==
  /\ r \in creating
  /\ creating' = creating \ {r}
  /\ made' = [made EXCEPT ![r] = @ + 1]
  /\ HandleTripPlanChange(r, geometry)
  /\ Untrack("create", r)
  /\ UNCHANGED <<formVars, routeVars, overview, optimizing, planVars, recalculating>>

TripRecalculated(r, geometry) ==
  /\ r \in recalculating
  /\ recalculating' = recalculating \ {r}
  /\ HandleTripPlanChange(r, geometry)
  /\ Untrack("recalculate", r)
  /\ UNCHANGED <<formVars, routeVars, overview, optimizing, planVars, creating, made>>

RefineFails(r) ==
  /\ \/ /\ r \in creating
        /\ creating' = creating \ {r}
        /\ Untrack("create", r)
        /\ UNCHANGED recalculating
     \/ /\ r \in recalculating
        /\ recalculating' = recalculating \ {r}
        /\ Untrack("recalculate", r)
        /\ UNCHANGED creating
  /\ UNCHANGED <<formVars, routeVars, overview, optimizing, planVars,
                 trip, made, refinedVisible>>

-----------------------------------------------------------------------------
Next ==
  \/ \E v \in Vehicles : HandleSelectVehicle(v)
  \/ ToggleConstraints
  \/ \E q \in Reserves : EditReserve(q)
  \/ HandleToggleLayer
  \/ HandleCalculateRoute
  \/ \E g \in Routes : RouteArrives(g)
  \/ RouteWithoutGeometry
  \/ RouteFails
  \/ HandleOptimizeFuel
  \/ PlanArrives
  \/ PlanFails
  \/ Refine
  \/ \E r \in Runs, geometry \in BOOLEAN : TripCreated(r, geometry)
  \/ \E r \in Runs, geometry \in BOOLEAN : TripRecalculated(r, geometry)
  \/ \E r \in Runs : RefineFails(r)

Spec == Init /\ [][Next]_vars

-----------------------------------------------------------------------------
(* Properties. *)

\* An optimization is asked for the route on the map and for a selected
\* vehicle whose tank allows the reserve: the route's id and its geometry come
\* from the same answer, whatever answers came before.
OptimizesShownRoute ==
  [][optimizing' # None /\ optimizing = None =>
       /\ drawn # None /\ optimizing' = drawn.route
       /\ vehicle # None /\ WithinLimits(reserve, Tank[vehicle])]_vars

\* The page is never told of two trips made for one optimization run, although
\* the control that asks for them may be unmounted while it waits and plans
\* and routes arrive in between.
OneTripPerRun == \A r \in Runs : made[r] <= 1

\* "What the last calculated route was built with, to flag stale routes."
CalculatedWithRequest ==
  drawn # None =>
    /\ calculatedWith.enabled = drawn.enabled
    /\ drawn.enabled => calculatedWith.vehicle = drawn.vehicle
=============================================================================
