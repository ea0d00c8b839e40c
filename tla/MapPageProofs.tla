--------------------------- MODULE MapPageProofs ---------------------------
(* What the map page keeps for every set of vehicles, routes and runs: the    *)
(* optimizer is asked about the route on the map, and the refine control does *)
(* not make a second trip of a plan, whatever the order of the answers.       *)
(* What holds of its address form for all texts, vehicles, shipments and      *)
(* numbers of inputs: the suggestion on offer and the marker on the map are   *)
(* those of the text the field holds, in every order of timers and answers,   *)
(* and a search ends once its field is left alone.                            *)
(* And what holds of its walkthrough for all routes, plans, pickups, reserves  *)
(* and numbers of steps: its steps are in order, its panel and its map agree,  *)
(* and the chat beside it is about what is shown, whatever the order of        *)
(* answers.                                                                    *)
EXTENDS MapPage, RouteForm, Walkthrough, FiniteSetTheorems, SequenceTheorems, TLAPS

(***************************************************************************)
(* The reserve of a tank.                                                  *)
(***************************************************************************)

\* 10% of a tank is a natural number of quarter gallons, at most four more
\* than its share.
LEMMA TenthIsNat ==
  ASSUME NEW tank \in Nat
  PROVE  TenthRounded(tank) \in Nat
BY SMT DEF TenthRounded

\* The reserve proposed for a vehicle is one its tank allows, for every tank:
\* handleOptimizeFuel never refuses what handleSelectVehicle has filled in.
THEOREM DefaultReserveAllowed ==
  ASSUME NEW tank \in Nat \ {0}
  PROVE  /\ GetDefaultReserve(tank) \in Nat
         /\ WithinLimits(GetDefaultReserve(tank), tank)
<1>1. TenthRounded(tank) \in Nat
  BY TenthIsNat
<1>2. QED
  BY <1>1 DEF GetDefaultReserve, WithinLimits, GetReserveLimits, MinDefaultReserve,
              MaxReserve, Least, Most

(***************************************************************************)
(* Types.                                                                  *)
(***************************************************************************)

\* Every part of the page's state keeps its type.
THEOREM TypeCorrect == Spec => []TypeOK
<1>1. Init => TypeOK
  <2>1. 0 \in 0 .. MaxRuns
    BY MapPageAssumption
  <2>2. [r \in Runs |-> 0] \in [Runs -> Nat]
    OBVIOUS
  <2>3. Init => reserve \in Nat
    BY DEF Init
  <2>4. QED
    BY <2>1, <2>2, <2>3, Zenon DEF Init, TypeOK
<1>2. TypeOK /\ [Next]_vars => TypeOK'
  <2> SUFFICES ASSUME TypeOK, [Next]_vars PROVE TypeOK'
    OBVIOUS
  <2> USE DEF TypeOK, routeVars, planVars, tripVars, formVars
  <2>1. ASSUME NEW v \in Vehicles, HandleSelectVehicle(v) PROVE TypeOK'
    <3>1. Tank[v] \in Nat \ {0}
      BY MapPageAssumption
    <3>2. GetDefaultReserve(Tank[v]) \in Nat
      BY <3>1, DefaultReserveAllowed
    <3>3. QED
      BY <2>1, <3>2 DEF HandleSelectVehicle
  <2>2. CASE ToggleConstraints
    BY <2>2 DEF ToggleConstraints
  <2>3. ASSUME NEW q \in Reserves, EditReserve(q) PROVE TypeOK'
    BY <2>3, MapPageAssumption DEF EditReserve
  <2>4. CASE HandleToggleLayer
    BY <2>4 DEF HandleToggleLayer
  <2>5. CASE HandleCalculateRoute
    BY <2>5 DEF HandleCalculateRoute, Settings
  <2>6. ASSUME NEW g \in Routes, RouteArrives(g) PROVE TypeOK'
    BY <2>6 DEF RouteArrives, Settings, Drawings
  <2>7. CASE RouteWithoutGeometry
    BY <2>7 DEF RouteWithoutGeometry, ResetLayers
  <2>8. CASE RouteFails
    BY <2>8 DEF RouteFails
  <2>9. CASE HandleOptimizeFuel
    BY <2>9 DEF HandleOptimizeFuel
  <2>10. CASE PlanArrives
    <3>1. runs + 1 \in 0 .. MaxRuns /\ runs + 1 \in Runs
      BY <2>10, MapPageAssumption DEF PlanArrives, Runs
    <3>2. QED
      BY <2>10, <3>1 DEF PlanArrives, Results
  <2>11. CASE PlanFails
    BY <2>11 DEF PlanFails
  <2>12. CASE Refine
    BY <2>12 DEF Refine, Walkthrough, Results, Refinements
  <2>13. ASSUME NEW r \in Runs, NEW geometry \in BOOLEAN, TripCreated(r, geometry)
         PROVE TypeOK'
    BY <2>13 DEF TripCreated, HandleTripPlanChange, Untrack
  <2>14. ASSUME NEW r \in Runs, NEW geometry \in BOOLEAN, TripRecalculated(r, geometry)
         PROVE TypeOK'
    BY <2>14 DEF TripRecalculated, HandleTripPlanChange, Untrack
  <2>15. ASSUME NEW r \in Runs, RefineFails(r) PROVE TypeOK'
    BY <2>15 DEF RefineFails, Untrack
  <2>16. CASE UNCHANGED vars
    BY <2>16 DEF vars
  <2>17. QED
    BY <2>1, <2>2, <2>3, <2>4, <2>5, <2>6, <2>7, <2>8, <2>9, <2>10, <2>11, <2>12,
       <2>13, <2>14, <2>15, <2>16 DEF Next
<1>3. QED
  BY <1>1, <1>2, PTL DEF Spec

(***************************************************************************)
(* The route that is optimized.                                            *)
(***************************************************************************)

\* The id the optimizer is asked about and the geometry on the map come and go
\* together.
RouteIsDrawn == routeId = IF drawn = None THEN None ELSE drawn.route

\* No answer separates the two.
LEMMA RouteStaysDrawn == TypeOK /\ RouteIsDrawn /\ [Next]_vars => RouteIsDrawn'
<1> SUFFICES ASSUME TypeOK, RouteIsDrawn, [Next]_vars PROVE RouteIsDrawn'
  OBVIOUS
<1> USE DEF RouteIsDrawn, routeVars
<1>1. ASSUME NEW g \in Routes, RouteArrives(g) PROVE RouteIsDrawn'
  <2>1. drawn'.route = g /\ routeId' = g
    BY <1>1 DEF RouteArrives
  <2>2. drawn' \in Drawings
    BY <1>1 DEF RouteArrives, TypeOK, Settings, Drawings
  <2>3. QED
    BY <2>1, <2>2, MapPageAssumption
<1>2. CASE RouteWithoutGeometry
  BY <1>2 DEF RouteWithoutGeometry, ResetLayers
<1>3. CASE UNCHANGED routeVars
  BY <1>3
<1>4. QED
  BY <1>1, <1>2, <1>3
  DEF Next, vars, HandleSelectVehicle, ToggleConstraints, EditReserve, HandleToggleLayer,
      HandleCalculateRoute, RouteFails, HandleOptimizeFuel, PlanArrives, PlanFails, Refine,
      TripCreated, TripRecalculated, RefineFails

\* An optimization is asked for the route on the map and for a reserve the
\* selected vehicle allows, whatever routes and failures came before.
THEOREM ShownRouteOptimized == Spec => OptimizesShownRoute
<1>1. Init => RouteIsDrawn
  BY DEF Init, RouteIsDrawn
<1>2. ASSUME TypeOK, RouteIsDrawn, [Next]_vars, optimizing' # None, optimizing = None
      PROVE  /\ drawn # None /\ optimizing' = drawn.route
             /\ vehicle # None /\ WithinLimits(reserve, Tank[vehicle])
  <2>1. HandleOptimizeFuel
    BY <1>2 DEF Next, vars, HandleSelectVehicle, ToggleConstraints, EditReserve,
                HandleToggleLayer, HandleCalculateRoute, RouteArrives, RouteWithoutGeometry,
                RouteFails, PlanArrives, PlanFails, Refine, TripCreated, TripRecalculated,
                RefineFails
  <2>2. routeId # None /\ optimizing' = routeId
    BY <2>1 DEF HandleOptimizeFuel
  <2>3. drawn # None /\ routeId = drawn.route
    BY <1>2, <2>2 DEF RouteIsDrawn
  <2>4. vehicle # None /\ WithinLimits(reserve, Tank[vehicle])
    BY <2>1 DEF HandleOptimizeFuel
  <2>5. QED
    BY <2>2, <2>3, <2>4
<1>3. TypeOK /\ RouteIsDrawn /\ [Next]_vars =>
        [optimizing' # None /\ optimizing = None =>
           /\ drawn # None /\ optimizing' = drawn.route
           /\ vehicle # None /\ WithinLimits(reserve, Tank[vehicle])]_vars
  BY <1>2
<1>4. QED
  BY <1>1, <1>3, TypeCorrect, RouteStaysDrawn, PTL DEF Spec, OptimizesShownRoute

(***************************************************************************)
(* The trips of a run.                                                     *)
(*                                                                         *)
(* made[r] <= 1 is not inductive: that no second trip is asked for rests   *)
(* on what the control can see when it is pressed, the trip of the plan on *)
(* the page.  While a plan's trip is being created the control waits for   *)
(* it, or some trip has come to the page; once it was created a trip is on *)
(* the page, if the plan still is.  And a run is not on the page again     *)
(* after another one.                                                      *)
(***************************************************************************)

\* Runs not made yet have left no trace.
RunsSoFar ==
  /\ result # None => result.run <= runs
  /\ trip # None => trip <= runs
  /\ \A r \in creating \cup recalculating : r <= runs
  /\ \A r \in Runs : made[r] > 0 => r <= runs

\* No trip has been made of a run that one is being created for.
CreatedOnce == \A r \in creating : made[r] = 0

\* While its trip is being created the plan on the page is waited for.
CreationAwaited ==
  result # None /\ result.run \in creating =>
    tracked = [kind |-> "create", run |-> result.run] \/ trip # None

\* A plan whose trip was created has a trip on the page.
TripRemembered == result # None /\ made[result.run] > 0 => trip # None

TripInv == RunsSoFar /\ CreatedOnce /\ CreationAwaited /\ TripRemembered /\ OneTripPerRun

\* A plan is the first of its run.
LEMMA PlanArrivesStep == TypeOK /\ TripInv /\ PlanArrives => TripInv'
<1> SUFFICES ASSUME TypeOK, TripInv, PlanArrives PROVE TripInv'
  OBVIOUS
<1> USE DEF TripInv
<1>1. /\ runs \in Nat /\ runs' = runs + 1 /\ runs + 1 \in Runs
      /\ result' = [run |-> runs + 1, route |-> optimizing] /\ trip' = None
      /\ creating' = creating /\ recalculating' = recalculating /\ made' = made
  BY MapPageAssumption DEF TypeOK, PlanArrives, Runs
<1>2. creating \subseteq Nat /\ recalculating \subseteq Nat /\ made \in [Runs -> Nat]
  BY MapPageAssumption DEF TypeOK, Runs
<1>3. result'.run = runs + 1
  BY <1>1
<1>4. runs + 1 \notin creating /\ made[runs + 1] = 0
  BY <1>1, <1>2 DEF RunsSoFar
<1>5. RunsSoFar'
  BY <1>1, <1>2, <1>3, MapPageAssumption DEF RunsSoFar, Runs
<1>6. CreatedOnce' /\ OneTripPerRun'
  BY <1>1 DEF CreatedOnce, OneTripPerRun
<1>7. CreationAwaited' /\ TripRemembered'
  BY <1>1, <1>3, <1>4 DEF CreationAwaited, TripRemembered
<1>8. QED
  BY <1>5, <1>6, <1>7

\* The control asks for a trip of a plan that has none.
LEMMA RefineStep == TypeOK /\ TripInv /\ Refine => TripInv'
<1> SUFFICES ASSUME TypeOK, TripInv, Refine PROVE TripInv'
  OBVIOUS
<1> USE DEF TripInv
<1>1. /\ result # None /\ result \in Results /\ result' = result /\ runs' = runs
      /\ trip' = trip /\ made' = made
  BY DEF TypeOK, Refine, Walkthrough, planVars
<1>2. CASE trip # None
  <2>1. creating' = creating /\ recalculating' = recalculating \cup {trip}
    BY <1>2 DEF Refine
  <2>2. QED
    BY <1>1, <1>2, <2>1 DEF RunsSoFar, CreatedOnce, CreationAwaited, TripRemembered,
                            OneTripPerRun
<1>3. CASE trip = None
  <2>1. /\ creating' = creating \cup {result.run} /\ recalculating' = recalculating
        /\ tracked' = [kind |-> "create", run |-> result.run]
    BY <1>3 DEF Refine
  <2>2. result.run \in Runs /\ made[result.run] = 0
    BY <1>1, <1>3 DEF TypeOK, Results, TripRemembered
  <2>3. RunsSoFar' /\ CreatedOnce' /\ OneTripPerRun'
    BY <1>1, <2>1, <2>2 DEF RunsSoFar, CreatedOnce, OneTripPerRun
  <2>4. CreationAwaited' /\ TripRemembered'
    BY <1>1, <2>1, <2>2 DEF CreationAwaited, TripRemembered
  <2>5. QED
    BY <2>3, <2>4
<1>4. QED
  BY <1>2, <1>3

\* A created trip is its run's first, and comes to the page.
LEMMA TripCreatedStep ==
  ASSUME TypeOK, TripInv, NEW r \in Runs, NEW geometry \in BOOLEAN, TripCreated(r, geometry)
  PROVE  TripInv'
<1> USE DEF TripInv
<1>1. /\ r \in creating /\ creating' = creating \ {r} /\ recalculating' = recalculating
      /\ made' = [made EXCEPT ![r] = @ + 1] /\ trip' = r /\ trip' # None
      /\ result' = result /\ runs' = runs
  BY MapPageAssumption DEF TripCreated, HandleTripPlanChange, planVars
<1>2. made \in [Runs -> Nat] /\ made[r] = 0 /\ r <= runs /\ creating \subseteq Runs
  BY <1>1 DEF TypeOK, CreatedOnce, RunsSoFar
<1>3. made'[r] = 1 /\ \A q \in Runs \ {r} : made'[q] = made[q]
  BY <1>1, <1>2
<1>4. RunsSoFar'
  BY <1>1, <1>2, <1>3 DEF RunsSoFar
<1>5. CreatedOnce'
  BY <1>1, <1>2, <1>3 DEF CreatedOnce
<1>6. CreationAwaited' /\ TripRemembered'
  BY <1>1 DEF CreationAwaited, TripRemembered
<1>7. OneTripPerRun'
  BY <1>1, <1>2, <1>3 DEF OneTripPerRun
<1>8. QED
  BY <1>4, <1>5, <1>6, <1>7

\* A trip refined again comes to the page, too.
LEMMA TripRecalculatedStep ==
  ASSUME TypeOK, TripInv, NEW r \in Runs, NEW geometry \in BOOLEAN,
         TripRecalculated(r, geometry)
  PROVE  TripInv'
<1> USE DEF TripInv
<1>1. /\ r \in recalculating /\ recalculating' = recalculating \ {r}
      /\ creating' = creating /\ made' = made /\ trip' = r /\ trip' # None
      /\ result' = result /\ runs' = runs
  BY MapPageAssumption DEF TripRecalculated, HandleTripPlanChange, planVars
<1>2. QED
  BY <1>1 DEF RunsSoFar, CreatedOnce, CreationAwaited, TripRemembered, OneTripPerRun

\* A control that stops waiting for a failed creation may ask for it again.
LEMMA RefineFailsStep ==
  ASSUME TypeOK, TripInv, NEW r \in Runs, RefineFails(r)
  PROVE  TripInv'
<1> USE DEF TripInv
<1>1. /\ creating' \subseteq creating /\ recalculating' \subseteq recalculating
      /\ made' = made /\ trip' = trip /\ result' = result /\ runs' = runs
  BY DEF RefineFails, planVars
<1>2. RunsSoFar' /\ CreatedOnce' /\ TripRemembered' /\ OneTripPerRun'
  BY <1>1 DEF RunsSoFar, CreatedOnce, TripRemembered, OneTripPerRun
<1>3. CreationAwaited'
  <2> SUFFICES ASSUME result # None, result.run \in creating', trip = None
               PROVE  tracked' = [kind |-> "create", run |-> result.run]
    BY <1>1 DEF CreationAwaited
  <2>1. tracked = [kind |-> "create", run |-> result.run]
    BY <1>1 DEF CreationAwaited
  <2>2. CASE creating' = creating \ {r} /\ Untrack("create", r)
    BY <2>1, <2>2 DEF Untrack
  <2>3. CASE Untrack("recalculate", r)
    BY <2>1, <2>3 DEF Untrack
  <2>4. QED
    BY <2>2, <2>3 DEF RefineFails
<1>4. QED
  BY <1>2, <1>3

\* A page without its route has no plan and no trip.
LEMMA RouteWithoutGeometryStep == TypeOK /\ TripInv /\ RouteWithoutGeometry => TripInv'
BY DEF TripInv, RouteWithoutGeometry, ResetLayers, RunsSoFar, CreatedOnce, CreationAwaited,
       TripRemembered, OneTripPerRun

\* The other actions leave the plan and its trips alone.
LEMMA TripInvUnchanged ==
  ASSUME TripInv, UNCHANGED <<planVars, trip, creating, recalculating, tracked, made>>
  PROVE  TripInv'
BY DEF TripInv, planVars, RunsSoFar, CreatedOnce, CreationAwaited, TripRemembered, OneTripPerRun

\* The refine control makes at most one trip of every run, although it forgets
\* what it waits for when it is unmounted, and although a late answer of an
\* earlier plan may put that plan's trip on the page.
THEOREM OneTripOfEveryRun == Spec => []OneTripPerRun
<1>1. Init => TripInv
  <2> SUFFICES ASSUME Init PROVE TripInv
    OBVIOUS
  <2>1. /\ result = None /\ trip = None /\ creating = {} /\ recalculating = {}
        /\ \A r \in Runs : made[r] = 0
    BY DEF Init
  <2>2. QED
    BY <2>1 DEF TripInv, RunsSoFar, CreatedOnce, CreationAwaited, TripRemembered, OneTripPerRun
<1>2. TypeOK /\ TripInv /\ [Next]_vars => TripInv'
  <2> SUFFICES ASSUME TypeOK, TripInv, [Next]_vars PROVE TripInv'
    OBVIOUS
  <2>1. CASE UNCHANGED <<planVars, trip, creating, recalculating, tracked, made>>
    BY <2>1, TripInvUnchanged
  <2>2. CASE RouteWithoutGeometry
    BY <2>2, RouteWithoutGeometryStep
  <2>3. CASE PlanArrives
    BY <2>3, PlanArrivesStep
  <2>4. CASE Refine
    BY <2>4, RefineStep
  <2>5. ASSUME NEW r \in Runs, NEW geometry \in BOOLEAN, TripCreated(r, geometry)
        PROVE TripInv'
    BY <2>5, TripCreatedStep
  <2>6. ASSUME NEW r \in Runs, NEW geometry \in BOOLEAN, TripRecalculated(r, geometry)
        PROVE TripInv'
    BY <2>6, TripRecalculatedStep
  <2>7. ASSUME NEW r \in Runs, RefineFails(r) PROVE TripInv'
    BY <2>7, RefineFailsStep
  <2>8. QED
    BY <2>1, <2>2, <2>3, <2>4, <2>5, <2>6, <2>7
    DEF Next, vars, tripVars, HandleSelectVehicle, ToggleConstraints, EditReserve,
        HandleToggleLayer, HandleCalculateRoute, RouteArrives, RouteFails,
        HandleOptimizeFuel, PlanFails
<1>3. TripInv => OneTripPerRun
  BY DEF TripInv
<1>4. QED
  BY <1>1, <1>2, <1>3, TypeCorrect, PTL DEF Spec

(***************************************************************************)
(* The address form.                                                       *)
(***************************************************************************)

\* The missing value is none of the records that stand for a search.
Distinct == \A at, query : [at |-> at, query |-> query] # NoOne

FieldNames == {"text", "selection", "edited", "suggestion", "searching", "search",
               "geocoded", "resolve"}
IsField(f) == DOMAIN f = FieldNames /\ f = [x \in FieldNames |-> f[x]]

\* The search under way is for the present text, and so was the last.
SearchFits(f) ==
  /\ f.search # NoOne => /\ f.searching
                         /\ f.search = [at |-> f.search.at, query |-> f.text]
  /\ f.suggestion # NoOne /\ ~f.searching => f.suggestion = f.text

\* Likewise of geocoding, as far as its result is looked at.
ResolveFits(f) ==
  /\ f.resolve # NoOne => f.resolve = [at |-> f.resolve.at, query |-> f.text]
  /\ f.resolve = NoOne /\ SelectedLocation(f) = NoOne /\ ~IsShort(f.text) /\ f.geocoded # NoOne
       => f.geocoded = f.text

\* The address of a selection names its place.
Names(address, place) ==
  \/ place = address
  \/ place \in Trucks /\ address = Label[place]
SelectionFits(f) ==
  f.selection # NoOne => Names(f.selection.address, f.selection.place)

FieldInv(f) == IsField(f) /\ SearchFits(f) /\ ResolveFits(f) /\ SelectionFits(f)

FormInv ==
  /\ field = [f \in Fields |-> field[f]]
  /\ \A f \in Fields : FieldInv(field[f])

(***************************************************************************)
(* A render.                                                               *)
(***************************************************************************)

\* What inputs leave alone, and what they may do to a suggestion.
InputTo(old, new) ==
  /\ IsField(new)
  /\ SelectionFits(new)
  /\ new.searching = old.searching /\ new.search = old.search
  /\ new.geocoded = old.geocoded /\ new.resolve = old.resolve
  /\ new.suggestion \in {old.suggestion, NoOne}

LEMMA SearchEffectFits ==
  ASSUME NEW f, IsField(f)
  PROVE  LET g == SearchEffect(f)
         IN  /\ IsField(g) /\ SearchFits(g)
             /\ g.text = f.text /\ g.selection = f.selection
             /\ g.geocoded = f.geocoded /\ g.resolve = f.resolve
BY DEF SearchEffect, IsField, FieldNames, SearchFits

LEMMA ResolveEffectFits ==
  ASSUME Distinct, NEW f, IsField(f), SearchFits(f)
  PROVE  LET g == ResolveEffect(f)
         IN  /\ IsField(g) /\ SearchFits(g) /\ ResolveFits(g)
             /\ g.text = f.text /\ g.selection = f.selection
BY DEF ResolveEffect, IsField, FieldNames, SearchFits, ResolveFits, SelectedLocation, Distinct

\* Whatever an input changes, the effects of the render make the field fit.
LEMMA RenderedFits ==
  ASSUME Distinct, NEW old, NEW new, FieldInv(old), InputTo(old, new)
  PROVE  FieldInv(Rendered(old, new))
<1> DEFINE searched == IF <<old.text, old.selection, old.edited>>
                            # <<new.text, new.selection, new.edited>>
                       THEN SearchEffect(new) ELSE new
<1>1. /\ IsField(searched) /\ SearchFits(searched)
      /\ searched.text = new.text /\ searched.selection = new.selection
      /\ searched.geocoded = new.geocoded /\ searched.resolve = new.resolve
  <2>1. CASE <<old.text, old.selection, old.edited>> # <<new.text, new.selection, new.edited>>
    BY <2>1, SearchEffectFits DEF InputTo
  <2>2. CASE <<old.text, old.selection, old.edited>> = <<new.text, new.selection, new.edited>>
    <3>1. old.text = new.text /\ searched = new
      BY <2>2
    <3>2. SearchFits(new)
      BY <3>1 DEF FieldInv, SearchFits, InputTo
    <3>3. QED
      BY <3>1, <3>2 DEF InputTo
  <2>3. QED
    BY <2>1, <2>2
<1> HIDE DEF searched
<1>2. CASE <<old.text, SelectedLocation(old)>> # <<new.text, SelectedLocation(new)>>
  <2>1. Rendered(old, new) = ResolveEffect(searched)
    BY <1>2 DEF Rendered, searched
  <2>2. QED
    BY <1>1, <2>1, ResolveEffectFits DEF FieldInv, InputTo, SelectionFits
<1>3. CASE <<old.text, SelectedLocation(old)>> = <<new.text, SelectedLocation(new)>>
  <2>1. Rendered(old, new) = searched
    BY <1>3 DEF Rendered, searched
  <2>2. /\ SelectedLocation(searched) = SelectedLocation(old) /\ searched.text = old.text
        /\ searched.geocoded = old.geocoded /\ searched.resolve = old.resolve
    BY <1>1, <1>3 DEF SelectedLocation, InputTo
  <2>3. ResolveFits(searched)
    BY <2>2 DEF FieldInv, ResolveFits
  <2>4. QED
    BY <1>1, <2>1, <2>3 DEF FieldInv, InputTo, SelectionFits
<1>4. QED
  BY <1>2, <1>3

(***************************************************************************)
(* The steps.                                                              *)
(***************************************************************************)

\* A step that changes one field.
LEMMA OneField ==
  ASSUME FormInv, NEW f \in Fields, NEW g, FieldInv(g), field' = [field EXCEPT ![f] = g]
  PROVE  FormInv'
<1>1. field' = [e \in Fields |-> IF e = f THEN g ELSE field[e]]
  BY DEF FormInv
<1>2. \A e \in Fields : FieldInv(field'[e])
  BY <1>1 DEF FormInv
<1>3. QED
  BY <1>1, <1>2 DEF FormInv, FieldInv, IsField, FieldNames, SearchFits, ResolveFits, SelectionFits,
                    SelectedLocation, IsShort, Names

\* One that renders it after an input.
LEMMA OneInput ==
  ASSUME Distinct, FormInv, NEW f \in Fields, NEW new, InputTo(field[f], new),
         field' = Update(f, new)
  PROVE  FormInv'
<1>1. FieldInv(Rendered(field[f], new))
  BY RenderedFits DEF FormInv
<1>2. field' = [field EXCEPT ![f] = Rendered(field[f], new)]
  BY DEF Update
<1>3. QED
  BY <1>1, <1>2, OneField

\* A place that fills a field with the address that names it.
LEMMA FillIsInput ==
  ASSUME NEW old, FieldInv(old), NEW address, NEW place, Names(address, place)
  PROVE  InputTo(old, [old EXCEPT !.text = address, !.selection = Selection(address, place),
                                  !.edited = TRUE, !.suggestion = NoOne])
<1> DEFINE new == [old EXCEPT !.text = address, !.selection = Selection(address, place),
                              !.edited = TRUE, !.suggestion = NoOne]
<1>1. /\ IsField(new) /\ new.selection = Selection(address, place) /\ new.suggestion = NoOne
      /\ new.searching = old.searching /\ new.search = old.search
      /\ new.geocoded = old.geocoded /\ new.resolve = old.resolve
  BY DEF FieldInv, IsField, FieldNames
<1> HIDE DEF new
<1>2. InputTo(old, new)
  BY <1>1 DEF InputTo, SelectionFits, Selection
<1>3. QED
  BY <1>2 DEF new

LEMMA TypeStep ==
  ASSUME Distinct, FormInv, NEW f \in Fields, NEW t, Type(f, t)
  PROVE  FormInv'
<1> DEFINE new == [field[f] EXCEPT
                     !.text = t, !.edited = TRUE,
                     !.selection = IF @ # NoOne /\ t = @.address THEN @ ELSE NoOne]
<1>1. FieldInv(field[f])
  BY DEF FormInv
<1>2. field' = Update(f, new)
  BY DEF Type
<1>3. /\ IsField(new)
      /\ new.selection \in {field[f].selection, NoOne} /\ new.suggestion = field[f].suggestion
      /\ new.searching = field[f].searching /\ new.search = field[f].search
      /\ new.geocoded = field[f].geocoded /\ new.resolve = field[f].resolve
  BY <1>1 DEF FieldInv, IsField, FieldNames
<1> HIDE DEF new
<1>4. InputTo(field[f], new)
  BY <1>1, <1>3 DEF InputTo, FieldInv, SelectionFits
<1>5. QED
  BY <1>2, <1>4, OneInput

LEMMA ApplySuggestionStep ==
  ASSUME Distinct, FormInv, NEW f \in Fields, ApplySuggestion(f)
  PROVE  FormInv'
<1> DEFINE address == Formatted[field[f].suggestion]
           new == [field[f] EXCEPT !.selection = Selection(address, address),
                                   !.text = address, !.suggestion = NoOne]
<1>1. FieldInv(field[f])
  BY DEF FormInv
<1>2. field' = Update(f, new)
  BY DEF ApplySuggestion
<1>3. /\ IsField(new)
      /\ new.selection = Selection(address, address) /\ new.suggestion = NoOne
      /\ new.searching = field[f].searching /\ new.search = field[f].search
      /\ new.geocoded = field[f].geocoded /\ new.resolve = field[f].resolve
  BY <1>1 DEF FieldInv, IsField, FieldNames
<1> HIDE DEF new
<1>4. InputTo(field[f], new)
  BY <1>3 DEF InputTo, SelectionFits, Selection, Names
<1>5. QED
  BY <1>2, <1>4, OneInput

\* A vehicle's position, or coordinates, as the start.
LEMMA StartStep ==
  ASSUME Distinct, FormInv, NEW address, NEW place, Names(address, place),
         field' = Update("start", [field["start"] EXCEPT
                    !.text = address, !.selection = Selection(address, place),
                    !.edited = TRUE, !.suggestion = NoOne])
  PROVE  FormInv'
<1>1. "start" \in Fields
  BY DEF Fields
<1>2. FieldInv(field["start"])
  BY <1>1 DEF FormInv
<1>3. QED
  BY <1>1, <1>2, FillIsInput, OneInput

LEMMA Unchanged ==
  ASSUME FormInv, field' = field
  PROVE  FormInv'
BY DEF FormInv, FieldInv, IsField, FieldNames, SearchFits, ResolveFits, SelectionFits,
       SelectedLocation, IsShort, Names

LEMMA RestoreSearchStep ==
  ASSUME Distinct, FormInv, NEW v, NEW s, RestoreSearch(v, s)
  PROVE  FormInv'
<1>1. CASE v \in Positioned
  BY <1>1, Unchanged DEF RestoreSearch
<1>2. CASE v \notin Positioned
  <2>1. Names(Origin, Origin)
    BY DEF Names
  <2>2. field' = Update("start", [field["start"] EXCEPT
                     !.text = Origin, !.selection = Selection(Origin, Origin),
                     !.edited = TRUE, !.suggestion = NoOne])
    BY <1>2 DEF RestoreSearch
  <2>3. QED
    BY <2>1, <2>2, StartStep
<1>3. QED
  BY <1>1, <1>2

LEMMA PositionArrivesStep ==
  ASSUME Distinct, FormInv, NEW v \in Trucks, PositionArrives(v)
  PROVE  FormInv'
<1>1. CASE v \notin Positioned
  BY <1>1, Unchanged DEF PositionArrives
<1>2. CASE v \in Positioned
  <2>1. Names(Label[v], v)
    BY DEF Names
  <2>2. QED
    BY <1>2, <2>1, StartStep DEF PositionArrives
<1>3. QED
  BY <1>1, <1>2

LEMMA ShipmentArrivesStep ==
  ASSUME Distinct, FormInv, NEW s, ShipmentArrives(s)
  PROVE  FormInv'
<1>1. ASSUME NEW f \in Fields, NEW stop PROVE FieldInv(FilledBy(f, stop))
  <2>1. FieldInv(field[f])
    BY DEF FormInv
  <2>2. CASE stop = NoOne
    BY <2>1, <2>2 DEF FilledBy
  <2>3. CASE stop # NoOne
    <3> DEFINE new == [field[f] EXCEPT
                 !.text = stop.text, !.edited = TRUE, !.suggestion = NoOne,
                 !.selection = IF stop.located THEN Selection(stop.text, stop.text)
                               ELSE NoOne]
    <3>1. FilledBy(f, stop) = Rendered(field[f], new)
      BY <2>3 DEF FilledBy
    <3>2. /\ IsField(new)
          /\ new.selection \in {Selection(stop.text, stop.text), NoOne}
          /\ new.suggestion = NoOne
          /\ new.searching = field[f].searching /\ new.search = field[f].search
          /\ new.geocoded = field[f].geocoded /\ new.resolve = field[f].resolve
      BY <2>1 DEF FieldInv, IsField, FieldNames
    <3> HIDE DEF new
    <3>3. InputTo(field[f], new)
      BY <3>2 DEF InputTo, SelectionFits, Selection, Names
    <3>4. QED
      BY <2>1, <3>1, <3>3, RenderedFits
  <2>4. QED
    BY <2>2, <2>3
<1>2. field' = [f \in Fields |-> IF f = "start" THEN field[f] ELSE FilledBy(f, Stop[s][f])]
  BY DEF ShipmentArrives
<1>3. \A f \in Fields : FieldInv(field'[f])
  BY <1>1, <1>2 DEF FormInv
<1>4. QED
  BY <1>2, <1>3 DEF FormInv, FieldInv, IsField, FieldNames, SearchFits, ResolveFits, SelectionFits,
                    SelectedLocation, IsShort, Names

\* The timers and the answers of the two effects.
LEMMA SearchStep ==
  ASSUME FormInv, NEW f \in Fields,
         \/ SearchTimer(f)
         \/ \E found \in BOOLEAN : SearchAnswers(f, found)
  PROVE  FormInv'
<1>1. FieldInv(field[f]) /\ field = [e \in Fields |-> field[e]]
  BY DEF FormInv
<1>2. CASE SearchTimer(f)
  <2> DEFINE g == [field[f] EXCEPT !.search = [field[f].search EXCEPT !.at = "request"]]
  <2>1. field' = [field EXCEPT ![f] = g]
    BY <1>2 DEF SearchTimer
  <2>2. [field[f].search EXCEPT !.at = "request"]
          = [at |-> "request", query |-> field[f].text]
    <3>1. field[f].search = [at |-> field[f].search.at, query |-> field[f].text]
      BY <1>1, <1>2 DEF SearchTimer, FieldInv, SearchFits
    <3>2. QED
      BY <3>1
  <2>3. /\ IsField(g) /\ g.search = [at |-> "request", query |-> field[f].text]
        /\ \A x \in FieldNames \ {"search"} : g[x] = field[f][x]
    BY <1>1, <2>2 DEF FieldInv, IsField, FieldNames
  <2> HIDE DEF g
  <2>4. FieldInv(g)
    BY <1>1, <1>2, <2>3 DEF SearchTimer, FieldInv, FieldNames, SearchFits, ResolveFits,
                            SelectionFits, SelectedLocation
  <2>5. QED
    BY <2>1, <2>4, OneField
<1>3. ASSUME NEW found \in BOOLEAN, SearchAnswers(f, found) PROVE FormInv'
  <2> DEFINE g == [field[f] EXCEPT
                     !.suggestion = IF found THEN field[f].search.query ELSE NoOne,
                     !.searching = FALSE, !.search = NoOne]
  <2>1. field' = [field EXCEPT ![f] = g]
    BY <1>3 DEF SearchAnswers
  <2>2. field[f].search.query = field[f].text
    <3>1. field[f].search = [at |-> field[f].search.at, query |-> field[f].text]
      BY <1>1, <1>3 DEF SearchAnswers, FieldInv, SearchFits
    <3>2. QED
      BY <3>1
  <2>3. /\ IsField(g) /\ g.search = NoOne
        /\ ~g.searching /\ g.suggestion \in {field[f].text, NoOne}
        /\ \A x \in FieldNames \ {"search", "searching", "suggestion"} : g[x] = field[f][x]
    BY <1>1, <2>2 DEF FieldInv, IsField, FieldNames
  <2> HIDE DEF g
  <2>4. FieldInv(g)
    BY <1>1, <2>3 DEF FieldInv, FieldNames, SearchFits, ResolveFits, SelectionFits,
                      SelectedLocation
  <2>5. QED
    BY <2>1, <2>4, OneField
<1>4. QED
  BY <1>2, <1>3

LEMMA ResolveStep ==
  ASSUME Distinct, FormInv, NEW f \in Fields,
         \/ ResolveTimer(f)
         \/ \E found \in BOOLEAN : ResolveAnswers(f, found)
  PROVE  FormInv'
<1>1. FieldInv(field[f]) /\ field = [e \in Fields |-> field[e]]
  BY DEF FormInv
<1>2. CASE ResolveTimer(f)
  <2> DEFINE g == [field[f] EXCEPT !.resolve = [field[f].resolve EXCEPT !.at = "request"]]
  <2>1. field' = [field EXCEPT ![f] = g]
    BY <1>2 DEF ResolveTimer
  <2>2. [field[f].resolve EXCEPT !.at = "request"]
          = [at |-> "request", query |-> field[f].text]
    <3>1. field[f].resolve = [at |-> field[f].resolve.at, query |-> field[f].text]
      BY <1>1, <1>2 DEF ResolveTimer, FieldInv, ResolveFits
    <3>2. QED
      BY <3>1
  <2>3. /\ IsField(g) /\ g.resolve = [at |-> "request", query |-> field[f].text]
        /\ \A x \in FieldNames \ {"resolve"} : g[x] = field[f][x]
    BY <1>1, <2>2 DEF FieldInv, IsField, FieldNames
  <2> HIDE DEF g
  <2>4. FieldInv(g)
    BY <1>1, <1>2, <2>3 DEF ResolveTimer, FieldInv, FieldNames, SearchFits, ResolveFits,
                            SelectionFits, SelectedLocation, Distinct
  <2>5. QED
    BY <2>1, <2>4, OneField
<1>3. ASSUME NEW found \in BOOLEAN, ResolveAnswers(f, found) PROVE FormInv'
  <2> DEFINE g == [field[f] EXCEPT
                     !.geocoded = IF found THEN field[f].resolve.query ELSE NoOne,
                     !.resolve = NoOne]
  <2>1. field' = [field EXCEPT ![f] = g]
    BY <1>3 DEF ResolveAnswers
  <2>2. field[f].resolve.query = field[f].text
    <3>1. field[f].resolve = [at |-> field[f].resolve.at, query |-> field[f].text]
      BY <1>1, <1>3 DEF ResolveAnswers, FieldInv, ResolveFits
    <3>2. QED
      BY <3>1
  <2>3. /\ IsField(g) /\ g.resolve = NoOne
        /\ g.geocoded \in {field[f].text, NoOne}
        /\ \A x \in FieldNames \ {"resolve", "geocoded"} : g[x] = field[f][x]
    BY <1>1, <2>2 DEF FieldInv, IsField, FieldNames
  <2> HIDE DEF g
  <2>4. FieldInv(g)
    BY <1>1, <2>3 DEF FieldInv, FieldNames, SearchFits, ResolveFits, SelectionFits,
                      SelectedLocation
  <2>5. QED
    BY <2>1, <2>4, OneField
<1>4. QED
  BY <1>2, <1>3

LEMMA InitFits == Distinct /\ FieldsInit => FormInv
<1> SUFFICES ASSUME Distinct, FieldsInit PROVE FormInv
  OBVIOUS
<1>1. PICK t \in Texts \ Short :
        field = [f \in Fields |-> IF f = "pickup" THEN Empty
                                  ELSE ResolveEffect([Empty EXCEPT !.text = t])]
  BY DEF FieldsInit
<1>2. FieldInv(Empty)
  BY DEF Empty, FieldInv, IsField, FieldNames, SearchFits, ResolveFits, SelectionFits
<1>3. FieldInv(ResolveEffect([Empty EXCEPT !.text = t]))
  <2> DEFINE typed == [Empty EXCEPT !.text = t]
  <2>1. /\ IsField(typed) /\ typed.selection = NoOne
        /\ typed.search = NoOne /\ typed.suggestion = NoOne
    BY <1>2 DEF FieldInv, IsField, FieldNames, Empty
  <2> HIDE DEF typed
  <2>2. FieldInv(ResolveEffect(typed))
    BY <2>1, ResolveEffectFits DEF FieldInv, SelectionFits, SearchFits
  <2>3. QED
    BY <2>2 DEF typed
<1>4. QED
  BY <1>1, <1>2, <1>3 DEF FormInv

LEMMA FormInvHolds == ASSUME Distinct PROVE FieldsSpec => []FormInv
<1>1. FieldsInit => FormInv
  BY InitFits
<1>2. FormInv /\ [FieldsNext]_fieldVars => FormInv'
  <2> SUFFICES ASSUME FormInv, [FieldsNext]_fieldVars PROVE FormInv'
    OBVIOUS
  <2>1. ASSUME NEW f \in Fields, NEW t \in Texts, Type(f, t) PROVE FormInv'
    BY <2>1, TypeStep
  <2>2. ASSUME NEW f \in Fields, ApplySuggestion(f) PROVE FormInv'
    BY <2>2, ApplySuggestionStep
  <2>3. ASSUME NEW v \in Trucks, NEW s \in Shipments, RestoreSearch(v, s) PROVE FormInv'
    BY <2>3, RestoreSearchStep
  <2>4. ASSUME NEW v \in Trucks, PositionArrives(v) PROVE FormInv'
    BY <2>4, PositionArrivesStep
  <2>5. ASSUME NEW s \in Shipments, ShipmentArrives(s) PROVE FormInv'
    BY <2>5, ShipmentArrivesStep
  <2>6. ASSUME NEW f \in Fields, NEW found \in BOOLEAN,
               SearchTimer(f) \/ SearchAnswers(f, found)
        PROVE FormInv'
    BY <2>6, SearchStep
  <2>7. ASSUME NEW f \in Fields, NEW found \in BOOLEAN,
               ResolveTimer(f) \/ ResolveAnswers(f, found)
        PROVE FormInv'
    BY <2>7, ResolveStep
  <2>8. CASE field' = field
    BY <2>8, Unchanged
  <2>9. QED
    BY <2>1, <2>2, <2>3, <2>4, <2>5, <2>6, <2>7, <2>8
    DEF FieldsNext, fieldVars, SelectVehicle, HandleSelectShipment, PositionFails
<1>3. QED
  BY <1>1, <1>2, PTL DEF FieldsSpec

\* In every order of typing, timers, late answers, vehicles' positions and
\* shipments, a suggestion on offer is one for the text its field holds.
THEOREM SuggestionAlwaysFits == ASSUME Distinct PROVE FieldsSpec => []SuggestionFits
<1>1. FormInv => SuggestionFits
  BY DEF FormInv, FieldInv, SearchFits, SuggestionFits
<1>2. QED
  BY <1>1, FormInvHolds, PTL

\* Once geocoding is quiet, the marker of a field is where its text is, or where
\* the vehicle is that its text names.
THEOREM MarkerAlwaysFits == ASSUME Distinct PROVE FieldsSpec => []MarkerFits
<1>1. FormInv => MarkerFits
  BY DEF FormInv, FieldInv, ResolveFits, SelectionFits, Names, MarkerFits, Marker,
         SelectedLocation
<1>2. QED
  BY <1>1, FormInvHolds, PTL

(***************************************************************************)
(* The search of a field at rest.                                          *)
(***************************************************************************)

\* What the suggestion effect depends on.
Key(f) == <<f.text, f.selection, f.edited>>

\* A field that shows "Searching" has a timer or a request behind it.
Searches(f) == f.searching => f.search # NoOne /\ f.search.at \in {"timer", "request"}

\* A search is begun with the text it is for, goes on, ends, or stays as it is.
Begins(old, new) ==
  Key(new) # Key(old) /\ (new.searching => new.search = [at |-> "timer", query |-> new.text])
GoesOn(old, new) ==
  /\ old.search # NoOne /\ old.search.at = "timer"
  /\ new.search = [at |-> "request", query |-> old.text]
SearchMoves(old, new) ==
  \/ new.searching = old.searching /\ new.search = old.search
  \/ Begins(old, new)
  \/ GoesOn(old, new)
  \/ ~new.searching

LEMMA EffectsKeepKey ==
  ASSUME NEW f, IsField(f)
  PROVE  /\ Key(SearchEffect(f)) = Key(f)
         /\ SearchEffect(f).searching =>
              SearchEffect(f).search = [at |-> "timer", query |-> f.text]
         /\ IsField(SearchEffect(f))
         /\ Key(ResolveEffect(f)) = Key(f)
         /\ ResolveEffect(f).searching = f.searching /\ ResolveEffect(f).search = f.search
BY DEF SearchEffect, ResolveEffect, IsField, FieldNames, Key

\* A render begins a search exactly when something it depends on has changed.
LEMMA RenderedSearches ==
  ASSUME NEW old, NEW new, InputTo(old, new)
  PROVE  SearchMoves(old, Rendered(old, new))
<1> DEFINE searched == IF <<old.text, old.selection, old.edited>>
                            # <<new.text, new.selection, new.edited>>
                       THEN SearchEffect(new) ELSE new
<1>1. IsField(new) /\ new.searching = old.searching /\ new.search = old.search
  BY DEF InputTo
<1>2. IsField(searched) /\ SearchMoves(old, searched)
  <2>1. CASE Key(old) # Key(new)
    <3>1. searched = SearchEffect(new)
      BY <2>1 DEF Key
    <3>2. Key(searched) # Key(old) /\ searched.text = new.text
      BY <1>1, <2>1, <3>1, EffectsKeepKey DEF Key
    <3>3. QED
      BY <1>1, <3>1, <3>2, EffectsKeepKey DEF SearchMoves, Begins
  <2>2. CASE Key(old) = Key(new)
    <3>1. searched = new
      BY <2>2 DEF Key
    <3>2. QED
      BY <1>1, <3>1 DEF SearchMoves
  <2>3. QED
    BY <2>1, <2>2
<1>3. Rendered(old, new) \in {searched, ResolveEffect(searched)}
  BY DEF Rendered
<1> HIDE DEF searched
<1>4. SearchMoves(old, ResolveEffect(searched))
  <2> DEFINE g == ResolveEffect(searched)
  <2>1. Key(g) = Key(searched) /\ g.searching = searched.searching /\ g.search = searched.search
    BY <1>2, EffectsKeepKey
  <2>2. g.text = searched.text
    BY <2>1 DEF Key
  <2> HIDE DEF g
  <2>3. SearchMoves(old, g)
    BY <1>2, <2>1, <2>2 DEF SearchMoves, Begins, GoesOn
  <2>4. QED
    BY <2>3 DEF g
<1>5. QED
  BY <1>2, <1>3, <1>4

\* The timer sends the search for the text it was started with; an answer ends it.
LEMMA TimerGoesOn ==
  ASSUME FormInv, NEW f \in Fields, SearchTimer(f)
  PROVE  GoesOn(field[f], field'[f]) /\ field'[f].searching = field[f].searching
<1>1. FieldInv(field[f]) /\ field = [e \in Fields |-> field[e]]
  BY DEF FormInv
<1> DEFINE sent == [field[f].search EXCEPT !.at = "request"]
<1>2. field[f].search = [at |-> "timer", query |-> field[f].text]
  BY <1>1 DEF SearchTimer, FieldInv, SearchFits
<1>3. sent = [at |-> "request", query |-> field[f].text]
  BY <1>2
<1>4. field' = [field EXCEPT ![f] = [field[f] EXCEPT !.search = sent]]
  BY DEF SearchTimer
<1> HIDE DEF sent
<1>5. field'[f] = [field[f] EXCEPT !.search = sent]
  BY <1>1, <1>4
<1>6. field'[f].search = sent /\ field'[f].searching = field[f].searching
  BY <1>1, <1>5 DEF FieldInv, IsField, FieldNames
<1>7. QED
  BY <1>3, <1>6 DEF GoesOn, SearchTimer

LEMMA AnswerEnds ==
  ASSUME FormInv, NEW f \in Fields, NEW found, SearchAnswers(f, found)
  PROVE  ~field'[f].searching
<1>1. FieldInv(field[f]) /\ field = [e \in Fields |-> field[e]]
  BY DEF FormInv
<1>2. QED
  BY <1>1 DEF SearchAnswers, FieldInv, IsField, FieldNames

\* Whatever happens on the page, that is all that happens to a search.
LEMMA StepSearches ==
  ASSUME FormInv, [FieldsNext]_fieldVars, NEW f \in Fields
  PROVE  SearchMoves(field[f], field'[f])
<1>1. FieldInv(field[f]) /\ field = [e \in Fields |-> field[e]] /\ "start" \in Fields
  BY DEF FormInv, Fields
<1>2. ASSUME field'[f] = field[f] PROVE SearchMoves(field[f], field'[f])
  BY <1>2 DEF SearchMoves
<1>3. ASSUME NEW e \in Fields, NEW new, e = f => InputTo(field[f], new), field' = Update(e, new)
      PROVE  SearchMoves(field[f], field'[f])
  <2>1. field'[f] = IF e = f THEN Rendered(field[f], new) ELSE field[f]
    BY <1>1, <1>3 DEF Update
  <2>2. QED
    BY <1>2, <1>3, <2>1, RenderedSearches
<1>4. ASSUME NEW e \in Fields, NEW t, Type(e, t) PROVE SearchMoves(field[f], field'[f])
  <2> DEFINE new == [field[e] EXCEPT
                       !.text = t, !.edited = TRUE,
                       !.selection = IF @ # NoOne /\ t = @.address THEN @ ELSE NoOne]
  <2>1. field' = Update(e, new)
    BY <1>4 DEF Type
  <2>2. ASSUME e = f PROVE InputTo(field[f], new)
    <3>1. /\ IsField(new)
          /\ new.selection \in {field[f].selection, NoOne} /\ new.suggestion = field[f].suggestion
          /\ new.searching = field[f].searching /\ new.search = field[f].search
          /\ new.geocoded = field[f].geocoded /\ new.resolve = field[f].resolve
      BY <1>1, <2>2 DEF FieldInv, IsField, FieldNames
    <3> HIDE DEF new
    <3>2. QED
      BY <1>1, <3>1 DEF InputTo, FieldInv, SelectionFits
  <2> HIDE DEF new
  <2>3. QED
    BY <1>3, <2>1, <2>2
<1>5. ASSUME NEW e \in Fields, ApplySuggestion(e) PROVE SearchMoves(field[f], field'[f])
  <2> DEFINE address == Formatted[field[e].suggestion]
             new == [field[e] EXCEPT !.selection = Selection(address, address),
                                     !.text = address, !.suggestion = NoOne]
  <2>1. field' = Update(e, new)
    BY <1>5 DEF ApplySuggestion
  <2>2. ASSUME e = f PROVE InputTo(field[f], new)
    <3>1. /\ IsField(new)
          /\ new.selection = Selection(address, address) /\ new.suggestion = NoOne
          /\ new.searching = field[f].searching /\ new.search = field[f].search
          /\ new.geocoded = field[f].geocoded /\ new.resolve = field[f].resolve
      BY <1>1, <2>2 DEF FieldInv, IsField, FieldNames
    <3> HIDE DEF new
    <3>2. QED
      BY <3>1 DEF InputTo, SelectionFits, Selection, Names
  <2> HIDE DEF new
  <2>3. QED
    BY <1>3, <2>1, <2>2
<1>6. ASSUME NEW address, NEW place, Names(address, place),
             field' = Update("start", [field["start"] EXCEPT
                        !.text = address, !.selection = Selection(address, place),
                        !.edited = TRUE, !.suggestion = NoOne])
      PROVE  SearchMoves(field[f], field'[f])
  <2> DEFINE new == [field["start"] EXCEPT
                       !.text = address, !.selection = Selection(address, place),
                       !.edited = TRUE, !.suggestion = NoOne]
  <2>1. "start" = f => InputTo(field[f], new)
    BY <1>1, <1>6, FillIsInput
  <2>2. field' = Update("start", new)
    BY <1>6
  <2> HIDE DEF new
  <2>3. QED
    BY <1>1, <1>3, <2>1, <2>2
<1>7. ASSUME NEW v, NEW s, RestoreSearch(v, s) PROVE SearchMoves(field[f], field'[f])
  <2>1. Names(Origin, Origin)
    BY DEF Names
  <2>2. CASE v \in Positioned
    BY <1>2, <1>7, <2>2 DEF RestoreSearch
  <2>3. CASE v \notin Positioned
    <3>1. field' = Update("start", [field["start"] EXCEPT
                     !.text = Origin, !.selection = Selection(Origin, Origin),
                     !.edited = TRUE, !.suggestion = NoOne])
      BY <1>7, <2>3 DEF RestoreSearch
    <3>2. QED
      BY <1>6, <2>1, <3>1
  <2>4. QED
    BY <2>2, <2>3
<1>8. ASSUME NEW v \in Trucks, PositionArrives(v) PROVE SearchMoves(field[f], field'[f])
  <2>1. Names(Label[v], v)
    BY DEF Names
  <2>2. CASE v \notin Positioned
    BY <1>2, <1>8, <2>2 DEF PositionArrives
  <2>3. CASE v \in Positioned
    BY <1>6, <1>8, <2>1, <2>3 DEF PositionArrives
  <2>4. QED
    BY <2>2, <2>3
<1>9. ASSUME NEW s, ShipmentArrives(s) PROVE SearchMoves(field[f], field'[f])
  <2> DEFINE stop == Stop[s][f]
             new == [field[f] EXCEPT
                       !.text = stop.text, !.edited = TRUE, !.suggestion = NoOne,
                       !.selection = IF stop.located THEN Selection(stop.text, stop.text)
                                     ELSE NoOne]
  <2>1. field'[f] = IF f = "start" \/ stop = NoOne THEN field[f] ELSE Rendered(field[f], new)
    BY <1>9 DEF ShipmentArrives, FilledBy
  <2>2. /\ IsField(new)
        /\ new.selection \in {Selection(stop.text, stop.text), NoOne}
        /\ new.suggestion = NoOne
        /\ new.searching = field[f].searching /\ new.search = field[f].search
        /\ new.geocoded = field[f].geocoded /\ new.resolve = field[f].resolve
    BY <1>1 DEF FieldInv, IsField, FieldNames
  <2> HIDE DEF new
  <2>3. InputTo(field[f], new)
    BY <2>2 DEF InputTo, SelectionFits, Selection, Names
  <2>4. QED
    BY <1>2, <2>1, <2>3, RenderedSearches
<1>10. ASSUME NEW e \in Fields, SearchTimer(e) PROVE SearchMoves(field[f], field'[f])
  <2>1. CASE e # f
    BY <1>1, <1>2, <1>10, <2>1 DEF SearchTimer
  <2>2. CASE e = f
    BY <2>2, <1>10, TimerGoesOn DEF SearchMoves
  <2>3. QED
    BY <2>1, <2>2
<1>11. ASSUME NEW e \in Fields, NEW found, SearchAnswers(e, found)
       PROVE  SearchMoves(field[f], field'[f])
  <2>1. CASE e # f
    BY <1>1, <1>2, <1>11, <2>1 DEF SearchAnswers
  <2>2. CASE e = f
    BY <2>2, <1>11, AnswerEnds DEF SearchMoves
  <2>3. QED
    BY <2>1, <2>2
<1>12. ASSUME NEW e \in Fields, NEW found, ResolveTimer(e) \/ ResolveAnswers(e, found)
       PROVE  SearchMoves(field[f], field'[f])
  <2>1. CASE e # f
    <3>1. field'[f] = field[f]
      BY <1>1, <1>12, <2>1 DEF ResolveTimer, ResolveAnswers
    <3>2. QED
      BY <1>2, <3>1
  <2>2. CASE e = f /\ ResolveTimer(e)
    <3> DEFINE sent == [field[f].resolve EXCEPT !.at = "request"]
    <3>1. field' = [field EXCEPT ![f] = [field[f] EXCEPT !.resolve = sent]]
      BY <2>2 DEF ResolveTimer
    <3> HIDE DEF sent
    <3>2. field'[f] = [field[f] EXCEPT !.resolve = sent]
      BY <1>1, <3>1
    <3>3. field'[f].searching = field[f].searching /\ field'[f].search = field[f].search
      BY <1>1, <3>2 DEF FieldInv, IsField, FieldNames
    <3>4. QED
      BY <3>3 DEF SearchMoves
  <2>3. CASE e = f /\ ResolveAnswers(e, found)
    <3> DEFINE located == IF found THEN field[f].resolve.query ELSE NoOne
    <3>1. field' = [field EXCEPT ![f] = [field[f] EXCEPT !.geocoded = located, !.resolve = NoOne]]
      BY <2>3 DEF ResolveAnswers
    <3> HIDE DEF located
    <3>2. field'[f] = [field[f] EXCEPT !.geocoded = located, !.resolve = NoOne]
      BY <1>1, <3>1
    <3>3. field'[f].searching = field[f].searching /\ field'[f].search = field[f].search
      BY <1>1, <3>2 DEF FieldInv, IsField, FieldNames
    <3>4. QED
      BY <3>3 DEF SearchMoves
  <2>4. QED
    BY <1>12, <2>1, <2>2, <2>3
<1>13. CASE UNCHANGED field
  BY <1>2, <1>13
<1>14. QED
  BY <1>4, <1>5, <1>7, <1>8, <1>9, <1>10, <1>11, <1>12, <1>13
  DEF FieldsNext, fieldVars, SelectVehicle, HandleSelectShipment, PositionFails

(***************************************************************************)
(* The search of a field ends once the field is left alone.                *)
(***************************************************************************)

\* Every search shown has its timer or its request.
AllSearch == \A f \in Fields : Searches(field[f])

LEMMA InitSearches == FieldsInit => AllSearch
<1> SUFFICES ASSUME FieldsInit, NEW f \in Fields PROVE ~field[f].searching
  BY DEF AllSearch, Searches
<1>1. PICK t \in Texts \ Short :
         field = [e \in Fields |->
                    IF e = "pickup" THEN Empty ELSE ResolveEffect([Empty EXCEPT !.text = t])]
  BY DEF FieldsInit
<1> DEFINE typed == [Empty EXCEPT !.text = t]
<1>2. IsField(Empty) /\ IsField(typed) /\ ~Empty.searching /\ ~typed.searching
  BY DEF Empty, IsField, FieldNames
<1> HIDE DEF typed
<1>3. ~ResolveEffect(typed).searching
  BY <1>2, EffectsKeepKey
<1>4. field[f] \in {Empty, ResolveEffect(typed)}
  BY <1>1 DEF typed
<1>5. QED
  BY <1>2, <1>3, <1>4

LEMMA SearchesStep ==
  ASSUME Distinct, FormInv, AllSearch, [FieldsNext]_fieldVars
  PROVE  AllSearch'
<1> SUFFICES ASSUME NEW f \in Fields PROVE Searches(field'[f])
  BY DEF AllSearch, Searches
<1>1. Searches(field[f]) /\ SearchMoves(field[f], field'[f])
  BY StepSearches DEF AllSearch
<1>2. CASE field'[f].searching = field[f].searching /\ field'[f].search = field[f].search
  BY <1>1, <1>2 DEF Searches
<1>3. CASE Begins(field[f], field'[f])
  BY <1>3 DEF Searches, Begins, Distinct
<1>4. CASE GoesOn(field[f], field'[f])
  BY <1>4 DEF Searches, GoesOn, Distinct
<1>5. CASE ~field'[f].searching
  BY <1>5 DEF Searches
<1>6. QED
  BY <1>1, <1>2, <1>3, <1>4, <1>5 DEF SearchMoves

\* A field waits for its timer, or for the answer, while it shows a search.
WaitsForTimer(f) == f.searching /\ f.search # NoOne /\ f.search.at = "timer"
WaitsForAnswer(f) == f.searching /\ f.search # NoOne /\ f.search.at = "request"

\* The timer and the answer are possible when their guards say so.
SearchCanGoOn(f) ==
  /\ WaitsForTimer(field[f]) => ENABLED <<SearchTimer(f)>>_fieldVars
  /\ WaitsForAnswer(field[f])
       => ENABLED <<\E found \in BOOLEAN : SearchAnswers(f, found)>>_fieldVars
SearchesCanGoOn == \A f \in Fields : SearchCanGoOn(f)

\* While nothing a search depends on changes it goes from the timer to the
\* answer to its end, and not back.
LEMMA AtRestStep ==
  ASSUME Distinct, FormInv, [FieldsNext]_fieldVars, NEW f \in Fields,
         Key(field'[f]) = Key(field[f])
  PROVE  /\ WaitsForTimer(field[f]) =>
              \/ WaitsForTimer(field'[f]) \/ WaitsForAnswer(field'[f])
              \/ ~field'[f].searching
         /\ WaitsForAnswer(field[f]) => WaitsForAnswer(field'[f]) \/ ~field'[f].searching
<1>1. SearchMoves(field[f], field'[f])
  BY StepSearches
<1>2. CASE field'[f].searching = field[f].searching /\ field'[f].search = field[f].search
  BY <1>2 DEF WaitsForTimer, WaitsForAnswer
<1>3. CASE GoesOn(field[f], field'[f])
  <2>1. field'[f].search.at = "request" /\ field'[f].search # NoOne
    BY <1>3 DEF GoesOn, Distinct
  <2>2. ~WaitsForAnswer(field[f])
    BY <1>3 DEF GoesOn, WaitsForAnswer
  <2>3. QED
    BY <2>1, <2>2 DEF WaitsForTimer, WaitsForAnswer
<1>4. CASE ~field'[f].searching
  BY <1>4 DEF WaitsForTimer
<1>5. QED
  BY <1>1, <1>2, <1>3, <1>4 DEF SearchMoves, Begins

\* A field that shows "Searching" stops showing it once it is left alone.
SearchEndsAtRest ==
  \A f \in Fields :
    <>[][Key(field[f])' = Key(field[f])]_fieldVars => (field[f].searching ~> ~field[f].searching)

LEMMA SearchOfFieldEnds ==
  ASSUME Distinct, NEW f \in Fields
  PROVE  FairFieldsSpec /\ []SearchesCanGoOn /\ <>[][Key(field[f])' = Key(field[f])]_fieldVars
           => (field[f].searching ~> ~field[f].searching)
<1> DEFINE P == field[f].searching
           T == WaitsForTimer(field[f])
           R == WaitsForAnswer(field[f])
           K == Key(field[f])' = Key(field[f])
           Answered == \E found \in BOOLEAN : SearchAnswers(f, found)
<1>1. FieldsInit => AllSearch
  BY InitSearches
<1>2. FormInv /\ AllSearch /\ [FieldsNext]_fieldVars => AllSearch'
  BY SearchesStep
<1>3. AllSearch /\ P => T \/ R
  BY DEF AllSearch, Searches, WaitsForTimer, WaitsForAnswer
<1>4. FormInv /\ [FieldsNext]_fieldVars /\ [K]_fieldVars
        => (T => T' \/ R' \/ ~P') /\ (R => R' \/ ~P')
  <2> SUFFICES ASSUME FormInv, [FieldsNext]_fieldVars, [K]_fieldVars
               PROVE  (T => T' \/ R' \/ ~P') /\ (R => R' \/ ~P')
    OBVIOUS
  <2>1. Key(field'[f]) = Key(field[f])
    BY DEF Key, fieldVars
  <2>2. QED
    BY <2>1, AtRestStep DEF WaitsForTimer, WaitsForAnswer
<1>5. FormInv /\ T /\ <<SearchTimer(f)>>_fieldVars => R'
  <2> SUFFICES ASSUME FormInv, T, SearchTimer(f) PROVE R'
    OBVIOUS
  <2>1. GoesOn(field[f], field'[f]) /\ field'[f].searching = field[f].searching
    BY TimerGoesOn
  <2>2. QED
    BY <2>1 DEF GoesOn, WaitsForTimer, WaitsForAnswer, Distinct
<1>6. FormInv /\ <<Answered>>_fieldVars => ~P'
  BY AnswerEnds
<1>7. /\ SearchCanGoOn(f) /\ T => ENABLED <<SearchTimer(f)>>_fieldVars
      /\ SearchCanGoOn(f) /\ R => ENABLED <<Answered>>_fieldVars
  BY DEF SearchCanGoOn
<1>8. FieldFairness(f) => WF_fieldVars(SearchTimer(f)) /\ WF_fieldVars(Answered)
  BY PTL DEF FieldFairness
<1>9. FieldsSpec => []FormInv
  BY FormInvHolds
<1>10. FairFieldsSpec => FieldFairness(f)
  BY DEF FairFieldsSpec, FieldsFairness
<1>11. SearchesCanGoOn => SearchCanGoOn(f)
  BY DEF SearchesCanGoOn
<1> HIDE DEF P, T, R, K, Answered
<1>12. FairFieldsSpec /\ []SearchesCanGoOn /\ <>[][K]_fieldVars => (P ~> ~P)
  BY <1>1, <1>2, <1>3, <1>4, <1>5, <1>6, <1>7, <1>8, <1>9, <1>10,
     <1>11, PTL DEF FairFieldsSpec, FieldsSpec
<1>13. QED
  BY <1>12 DEF P, K

\* A field that shows "Searching" stops showing it once nothing types in it or
\* fills it any more, for all texts and answers: a cancelled request or a timer
\* cleared on the way is always followed by one that ends the search.
THEOREM SearchesEndAtRest ==
  ASSUME Distinct
  PROVE  FairFieldsSpec /\ []SearchesCanGoOn => SearchEndsAtRest
BY SearchOfFieldEnds DEF SearchEndsAtRest

(***************************************************************************)
(* The walkthrough: its chat, its steps and what is shown of them.         *)
(***************************************************************************)

\* What can have been said about a subject.
Said(about) == {Message(role, about) : role \in {"user", "assistant"}}

\* A request knows what it asked about; the one that is still looked at asked
\* about what the chat is about now.
Asked(r) ==
  /\ r = [about |-> r.about, current |-> r.current]
  /\ r.current \in BOOLEAN
  /\ r.current => r.about = subject

RequestsKnow == \A r \in pending : Asked(r)

ChatInv ==
  /\ messages \in Seq(Said(subject))
  /\ RequestsKnow

\* When the subject changes, nothing under way is looked at any more and
\* nothing said remains.
LEMMA RetargetStep ==
  ASSUME ChatInv, NEW new, Retarget(new)
  PROVE  ChatInv'
<1>1. CASE new = subject
  BY <1>1 DEF Retarget, ChatInv, RequestsKnow, Asked, chatVars, Said, Message
<1>2. CASE new # subject
  <2>1. /\ messages' = <<>> /\ pending' = Disowned
    BY <1>2 DEF Retarget
  <2>2. ASSUME NEW r \in pending' PROVE Asked(r)'
    <3>1. PICK s \in pending : r = [s EXCEPT !.current = FALSE]
      BY <2>1, <2>2 DEF Disowned
    <3>2. s = [about |-> s.about, current |-> s.current]
      BY DEF ChatInv, RequestsKnow, Asked
    <3>3. r = [about |-> s.about, current |-> FALSE]
      BY <3>1, <3>2
    <3>4. QED
      BY <3>3 DEF Asked
  <2>3. QED
    BY <2>1, <2>2 DEF ChatInv, RequestsKnow
<1>3. QED
  BY <1>1, <1>2

\* Asking disowns what was asked before.
LEMMA AskStep ==
  ASSUME ChatInv, Ask(subject), subject' = subject
  PROVE  RequestsKnow'
<1>1. ASSUME NEW r \in pending' PROVE Asked(r)'
  <2>1. CASE r = [about |-> subject, current |-> TRUE]
    BY <2>1 DEF Asked, Ask
  <2>2. CASE r \in Disowned
    <3>1. PICK s \in pending : r = [s EXCEPT !.current = FALSE]
      BY <2>2 DEF Disowned
    <3>2. s = [about |-> s.about, current |-> s.current]
      BY DEF ChatInv, RequestsKnow, Asked
    <3>3. r = [about |-> s.about, current |-> FALSE]
      BY <3>1, <3>2
    <3>4. QED
      BY <3>3 DEF Asked
  <2>3. QED
    BY <1>1, <2>1, <2>2 DEF Ask
<1>2. QED
  BY <1>1 DEF RequestsKnow

\* The chat's own steps; an answer joins the conversation it was asked in.
LEMMA ChatNextStep ==
  ASSUME ChatInv, ChatNext
  PROVE  ChatInv'
<1>1. subject' = subject
  BY DEF ChatNext, FirstExplanation, Submit, Retry, Answer
<1>2. CASE FirstExplanation \/ Retry
  <2>1. Ask(subject) /\ UNCHANGED messages
    BY <1>2 DEF FirstExplanation, Retry, UserAsks
  <2>2. RequestsKnow'
    BY <1>1, <2>1, AskStep
  <2>3. QED
    BY <1>1, <2>1, <2>2 DEF ChatInv
<1>3. CASE Submit
  <2>1. Ask(subject) /\ messages' = Append(messages, Message("user", subject))
    BY <1>3 DEF Submit, UserAsks
  <2>2. RequestsKnow'
    BY <1>1, <2>1, AskStep
  <2>3. Message("user", subject) \in Said(subject)
    BY DEF Said
  <2>4. messages' \in Seq(Said(subject))
    BY <2>1, <2>3 DEF ChatInv
  <2>5. QED
    BY <1>1, <2>2, <2>4 DEF ChatInv
<1>4. ASSUME NEW r \in pending, NEW ok \in BOOLEAN, Answer(r, ok) PROVE ChatInv'
  <2>1. RequestsKnow'
    BY <1>1, <1>4 DEF Answer, ChatInv, RequestsKnow, Asked
  <2>2. CASE r.current /\ ok
    <3>1. Message("assistant", r.about) \in Said(subject)
      BY <2>2 DEF ChatInv, RequestsKnow, Asked, Said
    <3>2. messages' = Append(messages, Message("assistant", r.about))
      BY <1>4, <2>2 DEF Answer
    <3>3. messages' \in Seq(Said(subject))
      BY <3>1, <3>2 DEF ChatInv
    <3>4. QED
      BY <1>1, <2>1, <3>3 DEF ChatInv
  <2>3. CASE ~(r.current /\ ok)
    <3>1. messages' = messages
      BY <1>4, <2>3 DEF Answer
    <3>2. QED
      BY <1>1, <2>1, <3>1 DEF ChatInv
  <2>4. QED
    BY <2>2, <2>3
<1>5. QED
  BY <1>2, <1>3, <1>4 DEF ChatNext

\* Whatever routes, plans and pickups arrive, whichever step is shown, and
\* however late the answers are, the chat shows only what was said of its present
\* subject.
THEOREM ConversationAlwaysCurrent == WalkSpec => []ConversationIsCurrent
<1>1. WalkInit => ChatInv
  BY DEF WalkInit, ChatInit, ChatInv, RequestsKnow
<1>2. ChatInv /\ [WalkNext]_walkVars => ChatInv'
  <2> SUFFICES ASSUME ChatInv, [WalkNext]_walkVars PROVE ChatInv'
    OBVIOUS
  <2>1. CASE ChatNext
    BY <2>1, ChatNextStep
  <2>2. CASE UNCHANGED walkVars
    BY <2>2 DEF walkVars, chatVars, ChatInv, RequestsKnow, Asked, Said, Message
  <2>3. ASSUME NEW r, NEW route, NEW p, NEW index, NEW target, Show(r, route, p, index, target)
        PROVE ChatInv'
    BY <2>3, RetargetStep DEF Show
  <2>4. QED
    BY <2>1, <2>2, <2>3
    DEF WalkNext, RouteDrawn, PlanShown, LayersReset, ChangePickup, Back, Next1, Jump, HandleStepChange,
        Explain, CloseExplain
<1>3. ChatInv => ConversationIsCurrent
  BY DEF ChatInv, ConversationIsCurrent, Said, Message
<1>4. QED
  BY <1>1, <1>2, <1>3, PTL DEF WalkSpec

-----------------------------------------------------------------------------
(* Numbers, least elements and sorting. *)

\* A set of numbers that is not empty has a least one.
LEMMA NatMin ==
  ASSUME NEW T, T \subseteq Nat, T # {}
  PROVE  \E m \in T : \A n \in T : m <= n
<1> DEFINE R == OpToRel(<, Nat)
<1>1. \A n, m \in Nat : n < m => <<n, m>> \in R
  BY DEF OpToRel
<1>2. IsWellFoundedOn(R, Nat)
  BY NatLessThanWellFounded
<1> HIDE DEF R
<1>3. PICK m \in T : \A n \in T : ~(<<n, m>> \in R)
  BY <1>2, WFMin, Zenon
<1>4. ASSUME NEW n \in T PROVE m <= n
  <2>1. ~(<<n, m>> \in R)
    BY <1>3
  <2>2. n \in Nat /\ m \in Nat
    OBVIOUS
  <2>3. ~(n < m)
    BY <1>1, <2>1, <2>2, Zenon
  <2>4. QED
    BY <2>2, <2>3
<1>5. QED
  BY <1>4

\* The least of a set of numbers that is not empty is in it.
LEMMA MinOf ==
  ASSUME NEW T, T \subseteq Nat, T # {}
  PROVE  /\ Min(T) \in T
         /\ \A n \in T : Min(T) <= n
<1>1. \E m \in T : \A n \in T : m =< n
  BY NatMin
<1>2. QED
  BY <1>1 DEF Min

\* The least and the greatest of two numbers.
LEMMA PairBounds ==
  ASSUME NEW a \in Int, NEW b \in Int
  PROVE  Max({a, b}) = Most(a, b) /\ Min({a, b}) = Least(a, b)
BY DEF Max, Min, Most, Least

\* How many points come before one of them.
Below(points, p) == {q \in points : q.sequence < p.sequence}

Numbered(points) ==
  /\ IsFiniteSet(points)
  /\ \A p \in points : p.sequence \in Nat
  /\ \A p, q \in points : p.sequence = q.sequence => p = q

\* More points come before a later one.
LEMMA RanksRise ==
  ASSUME NEW points, Numbered(points), NEW p \in points, NEW q \in points,
         p.sequence < q.sequence
  PROVE  Cardinality(Below(points, p)) < Cardinality(Below(points, q))
<1>1. Below(points, p) \subseteq Below(points, q)
  BY DEF Below, Numbered
<1>2. p \in Below(points, q) /\ p \notin Below(points, p)
  BY DEF Below, Numbered
<1>3. IsFiniteSet(Below(points, q))
  BY FS_Subset DEF Below, Numbered
<1>4. /\ IsFiniteSet(Below(points, p))
      /\ Cardinality(Below(points, p)) <= Cardinality(Below(points, q))
      /\ Cardinality(Below(points, p)) # Cardinality(Below(points, q))
  BY <1>1, <1>2, <1>3, FS_Subset
<1>5. Cardinality(Below(points, p)) \in Nat /\ Cardinality(Below(points, q)) \in Nat
  BY <1>3, <1>4, FS_CardinalityType
<1>6. QED
  BY <1>4, <1>5

\* Every place from the first to the last is the rank of a point.
LEMMA RanksFill ==
  ASSUME NEW points, Numbered(points), NEW i \in 1 .. Cardinality(points)
  PROVE  \E p \in points : Cardinality(Below(points, p)) = i - 1
<1> DEFINE n == Cardinality(points)
           rank == [p \in points |-> Cardinality(Below(points, p))]
<1>1. n \in Nat
  BY FS_CardinalityType DEF Numbered
<1>2. ASSUME NEW p \in points PROVE Cardinality(Below(points, p)) \in 0 .. (n - 1)
  <2>1. /\ IsFiniteSet(Below(points, p))
        /\ Cardinality(Below(points, p)) <= n
        /\ n = Cardinality(Below(points, p)) => points = Below(points, p)
    BY FS_Subset DEF Below, Numbered
  <2>2. p \notin Below(points, p)
    BY DEF Below, Numbered
  <2>3. Cardinality(Below(points, p)) \in Nat
    BY <2>1, FS_CardinalityType
  <2>4. QED
    BY <1>1, <2>1, <2>2, <2>3
<1>3. ASSUME NEW p \in points, NEW q \in points, rank[p] = rank[q] PROVE p = q
  <2>1. ~(p.sequence < q.sequence) /\ ~(q.sequence < p.sequence)
    BY <1>2, <1>3, RanksRise
  <2>2. QED
    BY <2>1 DEF Numbered
<1>4. rank \in Injection(points, 0 .. (n - 1))
  BY <1>2, <1>3 DEF Injection, IsInjective
<1>5. IsFiniteSet(0 .. (n - 1)) /\ Cardinality(0 .. (n - 1)) = n
  <2>1. 0 \in Int /\ n - 1 \in Int
    BY <1>1
  <2> HIDE DEF n
  <2>2. QED
    BY <1>1, <2>1, FS_Interval
<1> HIDE DEF rank
<1>6. rank \in Surjection(points, 0 .. (n - 1))
  BY <1>4, <1>5, FS_Injection
<1>7. i - 1 \in 0 .. (n - 1)
  BY <1>1
<1>8. \E p \in points : rank[p] = i - 1
  BY <1>6, <1>7 DEF Surjection
<1>9. QED
  BY <1>8 DEF rank

\* Sorting keeps the points and puts them in the order of their numbers.
LEMMA SortedBySequence ==
  ASSUME NEW points, Numbered(points)
  PROVE  /\ Cardinality(points) \in Nat
         /\ BySequence(points) \in [1 .. Cardinality(points) -> points]
         /\ \A i, j \in 1 .. Cardinality(points) :
              i < j => BySequence(points)[i].sequence < BySequence(points)[j].sequence
<1> DEFINE n == Cardinality(points)
           s == BySequence(points)
<1>1. n \in Nat
  BY FS_CardinalityType DEF Numbered
<1>2. ASSUME NEW i \in 1 .. n
      PROVE  s[i] \in points /\ Cardinality(Below(points, s[i])) = i - 1
  <2>1. \E p \in points : Cardinality(Below(points, p)) = i - 1
    BY RanksFill
  <2>2. s[i] = CHOOSE p \in points : Cardinality(Below(points, p)) = i - 1
    BY DEF BySequence, Below
  <2>3. QED
    BY <2>1, <2>2
<1>3. ASSUME NEW i \in 1 .. n, NEW j \in 1 .. n, i < j
      PROVE  s[i].sequence < s[j].sequence
  <2>1. s[i] \in points /\ s[j] \in points
    BY <1>2
  <2>2. s[i] # s[j]
    BY <1>2, <1>3
  <2>3. ~(s[j].sequence < s[i].sequence)
    BY <1>2, <1>3, <2>1, RanksRise
  <2>4. QED
    BY <2>1, <2>2, <2>3 DEF Numbered
<1>4. s \in [1 .. n -> points]
  BY <1>2 DEF BySequence
<1>5. QED
  BY <1>1, <1>3, <1>4

-----------------------------------------------------------------------------
(* The steps of a plan. *)

\* A step of the walkthrough.
Kind == {"start", "stop", "checkpoint", "unreachable_station", "destination", "pickup"}
AnyStep ==
  [kind : Kind, status : {"reached", "unreachable"}, offset : Nat, sequence : Int, fuel : Int]

\* Fuel is departed with at the start and at the stops, and a pickup has none.
Departs(step) ==
  /\ step.kind \in {"start", "stop"} => step.fuel \in Fuel
  /\ step.kind = "pickup" => step.fuel = Undefined

Walkable(steps) ==
  /\ steps \in Seq(AnyStep)
  /\ \A i \in DOMAIN steps : Departs(steps[i])

InOrder(steps) ==
  \A i, j \in DOMAIN steps : i < j => steps[i].offset <= steps[j].offset

\* A step may only lie before an earlier one if both are beyond a distance.
Onward(steps, far) ==
  \A i, j \in DOMAIN steps :
    i < j => steps[i].offset <= steps[j].offset \/ far <= steps[j].offset

\* No point lies beyond the end of the route.
Within(points, route) == \A p \in points : p.offset <= TotalDistance(route)

NoPickup(steps) == \A i \in DOMAIN steps : steps[i].kind # "pickup"

\* A route has a length.
LEMMA TotalNat ==
  ASSUME NEW route, Measured(route)
  PROVE  TotalDistance(route) \in Nat
BY DEF Measured, TotalDistance, Last

\* Steps in order are in order up to any distance, and the other way round.
LEMMA OnwardInOrder ==
  ASSUME NEW steps, Walkable(steps)
  PROVE  /\ InOrder(steps) => \A far : Onward(steps, far)
         /\ \A total \in Nat :
              (\A far \in Nat : total <= far => Onward(steps, far)) => InOrder(steps)
<1>1. InOrder(steps) => \A far : Onward(steps, far)
  BY DEF InOrder, Onward
<1>2. ASSUME NEW total \in Nat, \A far \in Nat : total <= far => Onward(steps, far),
             NEW i \in DOMAIN steps, NEW j \in DOMAIN steps, i < j
      PROVE  steps[i].offset <= steps[j].offset
  <2>1. PICK b \in Nat : b = steps[j].offset
    <3>1. steps[j] \in AnyStep
      BY DEF Walkable
    <3>2. QED
      BY <3>1 DEF AnyStep
  <2>2. total + b + 1 \in Nat /\ total <= total + b + 1 /\ ~(total + b + 1 <= b)
    BY <2>1
  <2>3. Onward(steps, total + b + 1)
    BY <1>2, <2>2
  <2>4. QED
    BY <1>2, <2>1, <2>2, <2>3 DEF Onward
<1>3. QED
  BY <1>1, <1>2 DEF InOrder

\* No two points of a plan have a number in common, whichever are left out, and
\* a later number is not nearer to the start.
LEMMA AlongNumbered ==
  ASSUME NEW points, points \subseteq PlanPoint \/ points \subseteq PlanStop,
         AlongRoute(points), NEW some \in SUBSET points
  PROVE  /\ Numbered(some)
         /\ \A p, q \in some : p.sequence < q.sequence => p.offset <= q.offset
         /\ \A p \in some : p.offset \in Nat
<1>1. \A p \in points : p.sequence \in Nat /\ p.offset \in Nat
  BY DEF PlanPoint, PlanStop
<1>2. IsFiniteSet(some)
  BY FS_Subset DEF AlongRoute
<1>3. \A p, q \in some :
        p # q => \/ p.sequence < q.sequence /\ p.offset <= q.offset
                 \/ q.sequence < p.sequence /\ q.offset <= p.offset
  BY DEF AlongRoute
<1>4. QED
  BY <1>1, <1>2, <1>3 DEF Numbered

\* What is sorted is in the order of the route, too.
LEMMA SortedAlongRoute ==
  ASSUME NEW points, points \subseteq PlanPoint \/ points \subseteq PlanStop,
         AlongRoute(points), NEW some \in SUBSET points
  PROVE  \E n \in Nat :
           /\ n = Cardinality(some)
           /\ BySequence(some) \in [1 .. n -> some]
           /\ \A i \in 1 .. n : BySequence(some)[i].offset \in Nat
           /\ \A i, j \in 1 .. n :
                i < j => BySequence(some)[i].offset <= BySequence(some)[j].offset
<1>1. /\ Numbered(some)
      /\ \A p, q \in some : p.sequence < q.sequence => p.offset <= q.offset
      /\ \A p \in some : p.offset \in Nat
  BY AlongNumbered
<1>2. /\ Cardinality(some) \in Nat
      /\ BySequence(some) \in [1 .. Cardinality(some) -> some]
      /\ \A i, j \in 1 .. Cardinality(some) :
           i < j => BySequence(some)[i].sequence < BySequence(some)[j].sequence
  BY <1>1, SortedBySequence
<1>3. \A i \in 1 .. Cardinality(some) : BySequence(some)[i] \in some
  BY <1>2
<1>4. QED
  BY <1>1, <1>2, <1>3

\* How many steps a plan has on a route, without a pickup.
StepCount(r) ==
  IF r.itinerary # {} THEN Cardinality({p \in r.itinerary : Shown(p)})
  ELSE Cardinality(r.stops) + 2

\* With an itinerary there is a step for each point shown of it.
LEMMA ItinerarySteps ==
  ASSUME NEW r, Plan(r), r.itinerary # {}, NEW route
  PROVE  LET steps == BuildBaseSteps(r, route, InitialFuel)
         IN  /\ Walkable(steps) /\ NoPickup(steps) /\ InOrder(steps)
             /\ Len(steps) = StepCount(r) /\ StepCount(r) \in Nat
<1> DEFINE seen == {p \in r.itinerary : Shown(p)}
           points == BySequence(seen)
           steps == BuildBaseSteps(r, route, InitialFuel)
<1>1. r.itinerary \subseteq PlanPoint /\ AlongRoute(r.itinerary) /\ seen \in SUBSET r.itinerary
  BY DEF Plan
<1>2. PICK n \in Nat :
        /\ n = Cardinality(seen)
        /\ points \in [1 .. n -> seen]
        /\ \A i \in 1 .. n : points[i].offset \in Nat
        /\ \A i, j \in 1 .. n : i < j => points[i].offset <= points[j].offset
  <2> HIDE DEF seen
  <2>1. QED
    BY <1>1, SortedAlongRoute
<1>3. steps = [i \in 1 .. n |->
                 Step(StepKind(points[i]), points[i].status, points[i].offset,
                      points[i].sequence,
                      IF StepKind(points[i]) = "stop" THEN points[i].after
                      ELSE points[i].fuel)]
  BY <1>2 DEF BuildBaseSteps
<1> HIDE DEF points, steps
<1>4. ASSUME NEW i \in 1 .. n
      PROVE  /\ steps[i] \in AnyStep /\ Departs(steps[i])
             /\ steps[i].kind # "pickup" /\ steps[i].offset = points[i].offset
  <2>1. points[i] \in PlanPoint /\ points[i] \in r.itinerary
    BY <1>1, <1>2
  <2>2. points[i].kind = "start" => points[i].fuel \in Fuel
    BY <2>1 DEF Plan
  <2>3. PICK p \in PlanPoint : p = points[i]
    BY <2>1
  <2>4. /\ p.kind \in {"start", "station", "refuel", "destination", "unreachable_station"}
        /\ p.status \in {"reached", "unreachable"}
        /\ p.sequence \in Nat /\ p.fuel \in Int /\ p.after \in Fuel
        /\ p.offset \in Nat
        /\ p.kind = "start" => p.fuel \in Fuel
    BY <1>2, <2>2, <2>3 DEF PlanPoint
  <2>5. /\ StepKind(p) \in Kind \ {"pickup"}
        /\ StepKind(p) = "start" => p.kind = "start"
    BY <2>4 DEF StepKind, Kind
  <2>6. steps[i] = Step(StepKind(p), p.status, p.offset, p.sequence,
                        IF StepKind(p) = "stop" THEN p.after ELSE p.fuel)
    BY <1>3, <2>3
  <2>7. QED
    BY <2>3, <2>4, <2>5, <2>6 DEF Step, AnyStep, Departs, Fuel, Undefined
<1>5. DOMAIN steps = 1 .. n
  BY <1>3
<1>6. steps \in Seq(AnyStep)
  BY <1>3, <1>4, SeqDef
<1>7. Len(steps) = n /\ StepCount(r) = n
  BY <1>2, <1>5, <1>6 DEF StepCount
<1>8. QED
  BY <1>2, <1>4, <1>5, <1>6, <1>7 DEF Walkable, InOrder, NoPickup, steps

\* A step put between two sequences of steps in order.
LEMMA Joined ==
  ASSUME NEW S, NEW s \in Seq(S), NEW t \in Seq(S), NEW e \in S
  PROVE  /\ s \o <<e>> \o t \in Seq(S)
         /\ Len(s \o <<e>> \o t) = Len(s) + 1 + Len(t)
         /\ \A i \in 1 .. Len(s) + 1 + Len(t) :
              (s \o <<e>> \o t)[i] = IF i <= Len(s) THEN s[i]
                                     ELSE IF i = Len(s) + 1 THEN e ELSE t[i - Len(s) - 1]
<1>1. <<e>> \in Seq(S) /\ Len(<<e>>) = 1 /\ <<e>>[1] = e
  OBVIOUS
<1>2. Len(s) \in Nat /\ Len(t) \in Nat
  OBVIOUS
<1>3. /\ s \o <<e>> \in Seq(S)
      /\ Len(s \o <<e>>) = Len(s) + 1
      /\ \A i \in 1 .. Len(s) + 1 : (s \o <<e>>)[i] = IF i <= Len(s) THEN s[i] ELSE e
  <2>1. /\ s \o <<e>> \in Seq(S)
        /\ Len(s \o <<e>>) = Len(s) + Len(<<e>>)
        /\ \A i \in 1 .. Len(s) + Len(<<e>>) :
             (s \o <<e>>)[i] = IF i <= Len(s) THEN s[i] ELSE <<e>>[i - Len(s)]
    BY <1>1, ConcatProperties
  <2>2. \A i \in 1 .. Len(s) + 1 : i <= Len(s) \/ i - Len(s) = 1
    BY <1>2
  <2>3. QED
    BY <1>1, <1>2, <2>1, <2>2
<1>4. PICK u \in Seq(S) : u = s \o <<e>>
  BY <1>3
<1>5. /\ u \o t \in Seq(S)
      /\ Len(u \o t) = Len(u) + Len(t)
      /\ \A i \in 1 .. Len(u) + Len(t) :
           (u \o t)[i] = IF i <= Len(u) THEN u[i] ELSE t[i - Len(u)]
  BY ConcatProperties
<1>6. Len(u) = Len(s) + 1 /\ \A i \in 1 .. Len(s) + 1 : u[i] = IF i <= Len(s) THEN s[i] ELSE e
  BY <1>3, <1>4
<1>7. \A i \in 1 .. Len(s) + 1 + Len(t) : i \in 1 .. Len(s) + 1 \/ i > Len(s) + 1
  BY <1>2
<1>8. \A i \in Int : i > Len(s) + 1 => i - (Len(s) + 1) = i - Len(s) - 1
  BY <1>2
<1>9. s \o <<e>> \o t = u \o t
  BY <1>4
<1>10. ASSUME NEW i \in 1 .. Len(s) + 1 + Len(t)
       PROVE  (u \o t)[i] = IF i <= Len(s) THEN s[i]
                            ELSE IF i = Len(s) + 1 THEN e ELSE t[i - Len(s) - 1]
  <2>1. (u \o t)[i] = IF i <= Len(s) + 1 THEN u[i] ELSE t[i - (Len(s) + 1)]
    BY <1>5, <1>6
  <2>2. CASE i <= Len(s) + 1
    BY <1>2, <1>6, <2>1, <2>2
  <2>3. CASE ~(i <= Len(s) + 1)
    BY <1>2, <1>8, <2>1, <2>3
  <2>4. QED
    BY <2>2, <2>3
<1>11. QED
  BY <1>5, <1>6, <1>9, <1>10

\* Without an itinerary there is a step for each stop between the ends.
LEMMA StopSteps ==
  ASSUME NEW r, Plan(r), NEW route, Measured(route), route # <<>>
  PROVE  LET steps == StepsOfStops(r.stops, route, InitialFuel)
         IN  /\ Walkable(steps) /\ NoPickup(steps)
             /\ Onward(steps, TotalDistance(route))
             /\ Within(r.stops, route) => InOrder(steps)
             /\ Len(steps) = Cardinality(r.stops) + 2 /\ Cardinality(r.stops) \in Nat
<1> DEFINE start == Step("start", "reached", 0, Undefined, InitialFuel)
           end == Step("destination", "reached", TotalDistance(route), Undefined, 0)
           ordered == BySequence(r.stops)
           middle == [i \in DOMAIN ordered |->
                        Step("stop", "reached", ordered[i].offset, Undefined, ordered[i].after)]
           steps == StepsOfStops(r.stops, route, InitialFuel)
           Total == TotalDistance(route)
<1>1. r.stops \subseteq PlanStop /\ AlongRoute(r.stops)
  BY DEF Plan
<1>2. PICK n \in Nat :
        /\ n = Cardinality(r.stops)
        /\ ordered \in [1 .. n -> r.stops]
        /\ \A i \in 1 .. n : ordered[i].offset \in Nat
        /\ \A i, j \in 1 .. n : i < j => ordered[i].offset <= ordered[j].offset
  BY <1>1, SortedAlongRoute
<1>3. ASSUME NEW i \in 1 .. n
      PROVE  /\ middle[i] \in AnyStep /\ Departs(middle[i])
             /\ middle[i].kind # "pickup" /\ middle[i].offset = ordered[i].offset
  <2>1. ordered[i] \in PlanStop
    BY <1>1, <1>2
  <2>2. ordered[i].after \in Fuel
    BY <2>1 DEF PlanStop
  <2>3. middle[i] = Step("stop", "reached", ordered[i].offset, Undefined, ordered[i].after)
    BY <1>2
  <2>4. QED
    BY <1>2, <2>2, <2>3 DEF Step, AnyStep, Departs, Fuel, Undefined, Kind
<1>4. middle \in [1 .. n -> AnyStep]
  BY <1>2, <1>3
<1>5. middle \in Seq(AnyStep) /\ Len(middle) = n /\ DOMAIN middle = 1 .. n
  BY <1>4, SeqDef
<1>6. Total \in Nat
  BY TotalNat
<1>7. /\ start \in AnyStep /\ Departs(start) /\ start.kind # "pickup" /\ start.offset = 0
      /\ end \in AnyStep /\ Departs(end) /\ end.kind # "pickup" /\ end.offset = Total
  BY <1>6, WalkthroughAssumption DEF Step, AnyStep, Departs, Fuel, Undefined, Kind
<1>8. \A i, j \in 1 .. n : i < j => middle[i].offset <= middle[j].offset
  BY <1>2, <1>3
<1>9. Within(r.stops, route) => \A i \in 1 .. n : middle[i].offset <= Total
  BY <1>2, <1>3 DEF Within
<1>10. steps = <<start>> \o middle \o <<end>>
  BY DEF StepsOfStops
<1> HIDE DEF start, end, middle, steps, ordered, Total
<1>11. PICK head \in Seq(AnyStep) :
        /\ head = <<start>> \o middle
        /\ Len(head) = n + 1
        /\ \A i \in 1 .. n + 1 : head[i] = IF i = 1 THEN start ELSE middle[i - 1]
  <2>1. <<start>> \in Seq(AnyStep) /\ Len(<<start>>) = 1 /\ <<start>>[1] = start
    BY <1>7
  <2>2. /\ <<start>> \o middle \in Seq(AnyStep)
        /\ Len(<<start>> \o middle) = Len(<<start>>) + Len(middle)
        /\ \A i \in 1 .. Len(<<start>>) + Len(middle) :
             (<<start>> \o middle)[i] = IF i <= Len(<<start>>) THEN <<start>>[i]
                                        ELSE middle[i - Len(<<start>>)]
    BY <1>5, <2>1, ConcatProperties
  <2>3. \A i \in 1 .. n + 1 : i <= 1 <=> i = 1
    OBVIOUS
  <2>4. 1 + n = n + 1
    OBVIOUS
  <2>5. QED
    BY <1>5, <2>1, <2>2, <2>3, <2>4
<1>12. /\ steps \in Seq(AnyStep)
      /\ Len(steps) = n + 2
      /\ \A i \in 1 .. n + 2 : steps[i] = IF i <= n + 1 THEN head[i] ELSE end
  <2>1. <<end>> \in Seq(AnyStep) /\ Len(<<end>>) = 1 /\ <<end>>[1] = end
    BY <1>7
  <2>2. /\ head \o <<end>> \in Seq(AnyStep)
        /\ Len(head \o <<end>>) = Len(head) + Len(<<end>>)
        /\ \A i \in 1 .. Len(head) + Len(<<end>>) :
             (head \o <<end>>)[i] = IF i <= Len(head) THEN head[i]
                                    ELSE <<end>>[i - Len(head)]
    BY <2>1, ConcatProperties
  <2>3. \A i \in 1 .. n + 2 : ~(i <= n + 1) => i - (n + 1) = 1
    OBVIOUS
  <2>4. n + 1 + 1 = n + 2
    OBVIOUS
  <2>5. steps = head \o <<end>>
    BY <1>10, <1>11
  <2>6. QED
    BY <1>11, <2>1, <2>2, <2>3, <2>4, <2>5
<1>13. \A i \in 1 .. n + 2 :
        steps[i] = IF i = 1 THEN start ELSE IF i <= n + 1 THEN middle[i - 1] ELSE end
  BY <1>11, <1>12
<1>14. \A i \in 1 .. n + 2 : Departs(steps[i]) /\ steps[i].kind # "pickup"
  BY <1>3, <1>7, <1>13
<1>15. DOMAIN steps = 1 .. n + 2
  BY <1>12
<1>16. ASSUME NEW i \in 1 .. n + 2, NEW j \in 1 .. n + 2, i < j
      PROVE  /\ steps[i].offset <= steps[j].offset \/ Total <= steps[j].offset
             /\ Within(r.stops, route) => steps[i].offset <= steps[j].offset
  <2>1. /\ steps[i].offset \in Nat /\ steps[j].offset \in Nat
        /\ \A k \in 1 .. n : middle[k].offset \in Nat
    <3>1. \A e \in AnyStep : e.offset \in Nat
      BY DEF AnyStep
    <3>2. steps[i] \in AnyStep /\ steps[j] \in AnyStep
      BY <1>12
    <3>3. QED
      BY <1>4, <3>1, <3>2
  <2>2. CASE i = 1
    BY <1>7, <1>13, <2>1, <2>2
  <2>3. CASE i # 1 /\ j <= n + 1
    <3>1. i - 1 \in 1 .. n /\ j - 1 \in 1 .. n /\ i - 1 < j - 1
      BY <1>16, <2>3
    <3>2. steps[i] = middle[i - 1] /\ steps[j] = middle[j - 1]
      BY <1>13, <1>16, <2>3
    <3>3. QED
      BY <1>8, <3>1, <3>2
  <2>4. CASE i # 1 /\ ~(j <= n + 1)
    <3>1. steps[j].offset = Total
      BY <1>7, <1>13, <1>16, <2>4
    <3>2. i - 1 \in 1 .. n /\ steps[i] = middle[i - 1]
      BY <1>13, <1>16, <2>4
    <3>3. QED
      BY <1>6, <1>9, <3>1, <3>2
  <2>5. QED
    BY <2>2, <2>3, <2>4
<1>17. Walkable(steps) /\ NoPickup(steps)
  BY <1>12, <1>14, <1>15 DEF Walkable, NoPickup
<1>18. Onward(steps, Total) /\ (Within(r.stops, route) => InOrder(steps))
  BY <1>15, <1>16 DEF InOrder, Onward
<1>19. QED
  BY <1>2, <1>12, <1>17, <1>18 DEF steps, Total

\* The steps of a plan, of either form, are in the order of the route.
LEMMA BaseSteps ==
  ASSUME NEW r, Plan(r), NEW route, Measured(route), route # <<>>
  PROVE  LET steps == BuildBaseSteps(r, route, InitialFuel)
         IN  /\ Walkable(steps) /\ NoPickup(steps)
             /\ Onward(steps, TotalDistance(route))
             /\ r.itinerary # {} \/ Within(r.stops, route) => InOrder(steps)
             /\ Len(steps) = StepCount(r) /\ StepCount(r) \in Nat
<1>1. CASE r.itinerary # {}
  BY <1>1, ItinerarySteps, OnwardInOrder
<1>2. CASE ~(r.itinerary # {})
  BY <1>2, StopSteps DEF BuildBaseSteps, StepCount
<1>3. QED
  BY <1>1, <1>2

-----------------------------------------------------------------------------
(* The pickup among the steps. *)

\* A place beside the route is projected onto it.
LEMMA OffsetOnRoute ==
  ASSUME NEW route, Measured(route), NEW x \in Nat
  PROVE  OffsetOf(route, x) \in 0 .. TotalDistance(route)
<1> DEFINE gap(v) == IF v >= x THEN v - x ELSE x - v
           gaps == {gap(route[i]) : i \in DOMAIN route}
           nearest == {i \in DOMAIN route : \A j \in DOMAIN route : gap(route[i]) <= gap(route[j])}
<1>1. CASE route = <<>>
  BY <1>1, TotalNat DEF OffsetOf
<1>2. CASE route # <<>>
  <2>1. /\ Len(route) \in Nat \ {0} /\ DOMAIN route = 1 .. Len(route)
        /\ \A i \in DOMAIN route : route[i] \in Nat
    BY <1>2 DEF Measured
  <2>2. gaps \subseteq Nat /\ gaps # {}
    BY <2>1
  <2>3. PICK m \in gaps : \A g \in gaps : m <= g
    BY <2>2, NatMin
  <2>4. PICK i \in DOMAIN route : gap(route[i]) = m
    BY <2>3
  <2>5. i \in nearest
    BY <2>3, <2>4
  <2>6. nearest \subseteq DOMAIN route
    OBVIOUS
  <2>7. OffsetOf(route, x) = route[Min(nearest)]
    BY <1>2 DEF OffsetOf
  <2> HIDE DEF nearest
  <2>8. nearest \subseteq Nat /\ nearest # {}
    BY <2>1, <2>5, <2>6
  <2>9. PICK k \in DOMAIN route : OffsetOf(route, x) = route[k]
    BY <2>6, <2>7, <2>8, MinOf
  <2>10. route[k] \in Nat /\ route[k] <= route[Len(route)] /\ (Len(route) = 1 => route[k] = 0)
    <3>1. route[1] = 0
      BY <1>2 DEF Measured
    <3>2. \A i1, i2 \in DOMAIN route : i1 <= i2 => route[i1] <= route[i2]
      BY DEF Measured
    <3>3. 1 \in DOMAIN route /\ Len(route) \in DOMAIN route /\ k <= Len(route)
          /\ (Len(route) = 1 => k = 1)
      BY <2>1
    <3>4. QED
      BY <2>1, <3>1, <3>2, <3>3
  <2>11. QED
    BY <2>1, <2>9, <2>10 DEF TotalDistance, Last
<1>3. QED
  BY <1>1, <1>2

\* The steps with one put at a place among them.
Inserted(steps, base, k, e) ==
  /\ steps \in Seq(AnyStep) /\ Len(steps) = Len(base) + 1
  /\ k \in 1 .. Len(base) + 1
  /\ \A i \in 1 .. Len(base) + 1 :
       steps[i] = IF i < k THEN base[i] ELSE IF i = k THEN e ELSE base[i - 1]

\* The pickup has a place among any steps.  If they are in order as far as it,
\* every one before it is at most as far, every later one farther.
LEMMA PickupPlaced ==
  ASSUME NEW base, Walkable(base), NEW far \in Nat, NEW offset \in 0 .. far
  PROVE  LET k == PickupPosition(base, offset)
         IN  /\ k \in 1 .. Len(base) + 1
             /\ Onward(base, far) =>
                  \A i \in 1 .. Len(base) :
                    IF i < k THEN base[i].offset <= offset ELSE offset <= base[i].offset
<1> DEFINE beyond == {i \in DOMAIN base : base[i].offset > offset}
           k == PickupPosition(base, offset)
<1>1. /\ Len(base) \in Nat /\ DOMAIN base = 1 .. Len(base)
      /\ \A i \in 1 .. Len(base) : base[i] \in AnyStep
  BY DEF Walkable
<1>2. \A i \in 1 .. Len(base) : base[i].offset \in Nat
  BY <1>1 DEF AnyStep
<1>3. CASE beyond = {}
  <2>1. k = Len(base) + 1
    BY <1>3 DEF PickupPosition
  <2>2. QED
    BY <1>1, <1>2, <1>3, <2>1
<1>4. CASE beyond # {}
  <2>1. beyond \subseteq Nat
    BY <1>1
  <2>2. k = Min(beyond)
    BY <1>4 DEF PickupPosition
  <2>3. k \in beyond /\ \A i \in beyond : k <= i
    <3> HIDE DEF beyond, k
    <3>1. QED
      BY <1>4, <2>1, <2>2, MinOf
  <2>4. k \in 1 .. Len(base) /\ base[k].offset > offset
    BY <1>1, <2>3
  <2>5. Onward(base, far) => \A i \in 1 .. Len(base) : i > k => offset <= base[i].offset
    BY <1>1, <1>2, <2>4 DEF Onward
  <2>6. \A i \in 1 .. Len(base) : i < k => ~(base[i].offset > offset)
    BY <1>1, <2>3, <2>4
  <2> HIDE DEF beyond, k
  <2>7. QED
    BY <1>1, <1>2, <2>4, <2>5, <2>6 DEF k
<1>5. QED
  BY <1>3, <1>4

Pickup(offset) == Step("pickup", "reached", offset, Undefined, Undefined)

\* The pickup is put at its place and moves the later steps on by one.
LEMMA PickupInserted ==
  ASSUME NEW base, Walkable(base), NEW offset \in Nat
  PROVE  Inserted(WithPickup(base, offset), base, PickupPosition(base, offset), Pickup(offset))
<1>1. PICK k \in 1 .. Len(base) + 1 : k = PickupPosition(base, offset)
  <2>1. offset \in 0 .. offset
    OBVIOUS
  <2>2. QED
    BY <2>1, PickupPlaced
<1>2. PICK e \in AnyStep : e = Pickup(offset)
  <2>1. Pickup(offset) \in AnyStep
    BY DEF Pickup, Step, AnyStep, Kind, Undefined
  <2>2. QED
    BY <2>1
<1>3. base \in Seq(AnyStep) /\ Len(base) \in Nat
  BY DEF Walkable
<1>4. WithPickup(base, offset) = SubSeq(base, 1, k - 1) \o <<e>> \o SubSeq(base, k, Len(base))
  <2>1. offset # Undefined
    BY DEF Undefined
  <2>2. QED
    BY <1>1, <1>2, <2>1 DEF WithPickup, InsertAt, Pickup
<1>5. /\ SubSeq(base, 1, k - 1) \in Seq(AnyStep)
      /\ Len(SubSeq(base, 1, k - 1)) = k - 1
      /\ \A i \in 1 .. k - 1 : SubSeq(base, 1, k - 1)[i] = base[i]
  BY <1>3
<1>6. /\ SubSeq(base, k, Len(base)) \in Seq(AnyStep)
      /\ Len(SubSeq(base, k, Len(base))) = Len(base) - k + 1
      /\ \A i \in 1 .. Len(base) - k + 1 : SubSeq(base, k, Len(base))[i] = base[k + i - 1]
  BY <1>3
<1>7. PICK s \in Seq(AnyStep), t \in Seq(AnyStep) :
        /\ Len(s) = k - 1 /\ \A i \in 1 .. k - 1 : s[i] = base[i]
        /\ Len(t) = Len(base) - k + 1 /\ \A i \in 1 .. Len(base) - k + 1 : t[i] = base[k + i - 1]
        /\ WithPickup(base, offset) = s \o <<e>> \o t
  BY <1>4, <1>5, <1>6
<1>8. PICK w \in Seq(AnyStep) :
        /\ w = s \o <<e>> \o t
        /\ Len(w) = Len(s) + 1 + Len(t)
        /\ \A i \in 1 .. Len(s) + 1 + Len(t) :
             w[i] = IF i <= Len(s) THEN s[i]
                    ELSE IF i = Len(s) + 1 THEN e ELSE t[i - Len(s) - 1]
  <2>1. /\ s \o <<e>> \o t \in Seq(AnyStep)
        /\ Len(s \o <<e>> \o t) = Len(s) + 1 + Len(t)
        /\ \A i \in 1 .. Len(s) + 1 + Len(t) :
             (s \o <<e>> \o t)[i] = IF i <= Len(s) THEN s[i]
                                    ELSE IF i = Len(s) + 1 THEN e ELSE t[i - Len(s) - 1]
    BY Joined
  <2>2. QED
    BY <2>1
<1>9. Len(s) + 1 + Len(t) = Len(base) + 1
  BY <1>3, <1>7
<1>10. ASSUME NEW i \in 1 .. Len(base) + 1
       PROVE  w[i] = IF i < k THEN base[i] ELSE IF i = k THEN e ELSE base[i - 1]
  <2>1. CASE i < k
    BY <1>3, <1>7, <1>8, <1>9, <2>1
  <2>2. CASE i = k
    BY <1>3, <1>7, <1>8, <1>9, <2>2
  <2>3. CASE i > k
    <3>1. i - Len(s) - 1 = i - k /\ i - k \in 1 .. Len(base) - k + 1 /\ k + (i - k) - 1 = i - 1
      BY <1>3, <1>7, <2>3
    <3>2. w[i] = t[i - k]
      BY <1>3, <1>7, <1>8, <1>9, <2>3, <3>1
    <3>3. t[i - k] = base[i - 1]
      BY <1>7, <3>1
    <3>4. QED
      BY <2>3, <3>2, <3>3
  <2>4. QED
    BY <1>3, <2>1, <2>2, <2>3
<1>11. QED
  BY <1>1, <1>2, <1>7, <1>8, <1>9, <1>10 DEF Inserted

\* The numbers count the steps, without the pickup.
LEMMA OrdinalsWithPickup ==
  ASSUME NEW steps, NEW n \in Nat, DOMAIN steps = 1 .. n, NEW k \in 1 .. n,
         \A i \in 1 .. n : steps[i].kind = "pickup" <=> i = k, NEW i \in 1 .. n
  PROVE  Ordinal(steps, i) = IF i < k THEN i - 1 ELSE i - 2
<1> DEFINE pickups == {j \in 1 .. i : steps[j].kind = "pickup"}
<1>1. pickups = IF i < k THEN {} ELSE {k}
  OBVIOUS
<1>2. Cardinality(pickups) = IF i < k THEN 0 ELSE 1
  BY <1>1, FS_EmptySet, FS_Singleton
<1>3. Ordinal(steps, i) = (i - 1) - Cardinality(pickups)
  BY DEF Ordinal
<1> HIDE DEF pickups
<1>4. QED
  BY <1>2, <1>3

\* Without a pickup the numbers are the places.
LEMMA OrdinalsWithout ==
  ASSUME NEW steps, NEW n \in Nat, DOMAIN steps = 1 .. n,
         \A i \in 1 .. n : steps[i].kind # "pickup", NEW i \in 1 .. n
  PROVE  Ordinal(steps, i) = i - 1
<1> DEFINE pickups == {j \in 1 .. i : steps[j].kind = "pickup"}
<1>1. pickups = {}
  OBVIOUS
<1>2. Cardinality(pickups) = 0
  BY <1>1, FS_EmptySet
<1>3. Ordinal(steps, i) = (i - 1) - Cardinality(pickups)
  BY DEF Ordinal
<1> HIDE DEF pickups
<1>4. QED
  BY <1>2, <1>3

\* The steps that are not the pickup, each with its number.
Numbers(steps) ==
  {<<Ordinal(steps, i), steps[i]>> : i \in {j \in DOMAIN steps : steps[j].kind # "pickup"}}

\* With the pickup the steps stay in order and keep their numbers.
LEMMA WithPickupWalkable ==
  ASSUME NEW base, Walkable(base), NoPickup(base), NEW far \in Nat, NEW offset \in 0 .. far
  PROVE  LET steps == WithPickup(base, offset)
         IN  /\ Walkable(steps)
             /\ Len(steps) = Len(base) + 1
             /\ Numbers(steps) = Numbers(base)
             /\ Onward(base, far) => Onward(steps, far)
<1>1. PICK k \in 1 .. Len(base) + 1 :
        /\ k = PickupPosition(base, offset)
        /\ Onward(base, far) =>
             \A i \in 1 .. Len(base) :
               IF i < k THEN base[i].offset <= offset ELSE offset <= base[i].offset
  BY PickupPlaced
<1>2. PICK e : e = Pickup(offset)
  OBVIOUS
<1>3. PICK steps : steps = WithPickup(base, offset)
  OBVIOUS
<1>4. /\ steps \in Seq(AnyStep) /\ Len(steps) = Len(base) + 1
      /\ \A i \in 1 .. Len(base) + 1 :
           steps[i] = IF i < k THEN base[i] ELSE IF i = k THEN e ELSE base[i - 1]
  <2>1. offset \in Nat
    OBVIOUS
  <2>2. QED
    BY <1>1, <1>2, <1>3, <2>1, PickupInserted DEF Inserted
<1>5. /\ base \in Seq(AnyStep) /\ Len(base) \in Nat
      /\ DOMAIN base = 1 .. Len(base) /\ DOMAIN steps = 1 .. Len(base) + 1
  BY <1>4 DEF Walkable
<1>6. PICK n \in Nat : n = Len(base)
  BY <1>5
<1>7. e.kind = "pickup" /\ e.offset = offset /\ e.fuel = Undefined
  BY <1>2 DEF Pickup, Step
<1>8. /\ \A i \in 1 .. n : base[i].kind # "pickup" /\ Departs(base[i])
      /\ Onward(base, far) =>
           \A i, j \in 1 .. n :
             i < j => base[i].offset <= base[j].offset \/ far <= base[j].offset
  BY <1>5, <1>6 DEF Walkable, NoPickup, Onward
<1>9. ASSUME NEW i \in 1 .. n + 1
      PROVE  /\ Departs(steps[i])
             /\ steps[i].kind = "pickup" <=> i = k
  <2>1. CASE i < k
    BY <1>1, <1>4, <1>6, <1>8, <2>1
  <2>2. CASE i = k
    BY <1>4, <1>6, <1>7, <2>2 DEF Departs
  <2>3. CASE i > k
    <3>1. i - 1 \in 1 .. n /\ steps[i] = base[i - 1]
      BY <1>1, <1>4, <1>6, <2>3
    <3>2. QED
      BY <1>8, <2>3, <3>1
  <2>4. QED
    BY <1>1, <1>6, <2>1, <2>2, <2>3
<1>10. ASSUME Onward(base, far), NEW i \in 1 .. n + 1, NEW j \in 1 .. n + 1, i < j
       PROVE  steps[i].offset <= steps[j].offset \/ far <= steps[j].offset
  <2>1. CASE j < k
    <3>1. i \in 1 .. n /\ j \in 1 .. n /\ steps[i] = base[i] /\ steps[j] = base[j]
      BY <1>1, <1>4, <1>6, <1>10, <2>1
    <3>2. QED
      BY <1>8, <1>10, <3>1
  <2>2. CASE j = k
    <3>1. i \in 1 .. n /\ i < k /\ steps[i] = base[i] /\ steps[j] = e
      BY <1>1, <1>4, <1>6, <1>10, <2>2
    <3>2. QED
      BY <1>1, <1>6, <1>7, <1>10, <3>1
  <2>3. CASE j > k /\ i = k
    <3>1. j - 1 \in 1 .. n /\ ~(j - 1 < k) /\ steps[i] = e /\ steps[j] = base[j - 1]
      BY <1>1, <1>4, <1>6, <1>10, <2>3
    <3>2. QED
      BY <1>1, <1>6, <1>7, <1>10, <3>1
  <2>4. CASE j > k /\ i > k
    <3>1. i - 1 \in 1 .. n /\ j - 1 \in 1 .. n /\ i - 1 < j - 1
          /\ steps[i] = base[i - 1] /\ steps[j] = base[j - 1]
      BY <1>1, <1>4, <1>6, <1>10, <2>4
    <3>2. QED
      BY <1>8, <1>10, <3>1
  <2>5. CASE j > k /\ i < k
    <3>1. /\ i \in 1 .. n /\ j - 1 \in 1 .. n /\ (i < j - 1 \/ i = j - 1)
          /\ steps[i] = base[i] /\ steps[j] = base[j - 1]
      BY <1>1, <1>4, <1>6, <1>10, <2>5
    <3>2. base[i] \in AnyStep
      BY <1>5, <1>6, <3>1
    <3>3. base[i].offset \in Nat
      BY <3>2 DEF AnyStep
    <3>4. QED
      BY <1>8, <1>10, <3>1, <3>3
  <2>6. QED
    BY <1>1, <1>6, <2>1, <2>2, <2>3, <2>4, <2>5
<1>11. Walkable(steps) /\ (Onward(base, far) => Onward(steps, far))
  BY <1>4, <1>5, <1>6, <1>9, <1>10 DEF Walkable, Onward
<1>12. \A i \in 1 .. n : Ordinal(base, i) = i - 1
  BY <1>5, <1>6, <1>8, OrdinalsWithout
<1>13. \A i \in 1 .. n + 1 : Ordinal(steps, i) = IF i < k THEN i - 1 ELSE i - 2
  <2>1. n + 1 \in Nat /\ k \in 1 .. n + 1 /\ DOMAIN steps = 1 .. n + 1
    BY <1>5, <1>6
  <2>2. QED
    BY <1>9, <2>1, OrdinalsWithPickup
<1>14. Numbers(steps) = {<<Ordinal(steps, i), steps[i]>> : i \in (1 .. n + 1) \ {k}}
  <2>1. {j \in DOMAIN steps : steps[j].kind # "pickup"} = (1 .. n + 1) \ {k}
    BY <1>5, <1>6, <1>9
  <2>2. QED
    BY <2>1 DEF Numbers
<1>15. Numbers(base) = {<<Ordinal(base, i), base[i]>> : i \in 1 .. n}
  <2>1. {j \in DOMAIN base : base[j].kind # "pickup"} = 1 .. n
    BY <1>5, <1>6, <1>8
  <2>2. QED
    BY <2>1 DEF Numbers
<1>16. ASSUME NEW i \in (1 .. n + 1) \ {k}
       PROVE  \E j \in 1 .. n : <<Ordinal(steps, i), steps[i]>> = <<Ordinal(base, j), base[j]>>
  <2>1. CASE i < k
    <3>1. i \in 1 .. n /\ Ordinal(steps, i) = i - 1 /\ steps[i] = base[i]
      BY <1>1, <1>4, <1>6, <1>13, <2>1
    <3>2. QED
      BY <1>12, <3>1
  <2>2. CASE i > k
    <3>1. i - 1 \in 1 .. n /\ Ordinal(steps, i) = i - 2 /\ steps[i] = base[i - 1]
      BY <1>1, <1>4, <1>6, <1>13, <2>2
    <3>2. Ordinal(base, i - 1) = i - 2
      BY <1>12, <3>1
    <3>3. QED
      BY <3>1, <3>2
  <2>3. QED
    BY <1>1, <2>1, <2>2
<1>17. ASSUME NEW j \in 1 .. n
       PROVE  \E i \in (1 .. n + 1) \ {k} :
                <<Ordinal(steps, i), steps[i]>> = <<Ordinal(base, j), base[j]>>
  <2>1. CASE j < k
    <3>1. /\ j \in (1 .. n + 1) \ {k} /\ Ordinal(steps, j) = j - 1 /\ steps[j] = base[j]
          /\ Ordinal(base, j) = j - 1
      BY <1>1, <1>4, <1>6, <1>12, <1>13, <2>1
    <3>2. QED
      BY <3>1
  <2>2. CASE ~(j < k)
    <3>1. /\ j + 1 \in (1 .. n + 1) \ {k} /\ ~(j + 1 < k) /\ j + 1 # k
          /\ (j + 1) - 1 = j /\ (j + 1) - 2 = j - 1
      BY <1>1, <1>6, <2>2
    <3>2. Ordinal(steps, j + 1) = j - 1 /\ steps[j + 1] = base[j] /\ Ordinal(base, j) = j - 1
      BY <1>4, <1>6, <1>12, <1>13, <3>1
    <3>3. QED
      BY <3>1, <3>2
  <2>3. QED
    BY <2>1, <2>2
<1>18. Numbers(steps) = Numbers(base)
  BY <1>14, <1>15, <1>16, <1>17
<1>19. QED
  BY <1>3, <1>4, <1>11, <1>18

\* The state of the walkthrough: a plan of the backend's, a route and a pickup
\* there are, and an index at most one beyond the plan's own steps: the pickup's
\* step is one more.
WalkInv ==
  /\ response # Nobody => Plan(response)
  /\ Measured(coordinates)
  /\ pickup \in Pickups \cup {Undefined}
  /\ active \in Nat
  /\ IF response = Nobody \/ coordinates = <<>> THEN active = 0
     ELSE active <= StepCount(response)
  /\ turns \in Nat

\* So are the steps the page shows, with a pickup and without.
LEMMA StepsWalkable ==
  ASSUME WalkInv
  PROVE  /\ Walkable(Steps)
         /\ Numbers(Steps) = Numbers(StepsOf(response, coordinates, Undefined))
         /\ NoPickup(StepsOf(response, coordinates, Undefined))
         /\ Onward(Steps, TotalDistance(coordinates))
         /\ Steps # <<>> =>
              /\ response # Nobody /\ coordinates # <<>>
              /\ StepCount(response) \in Nat
              /\ Len(Steps) = StepCount(response) + IF pickup = Undefined THEN 0 ELSE 1
              /\ EndIsLast => InOrder(Steps)
<1>1. CASE response = Nobody \/ coordinates = <<>>
  <2>1. Steps = <<>> /\ StepsOf(response, coordinates, Undefined) = <<>>
    BY <1>1 DEF Steps, StepsOf
  <2>2. Walkable(<<>>) /\ NoPickup(<<>>) /\ \A far : Onward(<<>>, far)
    BY DEF Walkable, Onward, NoPickup
  <2>3. QED
    BY <2>1, <2>2
<1>2. CASE response # Nobody /\ coordinates # <<>>
  <2>1. PICK route : route = coordinates
    OBVIOUS
  <2>2. PICK r : r = response
    OBVIOUS
  <2>3. Plan(r) /\ Measured(route) /\ route # <<>>
    BY <1>2, <2>1, <2>2 DEF WalkInv
  <2>4. PICK base : base = BuildBaseSteps(r, route, InitialFuel)
    OBVIOUS
  <2>5. PICK total \in Nat : total = TotalDistance(route)
    BY <2>3, TotalNat
  <2>6. /\ Walkable(base) /\ NoPickup(base) /\ Onward(base, total)
        /\ r.itinerary # {} \/ Within(r.stops, route) => InOrder(base)
        /\ Len(base) = StepCount(r) /\ StepCount(r) \in Nat
    BY <2>3, <2>4, <2>5, BaseSteps
  <2>7. EndIsLast => InOrder(base)
    BY <2>1, <2>2, <2>6 DEF EndIsLast, Within
  <2>8. StepsOf(response, coordinates, Undefined) = base
    BY <1>2, <2>1, <2>2, <2>4 DEF StepsOf, BuildSteps, WithPickup
  <2>9. CASE pickup = Undefined
    <3>1. Steps = base
      BY <2>8, <2>9 DEF Steps
    <3>2. QED
      BY <1>2, <2>1, <2>2, <2>5, <2>6, <2>7, <2>8, <2>9, <3>1
  <2>10. CASE pickup # Undefined
    <3>1. PICK x \in Nat : x = pickup
      BY <2>10, WalkthroughAssumption DEF WalkInv
    <3>2. PICK offset \in 0 .. total : offset = OffsetOf(route, x)
      BY <2>3, <2>5, OffsetOnRoute
    <3>3. PICK steps : steps = WithPickup(base, offset)
      OBVIOUS
    <3>4. Steps = steps
      BY <1>2, <2>1, <2>2, <2>4, <2>10, <3>1, <3>2, <3>3 DEF Steps, StepsOf, BuildSteps
    <3>5. ASSUME NEW far \in Nat, total <= far
          PROVE  /\ Walkable(steps) /\ Len(steps) = Len(base) + 1
                 /\ Numbers(steps) = Numbers(base)
                 /\ Onward(base, far) => Onward(steps, far)
      <4>1. offset \in 0 .. far
        BY <3>2, <3>5
      <4>2. QED
        BY <2>6, <3>3, <4>1, WithPickupWalkable
    <3>6. /\ Walkable(steps) /\ Len(steps) = Len(base) + 1
          /\ Numbers(steps) = Numbers(base) /\ Onward(steps, total)
      BY <2>6, <3>5
    <3>7. InOrder(base) => InOrder(steps)
      BY <2>6, <3>5, <3>6, OnwardInOrder
    <3>8. QED
      BY <1>2, <2>1, <2>2, <2>5, <2>6, <2>7, <2>8, <2>10, <3>4, <3>6, <3>7
  <2>11. QED
    BY <2>9, <2>10
<1>3. QED
  BY <1>1, <1>2

\* Hence the order and the numbers the page promises.
LEMMA OrderKept ==
  ASSUME WalkInv
  PROVE  PickupKeepsOrder
<1>1. PICK base : base = StepsOf(response, coordinates, Undefined)
  OBVIOUS
<1>2. /\ Steps # <<>> /\ EndIsLast => InOrder(Steps)
      /\ Numbers(Steps) = Numbers(base) /\ NoPickup(base)
  BY <1>1, StepsWalkable
<1>3. Numbers(base) = {<<Ordinal(base, i), base[i]>> : i \in DOMAIN base}
  <2>1. {i \in DOMAIN base : base[i].kind # "pickup"} = DOMAIN base
    BY <1>2 DEF NoPickup
  <2>2. QED
    BY <2>1 DEF Numbers
<1>4. QED
  BY <1>1, <1>2, <1>3 DEF PickupKeepsOrder, Numbers, InOrder

-----------------------------------------------------------------------------
(* What a step can reach: the panel and the map. *)

\* What a step departs with and may use before its reserve, as distances.
Full(step) == Most(0, step.fuel) * PerGallon
Spare(step) == Most(0, step.fuel - Most(0, Reserve)) * PerGallon

\* Multiplication by a number keeps the order.
LEMMA Products ==
  ASSUME NEW a \in Nat, NEW b \in Nat, NEW c \in Nat, a <= b
  PROVE  a * c \in Nat /\ b * c \in Nat /\ a * c <= b * c
OBVIOUS

\* The distance kept free of the reserve is within that on all the fuel.
LEMMA SpareWithinFull ==
  ASSUME NEW step \in AnyStep
  PROVE  Full(step) \in Nat /\ Spare(step) \in Nat /\ Spare(step) <= Full(step)
<1>1. step.fuel \in Int /\ Reserve \in Nat /\ PerGallon \in Nat
  BY WalkthroughAssumption DEF AnyStep
<1>2. PICK a \in Nat, b \in Nat :
        a = Most(0, step.fuel - Most(0, Reserve)) /\ b = Most(0, step.fuel) /\ a <= b
  BY <1>1 DEF Most
<1>3. QED
  BY <1>1, <1>2, Products DEF Full, Spare

\* The span a step reaches, as distances.  If it reaches anything it is on the
\* route.
LEMMA SpanBounds ==
  ASSUME NEW step \in AnyStep, NEW total \in Nat
  PROVE  LET span == Span(step, PerGallon, total, Reserve)
         IN  /\ span.start = step.offset
             /\ span.end = Least(total, step.offset + Full(step))
             /\ span.reserveStart = Least(span.end, step.offset + Spare(step))
             /\ span.end > span.start =>
                  /\ span.start <= span.reserveStart /\ span.reserveStart <= span.end
                  /\ span.end <= total
             /\ span.start \in Nat /\ span.reserveStart \in Nat /\ span.end \in Nat
<1>1. step.offset \in Nat
  BY DEF AnyStep
<1>2. Full(step) \in Nat /\ Spare(step) \in Nat /\ Spare(step) <= Full(step)
  BY SpareWithinFull
<1>3. PICK span : span = Span(step, PerGallon, total, Reserve)
  OBVIOUS
<1>4. /\ span.start = step.offset
      /\ span.end = Least(total, step.offset + Full(step))
      /\ span.reserveStart = Least(span.end, step.offset + Spare(step))
  BY <1>3 DEF Span, Full, Spare
<1>5. QED
  BY <1>1, <1>2, <1>3, <1>4 DEF Least

\* The step the map is handed is one of the steps and the panel's, and the one
\* after it is the next, if it is on the route.
LEMMA MapStepIsActive ==
  ASSUME WalkInv, MapHasStep
  PROVE  /\ Steps # <<>> /\ ActiveStep = MapStep
         /\ MapStep \in AnyStep /\ Departs(MapStep)
         /\ active + 2 \in DOMAIN Steps /\ MapStep.offset <= TotalDistance(coordinates) =>
              /\ Steps[active + 2].offset \in Nat
              /\ MapStep.offset <= Steps[active + 2].offset
<1>1. PICK steps : steps = Steps
  OBVIOUS
<1>2. PICK total \in Nat : total = TotalDistance(coordinates)
  <2>1. PICK route : route = coordinates
    OBVIOUS
  <2>2. QED
    BY <2>1, TotalNat DEF WalkInv
<1>3. /\ steps \in Seq(AnyStep) /\ Onward(steps, total)
      /\ \A i \in DOMAIN steps : Departs(steps[i])
  BY <1>1, <1>2, StepsWalkable DEF Walkable
<1>4. PICK k \in Nat : k = active + 1
  BY DEF WalkInv
<1>5. /\ Len(steps) \in Nat \ {0} /\ DOMAIN steps = 1 .. Len(steps) /\ k \in DOMAIN steps
      /\ steps # <<>> /\ ShownIndex(steps, active) = k
  BY <1>1, <1>3, <1>4 DEF MapHasStep, ShownIndex, WalkInv
<1>6. ActiveStep = steps[k] /\ MapStep = steps[k]
  BY <1>1, <1>4, <1>5 DEF ActiveStep, MapStep
<1>7. \A i \in DOMAIN steps : steps[i] \in AnyStep
  BY <1>3
<1>8. ASSUME k + 1 \in DOMAIN steps, steps[k].offset <= total
      PROVE  steps[k + 1].offset \in Nat /\ steps[k].offset <= steps[k + 1].offset
  <2>1. steps[k].offset \in Nat /\ steps[k + 1].offset \in Nat
    BY <1>5, <1>7, <1>8 DEF AnyStep
  <2>2. steps[k].offset <= steps[k + 1].offset \/ total <= steps[k + 1].offset
    BY <1>3, <1>5, <1>8 DEF Onward
  <2>3. QED
    BY <1>2, <1>8, <2>1, <2>2
<1>9. active + 2 = k + 1
  BY <1>4 DEF WalkInv
<1>10. QED
  BY <1>1, <1>2, <1>3, <1>5, <1>6, <1>7, <1>8, <1>9

\* The panel and the map have the same step unless the plan has lost its pickup.
LEMMA LostPickup ==
  ASSUME WalkInv, Steps # <<>>, ~MapHasStep
  PROVE  pickup = Undefined /\ active = Len(Steps)
<1>1. PICK n \in Nat : n = StepCount(response)
  BY StepsWalkable
<1>2. /\ Len(Steps) = n + IF pickup = Undefined THEN 0 ELSE 1
      /\ active \in Nat /\ active <= n
  BY <1>1, StepsWalkable DEF WalkInv
<1>3. QED
  BY <1>1, <1>2 DEF MapHasStep

\* The figures of the panel are the distances of the span, and none is negative.
LEMMA PanelMatches ==
  ASSUME WalkInv
  PROVE  PanelMatchesMap
<1> SUFFICES
      ASSUME MapHasStep, TotalDistance(coordinates) - ActiveStep.offset >= 0
      PROVE  LET shown == Details(ActiveStep, active)
                 left == TotalDistance(coordinates) - ActiveStep.offset
                 reach(end) == IF MapHasSpan THEN end - MapSpan.start ELSE 0
             IN  /\ \A f \in DOMAIN shown : shown[f] >= 0
                 /\ "rangeOnFuel" \in DOMAIN shown =>
                      /\ reach(MapSpan.end) = Min({left, shown["rangeOnFuel"]})
                      /\ reach(MapSpan.reserveStart) = Min({left, shown["rangeWithoutReserve"]})
  BY LostPickup, MapStepIsActive DEF PanelMatchesMap
<1>1. PICK total \in Nat : total = TotalDistance(coordinates)
  <2>1. PICK route : route = coordinates
    OBVIOUS
  <2>2. QED
    BY <2>1, TotalNat DEF WalkInv
<1>2. PICK step \in AnyStep :
        /\ step = ActiveStep /\ step = MapStep /\ Departs(step) /\ step.offset <= total
        /\ active + 2 \in DOMAIN Steps =>
             Steps[active + 2].offset \in Nat /\ step.offset <= Steps[active + 2].offset
  <2>1. ActiveStep = MapStep /\ MapStep \in AnyStep /\ Departs(MapStep)
    BY MapStepIsActive
  <2>2. MapStep.offset \in Nat
    BY <2>1 DEF AnyStep
  <2>3. MapStep.offset <= total
    BY <1>1, <2>1, <2>2
  <2>4. active + 2 \in DOMAIN Steps =>
          Steps[active + 2].offset \in Nat /\ MapStep.offset <= Steps[active + 2].offset
    BY <1>1, <2>3, MapStepIsActive
  <2>5. QED
    BY <2>1, <2>3, <2>4
<1>3. step.offset \in 0 .. total /\ step.fuel \in Int
  BY <1>1, <1>2 DEF AnyStep
<1>4. Full(step) \in Nat /\ Spare(step) \in Nat /\ Spare(step) <= Full(step)
  BY SpareWithinFull
<1>5. PICK figures : figures = Figures(step, active)
  OBVIOUS
<1>6. DepartureFuel(step) # Undefined => step.kind \in {"start", "stop"} /\ step.fuel \in Nat
  BY <1>2 DEF DepartureFuel, Departs, Fuel
<1>7. ASSUME DepartureFuel(step) # Undefined
      PROVE  figures.rangeOnFuel = Full(step) /\ figures.rangeWithoutReserve = Spare(step)
  <2>1. step.fuel \in Nat
    BY <1>6, <1>7
  <2>2. /\ Most(0, step.fuel) = step.fuel
        /\ Max({0, step.fuel - Reserve}) = Most(0, step.fuel - Most(0, Reserve))
    <3>1. Reserve \in Nat
      BY WalkthroughAssumption
    <3>2. Max({0, step.fuel - Reserve}) = Most(0, step.fuel - Reserve)
      BY <2>1, <3>1, PairBounds
    <3>3. QED
      BY <2>1, <3>1, <3>2 DEF Most
  <2>3. QED
    BY <1>5, <1>7, <2>2 DEF Figures, Full, Spare
<1>8. DepartureFuel(step) = Undefined =>
        figures.rangeOnFuel = Undefined /\ figures.rangeWithoutReserve = Undefined
  BY <1>5 DEF Figures
<1>9. figures.toNext = Undefined \/ figures.toNext >= 0
  BY <1>2, <1>3, <1>5 DEF Figures
<1>10. figures.toDestination = Undefined \/ figures.toDestination >= 0
  BY <1>1, <1>3, <1>5 DEF Figures
<1>11. PICK shown : shown = Details(step, active)
  OBVIOUS
<1>12. /\ DOMAIN shown \subseteq {"rangeOnFuel", "rangeWithoutReserve", "toNext", "toDestination"}
       /\ \A f \in DOMAIN shown : shown[f] = figures[f] /\ figures[f] # Undefined
  BY <1>5, <1>11 DEF Details, StartBlock, CheckpointBlock, StopBlock, AnchorBlock
<1>13. ASSUME NEW f \in DOMAIN shown PROVE shown[f] >= 0
  <2>1. figures.rangeOnFuel = Undefined \/ figures.rangeOnFuel >= 0
    BY <1>4, <1>7, <1>8
  <2>2. figures.rangeWithoutReserve = Undefined \/ figures.rangeWithoutReserve >= 0
    BY <1>4, <1>7, <1>8
  <2>3. QED
    BY <1>9, <1>10, <1>12, <2>1, <2>2
<1>14. PICK span : span = Span(step, PerGallon, total, Reserve)
  OBVIOUS
<1>15. /\ span.start = step.offset
       /\ span.end = Least(total, step.offset + Full(step))
       /\ span.reserveStart = Least(span.end, step.offset + Spare(step))
  BY <1>14, SpanBounds
<1>16. PICK reached : reached \in BOOLEAN /\ reached = HasSpan(step, PerGallon, total, Reserve)
  BY DEF HasSpan
<1>17. ASSUME "rangeOnFuel" \in DOMAIN shown
       PROVE  /\ (IF reached THEN span.end - span.start ELSE 0)
                   = Min({total - step.offset, shown["rangeOnFuel"]})
              /\ (IF reached THEN span.reserveStart - span.start ELSE 0)
                   = Min({total - step.offset, shown["rangeWithoutReserve"]})
  <2>1. DepartureFuel(step) # Undefined
    BY <1>8, <1>12, <1>17
  <2>2. step.kind \in {"start", "stop"} /\ step.fuel \in Nat
    BY <1>6, <2>1
  <2>3. shown["rangeOnFuel"] = Full(step)
    BY <1>7, <1>12, <1>17, <2>1
  <2>4. shown["rangeWithoutReserve"] = Spare(step)
    <3>1. figures["rangeWithoutReserve"] # Undefined
      BY <1>4, <1>7, <2>1 DEF Undefined
    <3>2. "rangeWithoutReserve" \in DOMAIN shown
      BY <1>5, <1>11, <2>2, <3>1 DEF Details, StartBlock, StopBlock
    <3>3. QED
      BY <1>7, <1>12, <2>1, <3>2
  <2>5. /\ Min({total - step.offset, Full(step)}) = Least(total - step.offset, Full(step))
        /\ Min({total - step.offset, Spare(step)}) = Least(total - step.offset, Spare(step))
    <3>1. PICK left \in Int : left = total - step.offset
      BY <1>3
    <3>2. \A b \in Int : Min({left, b}) = Least(left, b)
      BY PairBounds
    <3>3. QED
      BY <1>4, <3>1, <3>2
  <2>6. span.end - span.start = Least(total - step.offset, Full(step))
    BY <1>3, <1>4, <1>15 DEF Least
  <2>7. span.reserveStart - span.start = Least(total - step.offset, Spare(step))
    BY <1>3, <1>4, <1>15 DEF Least
  <2>8. reached <=> PerGallon > 0 /\ span.end > step.offset
    BY <1>14, <1>16, <2>2 DEF HasSpan, Undefined
  <2>9. PerGallon \in Nat /\ (PerGallon = 0 => Full(step) = 0)
    BY <2>2, WalkthroughAssumption DEF Full, Most
  <2>10. ~reached => Least(total - step.offset, Full(step)) = 0
                      /\ Least(total - step.offset, Spare(step)) = 0
    BY <1>3, <1>4, <1>15, <2>8, <2>9 DEF Least
  <2>11. QED
    BY <1>16, <2>3, <2>4, <2>5, <2>6, <2>7, <2>10
<1>18. MapHasSpan = reached /\ MapSpan = span
  BY <1>1, <1>2, <1>14, <1>16 DEF MapHasSpan, MapSpan
<1>19. QED
  BY <1>1, <1>2, <1>11, <1>13, <1>17, <1>18

\* The line after one more segment.
NextLine(route, line, i, from, to) ==
  IF Touched(route, i, from, to) THEN Drawn(line, SegmentPart(route, i, from, to)) ELSE line

\* The lines drawn up to each segment.
LinesUpTo(route, lines, m, from, to) ==
  lines = [i \in 0 .. m |-> IF i = 0 THEN <<>> ELSE NextLine(route, lines[i - 1], i, from, to)]

\* There is such a sequence of lines for every number of segments: the
\* recursion of SliceRouteByDistance defines a function.
LEMMA LinesExist ==
  ASSUME NEW route, NEW m \in Nat, NEW from, NEW to
  PROVE  \E lines : LinesUpTo(route, lines, m, from, to)
<1> DEFINE bad == {k \in Nat : ~ \E lines : LinesUpTo(route, lines, k, from, to)}
<1>1. SUFFICES ASSUME bad # {} PROVE FALSE
  OBVIOUS
<1>2. PICK k \in bad : \A n \in bad : k <= n
  <2> HIDE DEF bad
  <2>1. QED
    BY <1>1, NatMin DEF bad
<1>3. CASE k = 0
  <2>1. LinesUpTo(route, [i \in 0 .. 0 |-> <<>>], 0, from, to)
    BY DEF LinesUpTo
  <2>2. QED
    BY <1>2, <1>3, <2>1
<1>4. CASE k # 0
  <2>1. k \in Nat /\ k - 1 \in Nat /\ k - 1 \notin bad
    BY <1>2, <1>4
  <2>2. PICK lines : LinesUpTo(route, lines, k - 1, from, to)
    BY <2>1
  <2> DEFINE longer == [i \in 0 .. k |-> IF i < k THEN lines[i]
                                         ELSE NextLine(route, lines[k - 1], k, from, to)]
  <2>3. ASSUME NEW i \in 0 .. k
        PROVE  longer[i] = IF i = 0 THEN <<>> ELSE NextLine(route, longer[i - 1], i, from, to)
    <3>1. CASE i < k
      <4>1. lines[i] = IF i = 0 THEN <<>> ELSE NextLine(route, lines[i - 1], i, from, to)
        <5>1. i \in 0 .. k - 1
          BY <2>1, <3>1
        <5>2. QED
          BY <2>2, <5>1 DEF LinesUpTo
      <4>2. longer[i] = lines[i] /\ (i # 0 => longer[i - 1] = lines[i - 1])
        BY <2>1, <3>1
      <4>3. QED
        BY <4>1, <4>2
    <3>2. CASE i = k
      BY <1>4, <2>1, <3>2
    <3>3. QED
      BY <2>1, <3>1, <3>2
  <2>4. LinesUpTo(route, longer, k, from, to)
    <3>1. PICK l : l = longer
      OBVIOUS
    <3>2. DOMAIN l = 0 .. k /\ l = [i \in 0 .. k |-> l[i]]
      BY <3>1
    <3>3. \A i \in 0 .. k : l[i] = IF i = 0 THEN <<>> ELSE NextLine(route, l[i - 1], i, from, to)
      BY <2>3, <3>1
    <3> HIDE DEF longer
    <3>4. l = [i \in 0 .. k |-> IF i = 0 THEN <<>> ELSE NextLine(route, l[i - 1], i, from, to)]
      BY <3>2, <3>3
    <3>5. QED
      BY <3>1, <3>4 DEF LinesUpTo
  <2>5. QED
    BY <1>2, <2>1, <2>4
<1>5. QED
  BY <1>2, <1>3, <1>4

\* What is drawn is the last of such lines.
LEMMA SliceIsLine ==
  ASSUME NEW route, Measured(route), Len(route) >= 2,
         NEW from \in Nat, NEW to \in Nat, from < to
  PROVE  \E lines :
           /\ LinesUpTo(route, lines, Len(route) - 1, from, to)
           /\ SliceRouteByDistance(route, from, to)
                = IF Len(lines[Len(route) - 1]) < 2 THEN <<>> ELSE lines[Len(route) - 1]
<1>1. PICK m \in Nat : m = Len(route) - 1
  BY DEF Measured
<1> DEFINE body(lines) ==
             [i \in 0 .. m |->
                CASE i = 0 -> <<>>
                  [] i > 0 /\ Touched(route, i, from, to) ->
                       Drawn(lines[i - 1], SegmentPart(route, i, from, to))
                  [] OTHER -> lines[i - 1]]
           upTo == CHOOSE lines : lines = body(lines)
<1>2. \E lines : LinesUpTo(route, lines, m, from, to)
  BY LinesExist
<1>3. ASSUME NEW lines PROVE LinesUpTo(route, lines, m, from, to) <=> lines = body(lines)
  <2>1. \A i \in 0 .. m :
          (IF i = 0 THEN <<>> ELSE NextLine(route, lines[i - 1], i, from, to))
          = (CASE i = 0 -> <<>>
               [] i > 0 /\ Touched(route, i, from, to) ->
                    Drawn(lines[i - 1], SegmentPart(route, i, from, to))
               [] OTHER -> lines[i - 1])
    BY DEF NextLine
  <2>2. QED
    BY <2>1 DEF LinesUpTo
<1>4. \E lines : lines = body(lines)
  BY <1>2, <1>3
<1>5. LinesUpTo(route, upTo, m, from, to)
  <2>1. upTo = body(upTo)
    BY <1>4
  <2>2. QED
    BY <1>3, <2>1
<1>6. SliceRouteByDistance(route, from, to) = IF Len(upTo[m]) < 2 THEN <<>> ELSE upTo[m]
  <2>1. Len(route) \in Nat
    BY DEF Measured
  <2>2. QED
    BY <1>1, <2>1 DEF SliceRouteByDistance
<1>7. QED
  BY <1>1, <1>5, <1>6

\* A line from one distance to another.
LineFromTo(line, from, to) ==
  /\ line \in Seq(Nat) /\ line # <<>>
  /\ Head(line) = from
  /\ Last(line) = to

\* A segment more lengthens a line and leaves its start.
LEMMA DrawnOnwards ==
  ASSUME NEW line, NEW from \in Nat, NEW here, NEW part, part.to \in Nat,
         LineFromTo(line, from, here)
  PROVE  LineFromTo(Drawn(line, part), from, part.to)
<1>1. PICK next \in Nat : next = part.to
  OBVIOUS
<1>2. line \in Seq(Nat) /\ line # <<>> /\ Head(line) = from
  BY DEF LineFromTo
<1>3. Len(line) \in Nat \ {0} /\ Head(line) = line[1]
  BY <1>2
<1>4. /\ Append(line, next) \in Seq(Nat) /\ Len(Append(line, next)) = Len(line) + 1
      /\ Append(line, next)[Len(line) + 1] = next
      /\ Append(line, next)[1] = line[1]
  BY <1>2, <1>3
<1>5. LineFromTo(Append(line, next), from, next)
  <2>1. PICK longer : longer = Append(line, next)
    OBVIOUS
  <2>2. /\ longer \in Seq(Nat) /\ Len(longer) = Len(line) + 1
        /\ longer[Len(line) + 1] = next /\ longer[1] = line[1]
    BY <1>4, <2>1
  <2>3. longer # <<>> /\ Head(longer) = longer[1]
    BY <1>3, <2>2
  <2>4. QED
    BY <1>2, <1>3, <2>1, <2>2, <2>3 DEF LineFromTo, Last
<1>6. Drawn(line, part) = IF Last(line) = next THEN line ELSE Append(line, next)
  BY <1>1, <1>2 DEF Drawn
<1>7. QED
  BY <1>1, <1>2, <1>5, <1>6 DEF LineFromTo

\* The first segment touched gives a line its start and its end.
LEMMA DrawnFirst ==
  ASSUME NEW part, part.from \in Nat, part.to \in Nat
  PROVE  LineFromTo(Drawn(<<>>, part), part.from, part.to)
<1>1. PICK from \in Nat, next \in Nat : from = part.from /\ next = part.to
  OBVIOUS
<1>2. LineFromTo(<<from>>, from, from) /\ <<from>> # <<>>
  BY DEF LineFromTo, Last
<1>3. Drawn(<<>>, part) = Drawn(<<from>>, part)
  BY <1>1, <1>2 DEF Drawn
<1>4. QED
  BY <1>1, <1>2, <1>3, DrawnOnwards

\* Up to a segment that ends before the part there is no line; after it the
\* line runs from the part's start to the segment's end, or the part's.
Reaches(route, lines, i, from, to) ==
  IF i = 0 \/ route[i + 1] < from THEN lines[i] = <<>>
  ELSE LineFromTo(lines[i], from, Least(route[i + 1], to))

\* One segment more keeps to that, touched or not.
LEMMA NextReaches ==
  ASSUME NEW route, Measured(route), NEW from \in Nat, NEW to \in Nat, from < to,
         NEW i \in 1 .. Len(route) - 1,
         NEW lines, LinesUpTo(route, lines, Len(route) - 1, from, to),
         Reaches(route, lines, i - 1, from, to)
  PROVE  Reaches(route, lines, i, from, to)
<1>1. Len(route) \in Nat /\ DOMAIN route = 1 .. Len(route)
  BY DEF Measured
<1>2. i \in DOMAIN route /\ i + 1 \in DOMAIN route /\ i <= i + 1 /\ (i - 1) + 1 = i
  BY <1>1
<1>3. /\ route[i] \in Nat /\ route[i + 1] \in Nat /\ route[i] <= route[i + 1]
      /\ i = 1 => route[i] = 0
  <2>1. route # <<>>
    BY <1>1
  <2>2. route[1] = 0 /\ \A j \in DOMAIN route : route[j] \in Nat
    BY <2>1 DEF Measured
  <2>3. \A j, k \in DOMAIN route : j <= k => route[j] <= route[k]
    BY DEF Measured
  <2>4. QED
    BY <1>2, <2>2, <2>3
<1>4. PICK a \in Nat, b \in Nat :
        a = route[i] /\ b = route[i + 1] /\ a <= b /\ (i = 1 => a = 0)
  BY <1>3
<1>5. PICK line, next : line = lines[i - 1] /\ next = lines[i]
  OBVIOUS
<1>6. next = NextLine(route, line, i, from, to)
  BY <1>1, <1>5 DEF LinesUpTo
<1>7. PICK part : part = SegmentPart(route, i, from, to)
  OBVIOUS
<1>8. part.from = Most(a, Least(b, from)) /\ part.to = Most(a, Least(b, to))
  BY <1>4, <1>7 DEF SegmentPart
<1>9. next = IF b >= from /\ a <= to THEN Drawn(line, part) ELSE line
  BY <1>4, <1>6, <1>7 DEF NextLine, Touched
<1>10. IF i = 1 \/ a < from THEN line = <<>> ELSE LineFromTo(line, from, Least(a, to))
  BY <1>2, <1>4, <1>5 DEF Reaches
<1>11. CASE b < from
  <2>1. next = <<>>
    BY <1>4, <1>9, <1>10, <1>11
  <2>2. QED
    BY <1>4, <1>5, <1>11, <2>1 DEF Reaches
<1>12. CASE ~(b < from) /\ (i = 1 \/ a < from)
  <2>1. next = Drawn(<<>>, part) /\ part.from = from /\ part.to = Least(b, to)
    BY <1>4, <1>8, <1>9, <1>10, <1>12 DEF Most, Least
  <2>2. LineFromTo(next, from, Least(b, to))
    BY <2>1, DrawnFirst DEF Least
  <2>3. QED
    BY <1>4, <1>5, <1>12, <2>2 DEF Reaches
<1>13. CASE ~(b < from) /\ ~(i = 1 \/ a < from) /\ a <= to
  <2>1. next = Drawn(line, part) /\ part.to = Least(b, to) /\ part.to \in Nat
    BY <1>4, <1>8, <1>9, <1>13 DEF Most, Least
  <2>2. LineFromTo(next, from, Least(b, to))
    BY <1>10, <1>13, <2>1, DrawnOnwards
  <2>3. QED
    BY <1>4, <1>5, <1>13, <2>2 DEF Reaches
<1>14. CASE ~(b < from) /\ ~(i = 1 \/ a < from) /\ ~(a <= to)
  <2>1. next = line /\ Least(a, to) = to /\ Least(b, to) = to
    BY <1>4, <1>9, <1>14 DEF Least
  <2>2. LineFromTo(next, from, Least(b, to))
    BY <1>10, <1>14, <2>1
  <2>3. QED
    BY <1>4, <1>5, <1>14, <2>2 DEF Reaches
<1>15. QED
  BY <1>11, <1>12, <1>13, <1>14

\* The part of the route from one distance to another is drawn exactly.
LEMMA SliceCovers ==
  ASSUME NEW route, Measured(route), Len(route) >= 2,
         NEW from \in Nat, NEW to \in Nat, from <= to, to <= TotalDistance(route)
  PROVE  Covers(SliceRouteByDistance(route, from, to), from, to)
<1>1. PICK m \in Nat \ {0} : m = Len(route) - 1
  <2>1. Len(route) \in Nat
    BY DEF Measured
  <2>2. QED
    BY <2>1
<1>2. CASE from = to
  BY <1>2 DEF Covers, SliceRouteByDistance
<1>3. CASE from < to
  <2>1. PICK lines :
          /\ LinesUpTo(route, lines, m, from, to)
          /\ SliceRouteByDistance(route, from, to)
               = IF Len(lines[m]) < 2 THEN <<>> ELSE lines[m]
    BY <1>1, <1>3, SliceIsLine
  <2> DEFINE bad == {i \in 0 .. m : ~Reaches(route, lines, i, from, to)}
  <2>2. bad = {}
    <3>1. SUFFICES ASSUME bad # {} PROVE FALSE
      OBVIOUS
    <3>2. PICK i \in bad : \A j \in bad : i <= j
      <4>1. bad \subseteq Nat
        OBVIOUS
      <4> HIDE DEF bad
      <4>2. QED
        BY <3>1, <4>1, NatMin
    <3>3. CASE i = 0
      <4>1. lines[0] = <<>>
        BY <2>1 DEF LinesUpTo
      <4>2. QED
        BY <3>2, <3>3, <4>1 DEF Reaches
    <3>4. CASE i # 0
      <4>1. i \in 1 .. m /\ i - 1 \in 0 .. m /\ i - 1 \notin bad
        BY <3>2, <3>4
      <4>2. Reaches(route, lines, i - 1, from, to)
        BY <4>1
      <4>3. Reaches(route, lines, i, from, to)
        BY <1>1, <1>3, <2>1, <4>1, <4>2, NextReaches
      <4>4. QED
        BY <3>2, <4>3
    <3>5. QED
      BY <3>3, <3>4
  <2>3. Reaches(route, lines, m, from, to)
    BY <2>2
  <2>4. route[m + 1] = TotalDistance(route) /\ TotalDistance(route) \in Nat
    <3>1. m + 1 = Len(route)
      BY <1>1 DEF Measured
    <3>2. QED
      BY <3>1, TotalNat DEF TotalDistance, Last
  <2>5. LineFromTo(lines[m], from, to)
    BY <1>3, <2>3, <2>4 DEF Reaches, Least
  <2>6. Len(lines[m]) >= 2
    <3>1. PICK line : line = lines[m]
      OBVIOUS
    <3>2. line \in Seq(Nat) /\ line # <<>> /\ line[1] = from /\ line[Len(line)] = to
      BY <2>5, <3>1 DEF LineFromTo, Last
    <3>3. Len(line) # 1
      BY <1>3, <3>2
    <3>4. Len(line) \in Nat /\ Len(line) # 0
      BY <3>2
    <3>5. \A n \in Nat : n # 0 /\ n # 1 => n >= 2
      OBVIOUS
    <3>6. Len(line) >= 2
      BY <3>3, <3>4, <3>5, Zenon
    <3>7. QED
      BY <3>1, <3>6
  <2>7. SliceRouteByDistance(route, from, to) = lines[m]
    <3>1. Len(lines[m]) \in Nat
      BY <2>5 DEF LineFromTo
    <3>2. QED
      BY <2>1, <2>6, <3>1
  <2>8. QED
    BY <1>3, <2>5, <2>7 DEF Covers, LineFromTo
<1>4. QED
  BY <1>2, <1>3

\* Both parts of the span a step reaches are such parts of the route.
LEMMA SpanDrawn == WalkInv => SpanIsDrawn
<1> SUFFICES ASSUME WalkInv, MapHasSpan PROVE SpanIsDrawn
  BY DEF SpanIsDrawn
<1>1. PICK route : route = coordinates
  OBVIOUS
<1>2. Measured(route)
  BY <1>1 DEF WalkInv
<1>3. PICK step \in AnyStep : step = MapStep
  BY MapStepIsActive DEF MapHasSpan
<1>4. PICK total \in Nat : total = TotalDistance(route)
  BY <1>2, TotalNat
<1>5. PICK span : span = Span(step, PerGallon, total, Reserve)
  OBVIOUS
<1>6. MapSpan = span
  BY <1>1, <1>3, <1>4, <1>5 DEF MapSpan
<1>7. span.start = step.offset /\ span.end > step.offset
  BY <1>1, <1>3, <1>4, <1>5, SpanBounds DEF HasSpan, MapHasSpan
<1>8. /\ span.start <= span.reserveStart /\ span.reserveStart <= span.end /\ span.end <= total
      /\ span.start \in Nat /\ span.reserveStart \in Nat /\ span.end \in Nat
  BY <1>5, <1>7, SpanBounds
<1>9. Len(route) >= 2
  <2>1. total # 0
    BY <1>7, <1>8
  <2>2. Len(route) \in Nat
    BY <1>2 DEF Measured
  <2>3. QED
    BY <1>4, <2>1, <2>2 DEF TotalDistance
<1>10. PICK a \in Nat, b \in Nat, c \in Nat :
         a = span.start /\ b = span.reserveStart /\ c = span.end /\ a <= b /\ b <= c /\ c <= total
  BY <1>8
<1>11. /\ Covers(SliceRouteByDistance(route, a, b), a, b)
       /\ Covers(SliceRouteByDistance(route, b, c), b, c)
  <2>1. b <= TotalDistance(route) /\ c <= TotalDistance(route)
    BY <1>4, <1>10
  <2>2. QED
    BY <1>2, <1>9, <1>10, <2>1, SliceCovers
<1>12. QED
  BY <1>1, <1>6, <1>10, <1>11 DEF SpanIsDrawn

-----------------------------------------------------------------------------
(* The walkthrough keeps to plans of the backend's. *)

\* A plan of the backend's has a number of steps.
LEMMA PlanCounted ==
  ASSUME NEW r, Plan(r)
  PROVE  StepCount(r) \in Nat
<1>1. IsFiniteSet(r.itinerary) /\ IsFiniteSet(r.stops)
  BY DEF Plan, AlongRoute
<1>2. IsFiniteSet({p \in r.itinerary : Shown(p)})
  BY <1>1, FS_Subset
<1>3. QED
  BY <1>1, <1>2, FS_CardinalityType DEF StepCount

\* A step of the walkthrough leaves a plan of the backend's, and a step counted
\* from the first and no farther than the plan's.
LEMMA WalkInvStep ==
  ASSUME WalkInv, WalkNext
  PROVE  WalkInv'
<1>1. ASSUME NEW route \in Polylines, RouteDrawn(route) PROVE WalkInv'
  <2>1. Measured(route) /\ route # <<>>
    BY WalkthroughAssumption
  <2>2. /\ coordinates' = route /\ response' = response /\ pickup' = pickup
        /\ active' = active /\ turns' = turns + 1
    BY <1>1 DEF RouteDrawn, Show, Turn
  <2>3. response # Nobody => StepCount(response) \in Nat
    BY PlanCounted DEF WalkInv
  <2>4. IF response = Nobody THEN active = 0 ELSE active <= StepCount(response)
    BY <2>3 DEF WalkInv
  <2>5. QED
    BY <2>1, <2>2, <2>4 DEF WalkInv
<1>2. ASSUME NEW r \in Responses, PlanShown(r) PROVE WalkInv'
  <2>1. Plan(r) /\ turns + 1 \in Nat
    BY <1>2, WalkthroughAssumption DEF WalkInv
  <2>2. PICK new : new = [r EXCEPT !.run = turns + 1]
    OBVIOUS
  <2>3. Plan(new)
    BY <2>1, <2>2 DEF Plan
  <2>4. StepCount(new) \in Nat
    BY <2>3, PlanCounted
  <2>5. /\ response' = new /\ coordinates' = coordinates /\ pickup' = pickup
        /\ active' = 0 /\ turns' = turns + 1
    BY <1>2, <2>2 DEF PlanShown, Show, Turn
  <2>6. QED
    BY <2>1, <2>3, <2>4, <2>5 DEF WalkInv
<1>3. CASE LayersReset
  <2>1. Measured(<<>>)
    BY DEF Measured
  <2>2. QED
    BY <1>3, <2>1 DEF LayersReset, Show, Turn, WalkInv
<1>4. ASSUME NEW p \in Pickups \cup {Undefined}, ChangePickup(p) PROVE WalkInv'
  BY <1>4 DEF ChangePickup, Show, Turn, WalkInv
<1>5. ASSUME NEW index \in Int, HandleStepChange(index) PROVE WalkInv'
  <2>1. Steps # <<>>
    BY <1>5 DEF HandleStepChange
  <2>2. PICK n \in Nat : n = StepCount(response)
    BY <2>1, StepsWalkable
  <2>3. /\ response # Nobody /\ coordinates # <<>>
        /\ Len(Steps) = n + IF pickup = Undefined THEN 0 ELSE 1
    BY <2>1, <2>2, StepsWalkable
  <2>4. PICK last \in Int : last = Len(Steps) - 1 /\ last <= n
    BY <2>3
  <2>5. PICK low \in Int : low = Min({index, last}) /\ low <= n
    <3>1. Min({index, last}) = Least(index, last)
      BY PairBounds
    <3>2. QED
      BY <2>4, <3>1 DEF Least
  <2>6. Max({0, low}) \in 0 .. n
    <3>1. 0 \in Int
      OBVIOUS
    <3>2. Max({0, low}) = Most(0, low)
      BY <3>1, PairBounds
    <3>3. QED
      BY <2>5, <3>2 DEF Most
  <2>7. /\ response' = response /\ coordinates' = coordinates /\ pickup' = pickup
        /\ turns' = turns + 1 /\ active' = Max({0, low})
    BY <1>5, <2>4, <2>5 DEF HandleStepChange, Show, Turn
  <2>8. PICK new \in 0 .. n : new = active'
    BY <2>6, <2>7
  <2>9. QED
    BY <2>2, <2>3, <2>7, <2>8 DEF WalkInv
<1>6. CASE Back \/ Next1 \/ Jump
  <2>1. DOMAIN Steps \subseteq Int
    BY StepsWalkable DEF Walkable
  <2>2. \E index \in Int : HandleStepChange(index)
    BY <1>6, <2>1 DEF Back, Next1, Jump, WalkInv
  <2>3. QED
    BY <1>5, <2>2
<1>7. ASSUME NEW target, Explain(target) PROVE WalkInv'
  BY <1>7 DEF Explain, Show, Turn, WalkInv
<1>8. CASE CloseExplain
  BY <1>8 DEF CloseExplain, Show, Turn, WalkInv
<1>9. CASE UNCHANGED <<coordinates, response, pickup, active, explain, turns>>
  BY <1>9 DEF WalkInv
<1>10. QED
  BY <1>1, <1>2, <1>3, <1>4, <1>6, <1>7, <1>8, <1>9 DEF WalkNext

\* The state of the walkthrough is always such.
LEMMA WalkInvariant == WalkSpec => []WalkInv
<1>1. WalkInit => WalkInv
  BY DEF WalkInit, WalkInv, Measured
<1>2. WalkInv /\ [WalkNext]_walkVars => WalkInv'
  <2>1. WalkInv /\ UNCHANGED walkVars => WalkInv'
    BY DEF walkVars, WalkInv
  <2>2. QED
    BY <2>1, WalkInvStep
<1>3. QED
  BY <1>1, <1>2, PTL DEF WalkSpec

\* Wherever the pickup is put, on whatever route, the stops keep their numbers
\* and the steps are in the order of the route; without an itinerary, while no
\* stop lies beyond the end of the route.
THEOREM PickupAlwaysKeepsOrder == WalkSpec => []PickupKeepsOrder
<1>1. WalkInv => PickupKeepsOrder
  BY OrderKept
<1>2. QED
  BY <1>1, WalkInvariant, PTL

\* The panel and the map have the same step unless the pickup was taken off the
\* plan at its last step.  With the same step, and that on the route shown, the
\* ranges the panel names are the lines the map draws, and no distance it names
\* runs backwards.
THEOREM PanelAlwaysMatchesMap == WalkSpec => []PanelMatchesMap
<1>1. WalkInv => PanelMatchesMap
  BY PanelMatches
<1>2. QED
  BY <1>1, WalkInvariant, PTL

\* What the step shown can reach is drawn exactly, on every route.
THEOREM SpanAlwaysDrawn == WalkSpec => []SpanIsDrawn
BY WalkInvariant, SpanDrawn, PTL
=============================================================================
