------------------------------ MODULE RouteForm ------------------------------
(* The address fields of the map page (frontend/src/routes/_layout/map.tsx)   *)
(* and the points they put on the map (useResolvedPoint).  A field is typed   *)
(* in, filled from a suggestion, from a vehicle's last position or from a     *)
(* stop of a shipment; each of these sources answers late, and two timers run *)
(* behind every field: one searches a suggestion, one geocodes the marker.    *)
(*                                                                            *)
(* A text stands for its trimmed form, and for the place it geocodes to.      *)
EXTENDS Integers

CONSTANTS
  Texts,      \* what a field may hold
  Short,      \* those of fewer than three letters
  Formatted,  \* the formatted address of the place a text is found at
  Trucks,     \* the vehicles, each with a recorded position or not
  Positioned,
  Origin,     \* a start written as coordinates
  Label,      \* what a vehicle's position is called, the same for all or not
  Shipments,
  Stop,       \* Stop[s][f]: the stop of shipment s that fills field f
  MaxInputs,  \* bound: inputs of the user, the link among them
  NoOne

Fields == {"start", "pickup", "delivery"}

VARIABLES
  linked,     \* the values of the page's link are still to be filled in
  field,      \* the fields, each with its effects
  selectedVehicle, \* selectedVehicleId
  shipment,   \* selectedShipmentId
  positions,  \* vehicles whose position is being fetched
  stops,      \* shipments being fetched
  inputs      \* inputs made so far

fieldVars == <<linked, field, selectedVehicle, shipment, positions, stops, inputs>>

\* An AddressSelection: the address shown for it and its place, a text or a
\* vehicle whose position it is.
Selection(address, place) == [address |-> address, place |-> place]

Empty == [text |-> "", selection |-> NoOne, edited |-> FALSE,
          suggestion |-> NoOne, searching |-> FALSE, search |-> NoOne,
          geocoded |-> NoOne, resolve |-> NoOne]

IsShort(text) == text = "" \/ text \in Short

\* The location of a selection the text still matches.
SelectedLocation(f) ==
  IF f.selection # NoOne /\ f.selection.address = f.text
  THEN f.selection.place ELSE NoOne

SearchEffectWithoutCleanup(f) ==
  IF \/ ~f.edited
     \/ IsShort(f.text)
     \/ f.selection # NoOne /\ f.text = f.selection.address
  THEN [f EXCEPT !.suggestion = NoOne, !.searching = FALSE]
  ELSE [f EXCEPT !.searching = TRUE, !.search = [at |-> "timer", query |-> f.text]]

SearchEffectStillSearching(f) ==
  IF \/ ~f.edited
     \/ IsShort(f.text)
     \/ f.selection # NoOne /\ f.text = f.selection.address
  THEN [f EXCEPT !.suggestion = NoOne, !.search = NoOne]
  ELSE [f EXCEPT !.searching = TRUE, !.search = [at |-> "timer", query |-> f.text]]

\* The suggestion effect: a text worth searching starts a timer, any other
\* takes the suggestion away.  Its cleanup forgets the search before.
SearchEffect(f) ==
  IF \/ ~f.edited
     \/ IsShort(f.text)
     \/ f.selection # NoOne /\ f.text = f.selection.address
  THEN [f EXCEPT !.suggestion = NoOne, !.searching = FALSE, !.search = NoOne]
  ELSE [f EXCEPT !.searching = TRUE, !.search = [at |-> "timer", query |-> f.text]]

ResolveEffectOneAtATime(f) ==
  [f EXCEPT !.resolve =
     IF SelectedLocation(f) # NoOne \/ IsShort(f.text) THEN NoOne
     ELSE IF @ # NoOne THEN @
     ELSE [at |-> "timer", query |-> f.text]]

\* The geocoding effect of useResolvedPoint.
ResolveEffect(f) ==
  [f EXCEPT !.resolve =
     IF SelectedLocation(f) # NoOne \/ IsShort(f.text) THEN NoOne
     ELSE [at |-> "timer", query |-> f.text]]

\* The field after a render: the effects whose dependencies changed run.
Rendered(old, new) ==
  LET searched == IF <<old.text, old.selection, old.edited>>
                       # <<new.text, new.selection, new.edited>>
                  THEN SearchEffect(new) ELSE new
  IN  IF <<old.text, SelectedLocation(old)>> # <<new.text, SelectedLocation(new)>>
      THEN ResolveEffect(searched) ELSE searched

Update(f, new) == [field EXCEPT ![f] = Rendered(@, new)]

\* The point RoutePointsLayer draws for a field.
Marker(f) ==
  IF SelectedLocation(f) # NoOne THEN SelectedLocation(f)
  ELSE IF IsShort(f.text) THEN NoOne ELSE f.geocoded

\* The page starts with two addresses filled in; both are geocoded at once.
FieldsInit ==
  /\ linked \in BOOLEAN
  /\ \E t \in Texts \ Short :
       field = [f \in Fields |->
                  IF f = "pickup" THEN Empty
                  ELSE ResolveEffect([Empty EXCEPT !.text = t])]
  /\ selectedVehicle = NoOne
  /\ shipment = NoOne
  /\ positions = {}
  /\ stops = {}
  /\ inputs = 0

Input == inputs < MaxInputs /\ inputs' = inputs + 1

\* Typing drops a selection the text no longer is the address of.
Type(f, t) ==
  /\ Input
  /\ t # field[f].text
  /\ field' = Update(f, [field[f] EXCEPT
                !.text = t, !.edited = TRUE,
                !.selection = IF @ # NoOne /\ t = @.address THEN @ ELSE NoOne])
  /\ UNCHANGED <<linked, selectedVehicle, shipment, positions, stops>>

\* The page was opened by the link of an infeasible plan, with the vehicle and
\* the shipment it was planned with; one without a position comes with the
\* start that was typed for it.
RestoreSearch(v, s) ==
  /\ Input
  /\ linked
  /\ linked' = FALSE
  /\ selectedVehicle' = v
  /\ positions' = positions \cup {v}
  /\ shipment' = s
  /\ stops' = stops \cup {s}
  /\ field' = IF v \in Positioned THEN field
              ELSE Update("start", [field["start"] EXCEPT
                     !.text = Origin, !.selection = Selection(Origin, Origin),
                     !.edited = TRUE, !.suggestion = NoOne])

\* A suggestion is offered unless it is what is selected already.
ApplySuggestion(f) ==
  /\ Input
  /\ field[f].suggestion # NoOne
  /\ LET address == Formatted[field[f].suggestion]
     IN  /\ ~(field[f].selection # NoOne /\ field[f].selection.address = address)
         /\ field' = Update(f, [field[f] EXCEPT
                       !.selection = Selection(address, address),
                       !.text = address, !.suggestion = NoOne])
  /\ UNCHANGED <<linked, selectedVehicle, shipment, positions, stops>>

SelectVehicle(v) ==
  /\ Input
  /\ selectedVehicle' = v
  /\ positions' = positions \cup {v}
  /\ UNCHANGED <<linked, field, shipment, stops>>

\* The position of the vehicle becomes the start; without one nothing changes.
PositionArrives(v) ==
  /\ v \in positions
  /\ positions' = positions \ {v}
  /\ field' = IF v \notin Positioned THEN field
              ELSE Update("start", [field["start"] EXCEPT
                     !.text = Label[v], !.selection = Selection(Label[v], v),
                     !.edited = TRUE, !.suggestion = NoOne])
  /\ UNCHANGED <<linked, selectedVehicle, shipment, stops, inputs>>

PositionFails(v) ==
  /\ v \in positions
  /\ positions' = positions \ {v}
  /\ UNCHANGED <<linked, field, selectedVehicle, shipment, stops, inputs>>

HandleSelectShipment(s) ==
  /\ Input
  /\ shipment' = s
  /\ stops' = stops \cup {s}
  /\ UNCHANGED <<linked, field, selectedVehicle, positions>>

\* A stop fills its field, with its location when it has been geocoded.
FilledBy(f, stop) ==
  IF stop = NoOne THEN field[f]
  ELSE Rendered(field[f], [field[f] EXCEPT
         !.text = stop.text, !.edited = TRUE, !.suggestion = NoOne,
         !.selection = IF stop.located THEN Selection(stop.text, stop.text)
                       ELSE NoOne])

\* The pickup and the dropoff of the shipment fill two fields at once; a stop
\* the shipment lacks leaves its field as it is.
ShipmentArrives(s) ==
  /\ s \in stops
  /\ stops' = stops \ {s}
  /\ field' = [f \in Fields |->
                 IF f = "start" THEN field[f] ELSE FilledBy(f, Stop[s][f])]
  /\ UNCHANGED <<linked, selectedVehicle, shipment, positions, inputs>>

\* The 300 ms timer asks for the text it was started with.
SearchTimer(f) ==
  /\ field[f].search # NoOne /\ field[f].search.at = "timer"
  /\ field' = [field EXCEPT ![f].search.at = "request"]
  /\ UNCHANGED <<linked, selectedVehicle, shipment, positions, stops, inputs>>

\* An answer, or an error, to a request no later render has cancelled.
SearchAnswers(f, found) ==
  /\ field[f].search # NoOne /\ field[f].search.at = "request"
  /\ field' = [field EXCEPT ![f] =
       [@ EXCEPT !.suggestion = IF found THEN field[f].search.query ELSE NoOne,
                 !.searching = FALSE, !.search = NoOne]]
  /\ UNCHANGED <<linked, selectedVehicle, shipment, positions, stops, inputs>>

\* The 400 ms timer of the marker.
ResolveTimer(f) ==
  /\ field[f].resolve # NoOne /\ field[f].resolve.at = "timer"
  /\ field' = [field EXCEPT ![f].resolve.at = "request"]
  /\ UNCHANGED <<linked, selectedVehicle, shipment, positions, stops, inputs>>

ResolveAnswers(f, found) ==
  /\ field[f].resolve # NoOne /\ field[f].resolve.at = "request"
  /\ field' = [field EXCEPT ![f] =
       [@ EXCEPT !.geocoded = IF found THEN field[f].resolve.query ELSE NoOne,
                 !.resolve = NoOne]]
  /\ UNCHANGED <<linked, selectedVehicle, shipment, positions, stops, inputs>>

FieldsNext ==
  \/ \E f \in Fields, t \in Texts : Type(f, t)
  \/ \E f \in Fields : ApplySuggestion(f)
  \/ \E v \in Trucks, s \in Shipments : RestoreSearch(v, s)
  \/ \E v \in Trucks : SelectVehicle(v)
  \/ \E v \in Trucks : PositionArrives(v) \/ PositionFails(v)
  \/ \E s \in Shipments : HandleSelectShipment(s)
  \/ \E s \in Shipments : ShipmentArrives(s)
  \/ \E f \in Fields : SearchTimer(f) \/ ResolveTimer(f)
  \/ \E f \in Fields, found \in BOOLEAN : SearchAnswers(f, found)
  \/ \E f \in Fields, found \in BOOLEAN : ResolveAnswers(f, found)

\* Timers fire and requests end, in an answer or an error.
FieldFairness(f) ==
  /\ WF_fieldVars(SearchTimer(f))
  /\ WF_fieldVars(\E found \in BOOLEAN : SearchAnswers(f, found))
FieldsFairness == \A f \in Fields : FieldFairness(f)

FieldsSpec == FieldsInit /\ [][FieldsNext]_fieldVars
FairFieldsSpec == FieldsSpec /\ FieldsFairness

-----------------------------------------------------------------------------
(* Properties. *)

\* A suggestion on offer while nothing is searched was found for the text the
\* field holds: no order of typing, timers and late answers of other sources
\* leaves the suggestion of an earlier text to be applied.
SuggestionFits ==
  \A f \in Fields :
    field[f].suggestion # NoOne /\ ~field[f].searching =>
      field[f].suggestion = field[f].text

\* Once geocoding is quiet, the map's marker of a field is where its text is.
MarkerFits ==
  \A f \in Fields :
    field[f].resolve = NoOne /\ Marker(field[f]) # NoOne =>
      \/ Marker(field[f]) = field[f].text
      \/ Marker(field[f]) \in Trucks /\ field[f].text = Label[Marker(field[f])]

\* A field that shows "Searching" stops showing it.
SearchEnds == \A f \in Fields : field[f].searching ~> ~field[f].searching

\* "The vehicle's last known position becomes the optimizer start": with no
\* position on its way, the start is not the position of a vehicle the user
\* has replaced by another that has one.
StartFollowsVehicle ==
  positions = {} /\ selectedVehicle \in Positioned =>
    \A v \in Trucks \ {selectedVehicle} : SelectedLocation(field["start"]) # v
=============================================================================
