------------------------------ MODULE MCMapPage ------------------------------
(* Instances of the three parts of the map page.  They share no state that    *)
(* the models keep, so each has behaviours of its own, chosen at the start:   *)
(*   "page"  MapPage with a vehicle whose tank is too small for the five      *)
(*           gallons a reserve starts from;                                   *)
(*   "form"  RouteForm with a text that is the formatted address of another,  *)
(*           a vehicle without a position and a shipment without a pickup;    *)
(*   "walk"  Walkthrough with a plan that arrives, one that fails before its  *)
(*           goal and one of an older backend, without an itinerary.          *)
EXTENDS MapPage, RouteForm, Walkthrough, TLC
CONSTANTS v1, v2, s1, s2

VARIABLE part

page == vars
form == fieldVars
walk == walkVars

MCTank == v2 :> 12

MCFormatted == "elm" :> "Elm St" @@ "Elm St" :> "Elm St"
MCLabel == v1 :> "Vehicle position" @@ v2 :> "Vehicle position"
MCStop ==
  s1 :> [pickup |-> [text |-> "elm", located |-> FALSE],
         delivery |-> [text |-> "Elm St", located |-> TRUE]]
  @@ s2 :> [pickup |-> NoOne, delivery |-> [text |-> "elm", located |-> FALSE]]

Point(sequence, kind, status, offset, fuel, after) ==
  [sequence |-> sequence, kind |-> kind, status |-> status, offset |-> offset,
   fuel |-> fuel, after |-> after, primary |-> FALSE, failurePoint |-> FALSE]

Absent == 0 - 1

\* The plans are of the first route; on the second some of their points lie
\* beyond the end.
MCPolylines == {<<0, 4, 4, 6, 10>>, <<0, 3, 5>>}
MCResponses == {
  [run |-> 0, stops |-> {}, itinerary |-> {
     Point(0, "start", "reached", 0, 3, Absent),
     Point(2, "refuel", "reached", 5, Absent, 4),
     Point(1, "station", "reached", 2, 2, Absent),
     Point(3, "destination", "reached", 10, 1, Absent)}],
  [run |-> 0, stops |-> {}, itinerary |-> {
     Point(0, "start", "reached", 0, 2, Absent),
     [Point(1, "station", "reached", 3, 1, Absent) EXCEPT !.failurePoint = TRUE],
     [Point(2, "unreachable_station", "unreachable", 7, 0 - 2, Absent) EXCEPT !.primary = TRUE],
     Point(3, "destination", "unreachable", 10, 0, Absent)}],
  [run |-> 0, itinerary |-> {}, stops |-> {
     [sequence |-> 1, offset |-> 3, after |-> 2], [sequence |-> 2, offset |-> 6, after |-> 3]}]}

-----------------------------------------------------------------------------
\* The form's two links and two initial addresses are of its own part.
MCInit ==
  /\ part \in {"page", "form", "walk"}
  /\ Init /\ FieldsInit /\ WalkInit
  /\ part # "form" => linked /\ field["start"].text = "elm"

PageStep == part = "page" /\ Next /\ UNCHANGED <<part, form, walk>>
FormStep == part = "form" /\ FieldsNext /\ UNCHANGED <<part, page, walk>>
WalkStep == part = "walk" /\ WalkNext /\ UNCHANGED <<part, page, form>>

MCSpec ==
  /\ MCInit
  /\ [][PageStep \/ FormStep \/ WalkStep]_<<part, page, form, walk>>
  /\ FieldsFairness
  /\ ChatFairness
=============================================================================
