----------------------------- MODULE MapLayers -----------------------------
(* The layer components of the maps (components/Map/layers), one record each:    *)
(*   source   the GeoJSON source the component owns                               *)
(*   shown    its MapLibre layers, each with the zoom modes that show it          *)
(*   images   the marker images it keeps on the map                               *)
(*   icon     the kinds of things it draws, each with the image asked for         *)
(*   skips    whether items without a usable location are left out                *)
(*   popup    the layers whose clicks open a popup, and how handlers get attached *)
(* What the components do with these is shared code and is in MapScene.           *)
EXTENDS Naturals, Sequences

CONSTANT MaxRetries              \* MAX_RETRIES of the popup effects (5 in the code)

\* Zoom levels abstracted to the modes the visibility rules tell apart.
getVisibilityForZoom(zoom) ==
  IF zoom < 8 THEN "route-only" ELSE IF zoom < 14 THEN "clustered" ELSE "individual"
Modes == {getVisibilityForZoom(zoom) : zoom \in 0..22}
shouldShowMapObjects == {"clustered", "individual"}
shouldShowClusters == {"clustered"}
shouldShowObjectLabels == {"individual"}

NoImage == "no-image"
Forever == 0                     \* no limit on the attempts to attach handlers
Popups(ids, tries, perData, cancels) ==
  [on |-> ids, tries |-> tries, perData |-> perData, cancels |-> cancels]

(* A component without images and popups whose layers are always shown. *)
Plain(source, ids) ==
  [source |-> source, shown |-> [id \in ids |-> Modes], images |-> {}, skips |-> FALSE,
   icon |-> [k \in {"one", "other"} |-> NoImage], popup |-> Popups({}, 1, TRUE, TRUE)]
Rules(c, rules) == [c EXCEPT !.shown = [id \in DOMAIN @ |->
                                          IF id \in DOMAIN rules THEN rules[id] ELSE @[id]]]

RouteLayer == Plain("route", {"route-layer"})
RefinedRouteLayer ==
  Plain("refined-route", {"refined-route-casing-layer", "refined-route-layer"})
DetourLayer == Plain("detour", {"detour-layer", "detour-layer-stroke"})
MeasureLayer == Plain("measure", {"measure-line", "measure-vertices"})
RoutePointsLayer == Plain("route-points-source", {"route-points-circle", "route-points-label"})
VehiclePositionsLayer ==
  Plain("vehicle-positions-source", {"vehicle-positions-circle", "vehicle-positions-label"})
OptimizationStopsLayer ==
  Plain("optimization-stops", {"optimization-stops-circle", "optimization-stops-label"})
OptimizationComparedStationsLayer ==
  Plain("optimization-compared-stations",
        {"optimization-compared-stations-halo", "optimization-compared-stations-ring"})
ReachableRouteLayer ==
  Plain("reachable-route", {"reachable-route-layer", "reachable-route-reserve-base-layer",
                            "reachable-route-reserve-stripe-layer"})

(* One attempt to attach the click handlers per set of rejected stations. *)
OptimizationRejectedStationsLayer ==
  LET circle == "optimization-rejected-stations-circle" IN
  [Plain("optimization-rejected-stations", {circle}) EXCEPT !.popup = Popups({circle}, 1, TRUE, TRUE)]

(* Incident triangles: a severity the map does not know is drawn as a minor one. *)
TrafficIcon(severity) ==
  "traffic-triangle-" \o IF severity \in {"severe", "major", "moderate"} THEN severity ELSE "minor"
TrafficLayer ==
  [Rules(Plain("traffic", {"traffic-layer"}), [id \in {"traffic-layer"} |-> shouldShowMapObjects])
   EXCEPT !.images = {"traffic-triangle-severe", "traffic-triangle-major",
                      "traffic-triangle-moderate", "traffic-triangle-minor"},
          !.skips = TRUE,
          !.icon = [s \in {"severe", "major", "moderate", "minor", "unknown"} |-> TrafficIcon(s)]]

(* Fuel drops: the active ones are coloured by price data and by truck access. *)
FuelIcon(station) ==
  "fuel-drop-" \o IF ~station.isActive THEN "inactive"
                  ELSE IF station.hasPriceData /\ station.largeTruckAccessible
                       THEN "available" ELSE "unavailable"
Stations == [isActive : BOOLEAN, hasPriceData : BOOLEAN, largeTruckAccessible : BOOLEAN]
FuelLayer ==
  LET drops == "fuel-stations-drops"
      label == "fuel-stations-label"
  IN [Rules(Plain("fuel-stations", {drops, label}), [id \in {label} |-> shouldShowObjectLabels])
      EXCEPT !.images = {"fuel-drop-available", "fuel-drop-unavailable", "fuel-drop-inactive"},
             !.icon = [s \in Stations |-> FuelIcon(s)],
             !.popup = Popups({drops, label}, MaxRetries, TRUE, FALSE)]

RestrictionTypes == {"bridge_height", "weight_limit", "width_limit", "length_limit", "hazmat",
                     "no_trucks", "other"}
RestrictionIcon(type) ==
  "restriction-octagon-" \o CASE type = "weight_limit" -> "weight"
                              [] type = "bridge_height" -> "height"
                              [] type = "no_trucks" -> "noTrucks"
                              [] OTHER -> "other"
TruckRestrictionLayer ==
  LET octagons == "truck-restrictions-octagons"
      clusters == {"truck-restrictions-cluster-circle", "truck-restrictions-cluster-text"}
  IN [Rules(Plain("truck-restrictions", clusters \cup {octagons}),
            [id \in clusters \cup {octagons} |->
               IF id = octagons THEN shouldShowMapObjects ELSE shouldShowClusters])
      EXCEPT !.images = {"restriction-octagon-weight", "restriction-octagon-height",
                         "restriction-octagon-noTrucks", "restriction-octagon-other"},
             !.icon = [t \in RestrictionTypes |-> RestrictionIcon(t)]]

RestAreaIcon(category) ==
  "rest-area-square-" \o CASE category = "400-4300-0199" -> "complete"
                           [] category = "700-7900-0131" -> "parking"
                           [] OTHER -> "other"
RestAreaLayer ==
  LET circle == "vector8-rest-areas-circle-layer"
      label == "vector8-rest-areas-label-layer"
      clusters == {"rest-areas-cluster-circle", "rest-areas-cluster-text"}
      rules == [id \in clusters \cup {circle, label} |->
                  CASE id = circle -> shouldShowMapObjects
                    [] id = label -> shouldShowObjectLabels
                    [] OTHER -> shouldShowClusters]
  IN [Rules(Plain("vector8-rest-areas-source", clusters \cup {circle, label}), rules)
      EXCEPT !.images = {"rest-area-square-complete", "rest-area-square-parking",
                         "rest-area-square-other"},
             !.skips = TRUE,
             !.icon = [k \in {"400-4300-0199", "700-7900-0131", "none"} |-> RestAreaIcon(k)],
             !.popup = Popups({circle}, MaxRetries, TRUE, FALSE)]

(* The stops of a trip: the handlers depend on the map alone, and the timer that  *)
(* retries them without limit is cancelled by the cleanup.                        *)
TripStopsLayer ==
  LET drop == "trip-stop-fuel-drop"
  IN [Plain("trip-stops", {"trip-stops-circle", "trip-stops-label", "trip-stops-fuel",
                           "trip-stops-fuel-badge", "trip-stops-fuel-label"})
      EXCEPT !.images = {drop},
             !.icon = [k \in {"stop", "refuel"} |-> IF k = "refuel" THEN drop ELSE NoImage],
             !.popup = Popups({"trip-stops-fuel"}, Forever, FALSE, TRUE)]

(* What the map page and the trip pages put on their maps. *)
MapPageLayers ==
  {"Route", "RefinedRoute", "ReachableRoute", "Detour", "Traffic", "Fuel", "TruckRestriction",
   "RestArea", "RoutePoints", "VehiclePositions", "OptimizationStops",
   "OptimizationRejectedStations", "OptimizationComparedStations", "Measure"}
TripMapLayers == {"RefinedRoute", "TripStops"}

Layer ==
  [name \in MapPageLayers \cup TripMapLayers |->
     CASE name = "Route" -> RouteLayer
       [] name = "RefinedRoute" -> RefinedRouteLayer
       [] name = "ReachableRoute" -> ReachableRouteLayer
       [] name = "Detour" -> DetourLayer
       [] name = "Traffic" -> TrafficLayer
       [] name = "Fuel" -> FuelLayer
       [] name = "TruckRestriction" -> TruckRestrictionLayer
       [] name = "RestArea" -> RestAreaLayer
       [] name = "RoutePoints" -> RoutePointsLayer
       [] name = "VehiclePositions" -> VehiclePositionsLayer
       [] name = "OptimizationStops" -> OptimizationStopsLayer
       [] name = "OptimizationRejectedStations" -> OptimizationRejectedStationsLayer
       [] name = "OptimizationComparedStations" -> OptimizationComparedStationsLayer
       [] name = "Measure" -> MeasureLayer
       [] name = "TripStops" -> TripStopsLayer]

(* What a component draws of a payload: the kinds of its drawable items, nothing  *)
(* (null) when there are none.                                                    *)
Features(c, items) == {i.kind : i \in {j \in items : j.located \/ ~Layer[c].skips}}
=============================================================================
