------------------------------- MODULE DeskOps -------------------------------
(* What the pages of the frontend read through the query cache and what their *)
(* dialogs and forms write.  The things stored are kept apart as far as some  *)
(* page shows one without the other:                                          *)
(*   tripList, trip, share          the other trips, the trip on screen, its link *)
(*   shipmentList, load, planning   the other shipments, the one on screen and   *)
(*                                  whether it is planned                         *)
(*   vehicleList, vehicle, position                                               *)
(*   userList, me, drivers                                                        *)
EXTENDS Navigation, Api, Sequences

Things == {"tripList", "trip", "share", "shipmentList", "load", "planning",
           "vehicleList", "vehicle", "position", "userList", "me", "drivers"}

\* A query: its key, the things its answer is made of, the request that fetches
\* it, and whether it is a suspense query, fresh for a second.
Reads(key, of, request) ==
  [key |-> key, of |-> of, request |-> request, suspense |-> FALSE]
Suspense(q) == [q EXCEPT !.suspense = TRUE]

TripPlansQuery == Reads(<<"tripPlans">>, {"tripList", "trip"}, "plansListTripPlans")
TripPlanQuery == Reads(<<"tripPlan", "id">>, {"trip", "share"}, "plansReadTripPlan")
MyTripPlansQuery == Reads(<<"myTripPlans">>, {"tripList", "trip"}, "plansListMyTripPlans")
DriversQuery == Reads(<<"drivers">>, {"drivers"}, "listDrivers")
ShipmentsQuery ==
  Reads(<<"shipments">>, {"shipmentList", "load", "planning"}, "listShipments")
ShipmentQuery ==
  Suspense(Reads(<<"shipment", "id">>, {"load", "planning"}, "getShipment"))
ValidationQuery ==
  Suspense(Reads(<<"shipment-validation", "id">>, {"load"}, "validateShipment"))
SuggestionsQuery ==
  Reads(<<"shipment-vehicle-suggestions", "id">>, {"vehicleList", "vehicle", "position", "load"},
        "suggestVehicles")
VehiclesQuery == Reads(<<"vehicles">>, {"vehicleList", "vehicle"}, "listVehicles")
VehicleQuery == Suspense(Reads(<<"vehicles", "id">>, {"vehicle"}, "getVehicle"))
UsersQuery == Suspense(Reads(<<"users">>, {"userList", "me"}, "readUsers"))
CurrentUserQuery == Reads(<<"currentUser">>, {"me"}, "readUserMe")
MapVehiclesQuery == Reads(<<"vehicles", "list">>, {"vehicleList", "vehicle"}, "listVehicles")
PositionsQuery ==
  Reads(<<"vehicles", "positions", "latest">>, {"position"}, "listLatestVehiclePositions")
MapShipmentsQuery ==
  Reads(<<"shipments", "map-selector">>, {"shipmentList", "load", "planning"}, "listShipments")

\* By name.
Query ==
  [tripPlans |-> TripPlansQuery, tripPlan |-> TripPlanQuery, myTripPlans |-> MyTripPlansQuery,
   drivers |-> DriversQuery, shipments |-> ShipmentsQuery, shipment |-> ShipmentQuery,
   validation |-> ValidationQuery, suggestions |-> SuggestionsQuery,
   vehicles |-> VehiclesQuery, vehicle |-> VehicleQuery, users |-> UsersQuery,
   currentUser |-> CurrentUserQuery, mapVehicles |-> MapVehiclesQuery,
   positions |-> PositionsQuery, mapShipments |-> MapShipmentsQuery]

\* The queries a page observes, in the order in which they can start: a later
\* one belongs to a component that is rendered once the first has data.
PageQueries(p) ==
  CASE p = "trips" -> <<"tripPlans">>
    [] p = "trip" -> <<"tripPlan", "drivers">>
    [] p = "myTrips" -> <<"myTripPlans">>
    [] p = "myTrip" -> <<"tripPlan">>
    [] p = "shipments" -> <<"shipments">>
    [] p = "shipment" -> <<"shipment", "validation">>
    [] p \in {"fleet", "newVehicle"} -> <<"vehicles">>
    [] p \in {"vehicle", "editVehicle"} -> <<"vehicle">>
    [] p = "admin" -> <<"users">>
    [] OTHER -> <<>>

\* The map page starts all of its own at once; every page of the layout, its
\* sidebar that is, reads the current user.
SideQueries(p) ==
  {"currentUser"} \cup (IF p = "map" THEN {"mapVehicles", "positions", "mapShipments"} ELSE {})

-----------------------------------------------------------------------------
\* A mutation: where it is started and by whom, the request it makes, what the
\* request writes, the keys it invalidates on success and in any case, and the
\* page a success leads to.
Op(page, request, writes) ==
  [page |-> page, request |-> request, writes |-> writes,
   by |-> "everyone", again |-> {}, settled |-> {}, to |-> page]

Everything == {<<>>}

\* DeleteTripsDialog: the users for whom some trip is deletable.
DeleteTrips ==
  [Op("trips", "plansDeleteTripPlan", {"tripList"}) EXCEPT
     !.by = "managers", !.settled = {<<"tripPlans">>}]

AssignTripInList ==
  [Op("trip", "plansAssignTripPlan", {"trip"}) EXCEPT !.again = {<<"tripPlans">>}]

AssignTrip ==
  [Op("trip", "plansAssignTripPlan", {"trip"}) EXCEPT
     !.again = {<<"tripPlan", "id">>, <<"tripPlans">>}]

\* "Create link", "Copy link" and "Revoke".
ShareTrip ==
  [Op("trip", "plansShareTripPlan", {"share"}) EXCEPT !.again = {<<"tripPlan", "id">>}]

\* "Start trip" and "Mark completed", in the list and on the trip.
UpdateStatusInList ==
  [Op("myTrips", "plansUpdateTripPlanStatus", {"trip"}) EXCEPT
     !.again = {<<"myTripPlans">>}]
UpdateStatus ==
  [Op("myTrip", "plansUpdateTripPlanStatus", {"trip"}) EXCEPT
     !.again = {<<"tripPlan", "id">>, <<"myTripPlans">>}]

DeleteShipments ==
  [Op("shipments", "deleteShipment", {"shipmentList"}) EXCEPT !.settled = {<<"shipments">>}]

UploadShipment ==
  [Op("shipments", "uploadShipmentDocument", {"shipmentList"}) EXCEPT
     !.again = {<<"shipments">>}, !.to = "shipment"]

Reparse ==
  [Op("shipment", "reparseShipment", {"load"}) EXCEPT
     !.again = {<<"shipments">>, <<"shipment", "id">>, <<"shipment-validation", "id">>}]

RemoveShipment ==
  [Op("shipment", "deleteShipment", {"shipmentList"}) EXCEPT
     !.by = "managers", !.again = {<<"shipments">>}, !.to = "shipments"]

\* ShipmentForm.
SaveShipment ==
  [Op("shipment", "updateShipment", {"load"}) EXCEPT
     !.again = {<<"shipments">>, <<"shipment", "id">>}]

\* The dialog reads its suggestions while it is open, and opens the trip made.
PlanTrip ==
  [Op("shipment", "planShipment", {"planning", "tripList"}) EXCEPT
     !.again = {<<"shipments">>, <<"shipment", "id">>, <<"trip-plans">>}, !.to = "trip"]

DeleteVehiclesByAll ==
  [Op("fleet", "deleteVehicle", {"vehicleList"}) EXCEPT !.settled = {<<"vehicles">>}]

DeleteVehicles ==
  [Op("fleet", "deleteVehicle", {"vehicleList"}) EXCEPT
     !.by = "superusers", !.settled = {<<"vehicles">>}]

NewVehicle ==
  [Op("newVehicle", "createVehicle", {"vehicleList"}) EXCEPT
     !.settled = {<<"vehicles">>}, !.to = "fleet"]

EditVehicle ==
  [Op("editVehicle", "updateVehicle", {"vehicle"}) EXCEPT
     !.settled = {<<"vehicles">>}, !.to = "vehicle"]

DeleteVehicle ==
  [Op("vehicle", "deleteVehicle", {"vehicleList"}) EXCEPT
     !.by = "superusers", !.settled = Everything, !.to = "fleet"]

AddUser == [Op("admin", "createUser", {"userList"}) EXCEPT !.settled = {<<"users">>}]
EditUser == [Op("admin", "updateUser", {"userList"}) EXCEPT !.settled = {<<"users">>}]
DeleteUser == [Op("admin", "deleteUser", {"userList"}) EXCEPT !.settled = Everything]

UserInformation ==
  [Op("settings", "updateUserMe", {"me"}) EXCEPT !.settled = Everything]

\* By name.
Mutation ==
  [deleteTrips |-> DeleteTrips, assignTrip |-> AssignTrip, shareTrip |-> ShareTrip,
   updateStatusInList |-> UpdateStatusInList, updateStatus |-> UpdateStatus,
   deleteShipments |-> DeleteShipments, uploadShipment |-> UploadShipment,
   reparse |-> Reparse, removeShipment |-> RemoveShipment, saveShipment |-> SaveShipment,
   planTrip |-> PlanTrip, deleteVehicles |-> DeleteVehicles, newVehicle |-> NewVehicle,
   editVehicle |-> EditVehicle, deleteVehicle |-> DeleteVehicle, addUser |-> AddUser,
   editUser |-> EditUser, deleteUser |-> DeleteUser, userInformation |-> UserInformation]

\* Who is offered an operation on a page he may stay on.
Offered(op, u) ==
  CASE op.by = "managers" -> Superuser[u] \/ Role[u] \in {"admin", "dispatcher"}
    [] op.by = "superusers" -> Superuser[u]
    [] OTHER -> TRUE

-----------------------------------------------------------------------------
\* Whom the backend lets through: require_roles, which an admin always passes
\* and a superuser of another role does not, and the dependencies on the flag.
HasRole(u, roles) == Role[u] \in roles \cup {"admin"}

TripPlansPermit(request, u) ==
  IF request = "plansUpdateTripPlanStatus" THEN HasRole(u, {"dispatcher", "driver"})
  ELSE HasRole(u, {"dispatcher"})

ShipmentsPermit(u) == HasRole(u, {"dispatcher"})

FleetPermits(request, u) ==
  IF request = "updateVehicle" THEN Dispatches(u) ELSE Superuser[u]

UsersPermit(request, u) == request = "updateUserMe" \/ Superuser[u]

Permits(request, u) ==
  LET of(service) == \E o \in service : o.name = request
  IN  CASE of(TripPlansService) -> TripPlansPermit(request, u)
        [] of(ShipmentsService) -> ShipmentsPermit(u)
        [] of(VehiclesService) -> FleetPermits(request, u)
        [] of(UsersService) -> UsersPermit(request, u)
=============================================================================
