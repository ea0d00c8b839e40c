----------------------------- MODULE DeskProofs ------------------------------
(* What holds of the pages for every user, role and flag, however many writes *)
(* there are and whatever is under way at once: a user is offered only what   *)
(* the backend lets him do, is taken only to pages that he may stay on, and   *)
(* is shown what he was told is done.                                         *)
EXTENDS Desk, TLAPS

(***************************************************************************)
(* The tables.                                                             *)
(***************************************************************************)

\* The part of a mutation that rights are about.
Row(op, where, by, request, to) ==
  /\ op.page = where /\ op.by = by /\ op.request = request /\ op.to = to

\* Mutations of the trip pages.
LEMMA TripRows ==
  /\ Row(DeleteTrips, "trips", "managers", "plansDeleteTripPlan", "trips")
  /\ Row(AssignTrip, "trip", "everyone", "plansAssignTripPlan", "trip")
  /\ Row(ShareTrip, "trip", "everyone", "plansShareTripPlan", "trip")
  /\ Row(UpdateStatusInList, "myTrips", "everyone", "plansUpdateTripPlanStatus", "myTrips")
  /\ Row(UpdateStatus, "myTrip", "everyone", "plansUpdateTripPlanStatus", "myTrip")
<1>1. Row(DeleteTrips, "trips", "managers", "plansDeleteTripPlan", "trips")
  BY DEF Row, DeleteTrips, Op
<1>2. Row(AssignTrip, "trip", "everyone", "plansAssignTripPlan", "trip")
  BY DEF Row, AssignTrip, Op
<1>3. Row(ShareTrip, "trip", "everyone", "plansShareTripPlan", "trip")
  BY DEF Row, ShareTrip, Op
<1>4. Row(UpdateStatusInList, "myTrips", "everyone", "plansUpdateTripPlanStatus", "myTrips")
  BY DEF Row, UpdateStatusInList, Op
<1>5. Row(UpdateStatus, "myTrip", "everyone", "plansUpdateTripPlanStatus", "myTrip")
  BY DEF Row, UpdateStatus, Op
<1>6. QED
  BY <1>1, <1>2, <1>3, <1>4, <1>5

\* Of the shipment pages.
LEMMA ShipmentRows ==
  /\ Row(DeleteShipments, "shipments", "everyone", "deleteShipment", "shipments")
  /\ Row(UploadShipment, "shipments", "everyone", "uploadShipmentDocument", "shipment")
  /\ Row(Reparse, "shipment", "everyone", "reparseShipment", "shipment")
  /\ Row(RemoveShipment, "shipment", "managers", "deleteShipment", "shipments")
  /\ Row(SaveShipment, "shipment", "everyone", "updateShipment", "shipment")
  /\ Row(PlanTrip, "shipment", "everyone", "planShipment", "trip")
<1>1. Row(DeleteShipments, "shipments", "everyone", "deleteShipment", "shipments")
  BY DEF Row, DeleteShipments, Op
<1>2. Row(UploadShipment, "shipments", "everyone", "uploadShipmentDocument", "shipment")
  BY DEF Row, UploadShipment, Op
<1>3. Row(Reparse, "shipment", "everyone", "reparseShipment", "shipment")
  BY DEF Row, Reparse, Op
<1>4. Row(RemoveShipment, "shipment", "managers", "deleteShipment", "shipments")
  BY DEF Row, RemoveShipment, Op
<1>5. Row(SaveShipment, "shipment", "everyone", "updateShipment", "shipment")
  BY DEF Row, SaveShipment, Op
<1>6. Row(PlanTrip, "shipment", "everyone", "planShipment", "trip")
  BY DEF Row, PlanTrip, Op
<1>7. QED
  BY <1>1, <1>2, <1>3, <1>4, <1>5, <1>6

\* Of the fleet pages.
LEMMA FleetRows ==
  /\ Row(DeleteVehicles, "fleet", "superusers", "deleteVehicle", "fleet")
  /\ Row(NewVehicle, "newVehicle", "everyone", "createVehicle", "fleet")
  /\ Row(EditVehicle, "editVehicle", "everyone", "updateVehicle", "vehicle")
  /\ Row(DeleteVehicle, "vehicle", "superusers", "deleteVehicle", "fleet")
<1>1. Row(DeleteVehicles, "fleet", "superusers", "deleteVehicle", "fleet")
  BY DEF Row, DeleteVehicles, Op
<1>2. Row(NewVehicle, "newVehicle", "everyone", "createVehicle", "fleet")
  BY DEF Row, NewVehicle, Op
<1>3. Row(EditVehicle, "editVehicle", "everyone", "updateVehicle", "vehicle")
  BY DEF Row, EditVehicle, Op
<1>4. Row(DeleteVehicle, "vehicle", "superusers", "deleteVehicle", "fleet")
  BY DEF Row, DeleteVehicle, Op, Everything
<1>5. QED
  BY <1>1, <1>2, <1>3, <1>4

\* Of the administration and the settings.
LEMMA AccountRows ==
  /\ Row(AddUser, "admin", "everyone", "createUser", "admin")
  /\ Row(EditUser, "admin", "everyone", "updateUser", "admin")
  /\ Row(DeleteUser, "admin", "everyone", "deleteUser", "admin")
  /\ Row(UserInformation, "settings", "everyone", "updateUserMe", "settings")
<1>1. Row(AddUser, "admin", "everyone", "createUser", "admin")
  BY DEF Row, AddUser, Op
<1>2. Row(EditUser, "admin", "everyone", "updateUser", "admin")
  BY DEF Row, EditUser, Op
<1>3. Row(DeleteUser, "admin", "everyone", "deleteUser", "admin")
  BY DEF Row, DeleteUser, Op, Everything
<1>4. Row(UserInformation, "settings", "everyone", "updateUserMe", "settings")
  BY DEF Row, UserInformation, Op, Everything
<1>5. QED
  BY <1>1, <1>2, <1>3, <1>4

\* The mutations by name.
LEMMA MutationNamed ==
  ASSUME NEW n \in DOMAIN Mutation
  PROVE  Mutation[n] \in
           {DeleteTrips, AssignTrip, ShareTrip, UpdateStatusInList, UpdateStatus,
            DeleteShipments, UploadShipment, Reparse, RemoveShipment, SaveShipment,
            PlanTrip, DeleteVehicles, NewVehicle, EditVehicle, DeleteVehicle, AddUser,
            EditUser, DeleteUser, UserInformation}
BY DEF Mutation

(***************************************************************************)
(* Rights.                                                                 *)
(***************************************************************************)

\* A request is one of a service of the client.
OfService(service, r) == \E o \in service : o.name = r

LEMMA OfCarrying ==
  ASSUME NEW S, NEW r
  PROVE  OfService(Carrying(S), r) <=> r \in S
<1>1. ASSUME r \in S PROVE OfService(Carrying(S), r)
  <2>1. /\ [name |-> r, secured |-> TRUE] \in Carrying(S)
        /\ [name |-> r, secured |-> TRUE].name = r
    BY <1>1 DEF Carrying
  <2>2. QED
    BY <2>1 DEF OfService
<1>2. \A o \in Carrying(S) : o.name \in S
  BY DEF Carrying
<1>3. QED
  BY <1>1, <1>2 DEF OfService

LEMMA OfPublic ==
  ASSUME NEW S, NEW r
  PROVE  OfService(Public(S), r) <=> r \in S
<1>1. ASSUME r \in S PROVE OfService(Public(S), r)
  <2>1. /\ [name |-> r, secured |-> FALSE] \in Public(S)
        /\ [name |-> r, secured |-> FALSE].name = r
    BY <1>1 DEF Public
  <2>2. QED
    BY <2>1 DEF OfService
<1>2. \A o \in Public(S) : o.name \in S
  BY DEF Public
<1>3. QED
  BY <1>1, <1>2 DEF OfService

LEMMA OfUnion ==
  ASSUME NEW S, NEW T, NEW r
  PROVE  OfService(S \cup T, r) <=> OfService(S, r) \/ OfService(T, r)
BY DEF OfService

\* The requests that the pages make.
Requests ==
  {"plansDeleteTripPlan", "plansAssignTripPlan", "plansUpdateTripPlanStatus",
   "plansShareTripPlan", "uploadShipmentDocument", "deleteShipment", "updateShipment",
   "reparseShipment", "planShipment", "createVehicle", "deleteVehicle", "updateVehicle",
   "createUser", "updateUser", "deleteUser", "updateUserMe"}

\* Which of them each service has.
LEMMA TripPlansServiceNames ==
  ASSUME NEW r \in Requests
  PROVE  OfService(TripPlansService, r) <=>
           r \in {"plansDeleteTripPlan", "plansAssignTripPlan",
                  "plansUpdateTripPlanStatus", "plansShareTripPlan"}
<1> DEFINE carrying ==
            {"plansListTripPlans", "plansCreateTripPlan", "plansListMyTripPlans",
             "plansDeleteTripPlan", "plansReadTripPlan", "plansRefineTripPlan",
             "plansAssignTripPlan", "plansUpdateTripPlanStatus", "plansShareTripPlan",
             "plansExportTripPlan"}
<1>1. TripPlansService = Public({"plansReadSharedTripPlan"}) \cup Carrying(carrying)
  BY DEF TripPlansService
<1>2. r \in carrying <=> OfService(Carrying(carrying), r)
  BY OfCarrying
<1>3. r = "plansReadSharedTripPlan" <=> OfService(Public({"plansReadSharedTripPlan"}), r)
  BY OfPublic
<1>4. OfService(TripPlansService, r) <=> r = "plansReadSharedTripPlan" \/ r \in carrying
  BY <1>1, <1>2, <1>3, OfUnion
<1>5. QED
  BY <1>4 DEF Requests

LEMMA ShipmentsServiceNames ==
  ASSUME NEW r \in Requests
  PROVE  OfService(ShipmentsService, r) <=>
           r \in {"uploadShipmentDocument", "deleteShipment", "updateShipment",
                  "reparseShipment", "planShipment"}
BY OfCarrying DEF ShipmentsService, Requests

LEMMA VehiclesServiceNames ==
  ASSUME NEW r \in Requests
  PROVE  OfService(VehiclesService, r) <=>
           r \in {"createVehicle", "deleteVehicle", "updateVehicle"}
BY OfCarrying DEF VehiclesService, Requests

LEMMA UsersServiceNames ==
  ASSUME NEW r \in Requests
  PROVE  OfService(UsersService, r) <=>
           r \in {"createUser", "updateUser", "deleteUser", "updateUserMe"}
<1> DEFINE carrying ==
            {"readUsers", "createUser", "deleteUserMe", "readUserMe", "updateUserMe",
             "updatePasswordMe", "deleteUser", "readUserById", "updateUser"}
<1>1. UsersService = Public({"registerUser"}) \cup Carrying(carrying)
  BY DEF UsersService
<1>2. r \in carrying <=> OfService(Carrying(carrying), r)
  BY OfCarrying
<1>3. r = "registerUser" <=> OfService(Public({"registerUser"}), r)
  BY OfPublic
<1>4. OfService(UsersService, r) <=> r = "registerUser" \/ r \in carrying
  BY <1>1, <1>2, <1>3, OfUnion
<1>5. QED
  BY <1>4 DEF Requests

\* The roles a user may have.
LEMMA Roles ==
  ASSUME NEW u \in Users
  PROVE  Role[u] \in {"admin", "dispatcher", "driver"}
BY DeskAssumption

LEMMA TripsPermitted ==
  ASSUME NEW r \in {"plansDeleteTripPlan", "plansAssignTripPlan",
                    "plansUpdateTripPlanStatus", "plansShareTripPlan"}, NEW u
  PROVE  Permits(r, u) = TripPlansPermit(r, u)
BY TripPlansServiceNames, ShipmentsServiceNames, VehiclesServiceNames, UsersServiceNames
   DEF Permits, OfService, Requests

LEMMA ShipmentsPermitted ==
  ASSUME NEW r \in {"uploadShipmentDocument", "deleteShipment", "updateShipment",
                    "reparseShipment", "planShipment"}, NEW u
  PROVE  Permits(r, u) = ShipmentsPermit(u)
BY TripPlansServiceNames, ShipmentsServiceNames, VehiclesServiceNames, UsersServiceNames
   DEF Permits, OfService, Requests

LEMMA FleetPermitted ==
  ASSUME NEW r \in {"createVehicle", "deleteVehicle", "updateVehicle"}, NEW u
  PROVE  Permits(r, u) = FleetPermits(r, u)
BY TripPlansServiceNames, ShipmentsServiceNames, VehiclesServiceNames, UsersServiceNames
   DEF Permits, OfService, Requests

LEMMA UsersPermitted ==
  ASSUME NEW r \in {"createUser", "updateUser", "deleteUser", "updateUserMe"}, NEW u
  PROVE  Permits(r, u) = UsersPermit(r, u)
BY TripPlansServiceNames, ShipmentsServiceNames, VehiclesServiceNames, UsersServiceNames
   DEF Permits, OfService, Requests

\* Who may stay on a page and is offered an operation there may carry it out,
\* and may stay on the page that its success leads to.
MayDo(op, u) == Permits(op.request, u) /\ Landing(op.to, u) = op.to

LEMMA OfferedIsPermitted ==
  ASSUME NEW u \in Users, NEW n \in DOMAIN Mutation,
         Landing(Mutation[n].page, u) = Mutation[n].page, Offered(Mutation[n], u)
  PROVE  MayDo(Mutation[n], u)
<1> DEFINE op == Mutation[n]
<1>1. CASE op \in {DeleteTrips, AssignTrip, ShareTrip}
  <2>1. /\ op.page \in {"trips", "trip"} /\ op.to = op.page
        /\ op.request \in {"plansDeleteTripPlan", "plansAssignTripPlan", "plansShareTripPlan"}
    BY <1>1, TripRows DEF Row
  <2>2. Role[u] \in {"admin", "dispatcher"}
    BY <2>1, Roles DEF Landing
  <2>3. Permits(op.request, u)
    BY <2>1, <2>2, TripsPermitted DEF TripPlansPermit, HasRole
  <2>4. QED
    BY <2>1, <2>3 DEF MayDo
<1>2. CASE op \in {UpdateStatusInList, UpdateStatus}
  <2>1. /\ op.page \in {"myTrips", "myTrip"} /\ op.to = op.page
        /\ op.request = "plansUpdateTripPlanStatus"
    BY <1>2, TripRows DEF Row
  <2>2. Role[u] = "driver"
    BY <2>1 DEF Landing
  <2>3. Permits(op.request, u)
    BY <2>1, <2>2, TripsPermitted DEF TripPlansPermit, HasRole
  <2>4. QED
    BY <2>1, <2>3 DEF MayDo
<1>3. CASE op \in {DeleteShipments, UploadShipment, Reparse, RemoveShipment, SaveShipment,
                   PlanTrip}
  <2>1. /\ op.page \in {"shipments", "shipment"} /\ op.to \in {"shipments", "shipment", "trip"}
        /\ op.request \in {"uploadShipmentDocument", "deleteShipment", "updateShipment",
                           "reparseShipment", "planShipment"}
    BY <1>3, ShipmentRows DEF Row
  <2>2. Role[u] \in {"admin", "dispatcher"}
    BY <2>1, Roles DEF Landing
  <2>3. Permits(op.request, u)
    BY <2>1, <2>2, ShipmentsPermitted DEF ShipmentsPermit, HasRole
  <2>4. Landing(op.to, u) = op.to
    BY <2>1, <2>2 DEF Landing
  <2>5. QED
    BY <2>3, <2>4 DEF MayDo
<1>4. CASE op \in {DeleteVehicles, DeleteVehicle}
  <2>1. op.by = "superusers" /\ op.to = "fleet" /\ op.request = "deleteVehicle"
    BY <1>4, FleetRows DEF Row
  <2>2. Superuser[u]
    BY <2>1 DEF Offered
  <2>3. QED
    BY <2>1, <2>2, FleetPermitted DEF FleetPermits, MayDo, Landing, Dispatches
<1>5. CASE op = NewVehicle
  <2>1. op.page = "newVehicle" /\ op.to = "fleet" /\ op.request = "createVehicle"
    BY <1>5, FleetRows DEF Row
  <2>2. Superuser[u]
    BY <2>1 DEF Landing
  <2>3. QED
    BY <2>1, <2>2, FleetPermitted DEF FleetPermits, MayDo, Landing, Dispatches
<1>6. CASE op = EditVehicle
  <2>1. op.page = "editVehicle" /\ op.to = "vehicle" /\ op.request = "updateVehicle"
    BY <1>6, FleetRows DEF Row
  <2>2. Dispatches(u)
    BY <2>1 DEF Landing
  <2>3. QED
    BY <2>1, <2>2, FleetPermitted DEF FleetPermits, MayDo, Landing
<1>7. CASE op \in {AddUser, EditUser, DeleteUser}
  <2>1. /\ op.page = "admin" /\ op.to = "admin"
        /\ op.request \in {"createUser", "updateUser", "deleteUser"}
    BY <1>7, AccountRows DEF Row
  <2>2. Superuser[u]
    BY <2>1 DEF Landing
  <2>3. Permits(op.request, u)
    BY <2>1, <2>2, UsersPermitted DEF UsersPermit
  <2>4. QED
    BY <2>1, <2>3 DEF MayDo
<1>8. CASE op = UserInformation
  <2>1. op.page = "settings" /\ op.to = "settings" /\ op.request = "updateUserMe"
    BY <1>8, AccountRows DEF Row
  <2>2. Permits(op.request, u)
    BY <2>1, UsersPermitted DEF UsersPermit
  <2>3. QED
    BY <2>1, <2>2 DEF MayDo
<1>9. QED
  BY <1>1, <1>2, <1>3, <1>4, <1>5, <1>6, <1>7, <1>8, MutationNamed

(***************************************************************************)
(* The pages.                                                              *)
(***************************************************************************)

\* The user is on a page that does not send him away, and whatever is under way
\* he may do, wherever he has gone since.
DeskInv ==
  /\ who \in Users
  /\ Landing(page, who) = page
  /\ calls \subseteq [op : DOMAIN Mutation, written : {0, 1}]
  /\ \A c \in calls : MayDo(Mutation[c.op], who)

\* What starts a mutation.
LEMMA SubmitStep ==
  ASSUME DeskInv, NEW n \in DOMAIN Mutation, Submit(n)
  PROVE  DeskInv'
<1>1. MayDo(Mutation[n], who)
  BY OfferedIsPermitted DEF DeskInv, Submit
<1>2. /\ who' = who /\ page' = page
      /\ calls' = calls \cup {[op |-> n, written |-> 0]}
  BY DEF Submit
<1>3. QED
  BY <1>1, <1>2 DEF DeskInv, MayDo, Landing, Dispatches

\* A success takes the user to another page wherever he is by then.
LEMMA SucceedsStep ==
  ASSUME DeskInv, NEW c \in calls, Succeeds(c)
  PROVE  DeskInv'
<1>1. who' = who /\ calls' \subseteq calls
  BY DEF Succeeds
<1>2. page' \in {page, Mutation[c.op].to}
  BY DEF Succeeds, Render
<1>3. Landing(page', who) = page'
  BY <1>2 DEF DeskInv, MayDo
<1>4. QED
  BY <1>1, <1>3 DEF DeskInv

\* The backend's write leaves what the call is about.
LEMMA BackendWritesStep ==
  ASSUME DeskInv, NEW c \in calls, BackendWrites(c)
  PROVE  DeskInv'
<1>1. who' = who /\ page' = page
  BY DEF BackendWrites
<1>2. calls' = (calls \ {c}) \cup {[c EXCEPT !.written = 1]}
  BY DEF BackendWrites
<1>3. c \in [op : DOMAIN Mutation, written : {0, 1}]
  BY DEF DeskInv
<1>4. /\ [c EXCEPT !.written = 1] \in [op : DOMAIN Mutation, written : {0, 1}]
      /\ [c EXCEPT !.written = 1].op = c.op
  BY <1>3
<1>5. QED
  BY <1>1, <1>2, <1>4 DEF DeskInv

\* Every other step keeps the user, and adds no call.
LEMMA OtherStep ==
  ASSUME DeskInv, who' = who, Landing(page', who) = page', calls' \subseteq calls
  PROVE  DeskInv'
BY DEF DeskInv

LEMMA DeskInvHolds == Spec => []DeskInv
<1>1. Init => DeskInv
  BY DeskAssumption DEF Init, DeskInv
<1>2. DeskInv /\ [Next]_vars => DeskInv'
  <2> SUFFICES ASSUME DeskInv, [Next]_vars PROVE DeskInv'
    OBVIOUS
  <2>1. ASSUME NEW p \in Layout, Open(p) PROVE DeskInv'
    BY <2>1, OtherStep DEF Open, Render
  <2>2. CASE OpenPlanDialog \/ ClosePlanDialog \/ Refocus
    BY <2>2, OtherStep DEF OpenPlanDialog, ClosePlanDialog, Refocus, Render, DeskInv
  <2>3. ASSUME NEW n \in DOMAIN Mutation, Submit(n) PROVE DeskInv'
    BY <2>3, SubmitStep
  <2>4. ASSUME NEW c \in calls, BackendWrites(c) PROVE DeskInv'
    BY <2>4, BackendWritesStep
  <2>5. ASSUME NEW c \in calls, Succeeds(c) PROVE DeskInv'
    BY <2>5, SucceedsStep
  <2>6. ASSUME NEW c \in calls, Fails(c) PROVE DeskInv'
    BY <2>6, OtherStep DEF Fails, Render, DeskInv
  <2>7. ASSUME NEW t, OthersWrite(t) PROVE DeskInv'
    BY <2>7, OtherStep DEF OthersWrite, DeskInv
  <2>8. ASSUME NEW q \in Kept,
               BackendReads(q) \/ FetchAnswers(q) \/ FetchFails(q) \/ Ages(q)
        PROVE DeskInv'
    BY <2>8, OtherStep DEF BackendReads, FetchAnswers, FetchFails, Ages, Render, DeskInv
  <2>9. CASE UNCHANGED vars
    BY <2>9, OtherStep DEF vars, DeskInv
  <2>10. QED
    BY <2>1, <2>2, <2>3, <2>4, <2>5, <2>6, <2>7, <2>8, <2>9 DEF Next
<1>3. QED
  BY <1>1, <1>2, PTL DEF Spec

\* Whatever the user's role and flag, no page of the frontend offers him what
\* the backend refuses him.
THEOREM OffersAlwaysPermitted == Spec => []OffersArePermitted
<1>1. DeskInv => OffersArePermitted
  BY DEF DeskInv, MayDo, OffersArePermitted
<1>2. QED
  BY <1>1, DeskInvHolds, PTL

\* Neither the user nor a success that comes after he has moved on brings him to
\* a page whose guard would have turned him away.
THEOREM PagesLetTheUserStay == Spec => [](Landing(page, who) = page)
<1>1. DeskInv => Landing(page, who) = page
  BY DEF DeskInv
<1>2. QED
  BY <1>1, DeskInvHolds, PTL

(***************************************************************************)
(* Keys.                                                                   *)
(***************************************************************************)

\* A detail's key is under its list's.
LEMMA PrefixFirst ==
  ASSUME NEW a, NEW b
  PROVE  IsPrefix(<<a>>, <<a, b>>)
BY DEF IsPrefix

\* A key is under itself and under the empty key.
LEMMA PrefixEnds ==
  ASSUME NEW a, NEW b, NEW c, NEW key \in {<<a>>, <<a, b>>, <<a, b, c>>}
  PROVE  IsPrefix(<<>>, key) /\ IsPrefix(key, key)
BY DEF IsPrefix

\* What a query is, by name.
Read(q, key, of) == Query[q].key = key /\ Query[q].of = of

LEMMA QueryRows ==
  /\ Read("tripPlans", <<"tripPlans">>, {"tripList", "trip"})
  /\ Read("tripPlan", <<"tripPlan", "id">>, {"trip", "share"})
  /\ Read("myTripPlans", <<"myTripPlans">>, {"tripList", "trip"})
  /\ Read("drivers", <<"drivers">>, {"drivers"})
  /\ Read("shipments", <<"shipments">>, {"shipmentList", "load", "planning"})
  /\ Read("shipment", <<"shipment", "id">>, {"load", "planning"})
  /\ Read("vehicles", <<"vehicles">>, {"vehicleList", "vehicle"})
  /\ Read("vehicle", <<"vehicles", "id">>, {"vehicle"})
  /\ Read("users", <<"users">>, {"userList", "me"})
  /\ Read("currentUser", <<"currentUser">>, {"me"})
BY DEF Read, Query, Reads, Suspense, TripPlansQuery, TripPlanQuery, MyTripPlansQuery,
       DriversQuery, ShipmentsQuery, ShipmentQuery, VehiclesQuery, VehicleQuery,
       UsersQuery, CurrentUserQuery

\* Every query is of things, and under its own key as under the empty one.
LEMMA QueryShape ==
  ASSUME NEW q \in DOMAIN Query
  PROVE  /\ IsPrefix(<<>>, Query[q].key) /\ IsPrefix(Query[q].key, Query[q].key)
         /\ Query[q].of \subseteq Things
<1>1. Query[q].key \in
        {<<"tripPlans">>, <<"tripPlan", "id">>, <<"myTripPlans">>, <<"drivers">>,
         <<"shipments">>, <<"shipment", "id">>, <<"shipment-validation", "id">>,
         <<"shipment-vehicle-suggestions", "id">>, <<"vehicles">>, <<"vehicles", "id">>,
         <<"users">>, <<"currentUser">>, <<"vehicles", "list">>,
         <<"vehicles", "positions", "latest">>, <<"shipments", "map-selector">>}
  BY DEF Query, Reads, Suspense, TripPlansQuery, TripPlanQuery,
         MyTripPlansQuery, DriversQuery, ShipmentsQuery, ShipmentQuery, ValidationQuery,
         SuggestionsQuery, VehiclesQuery, VehicleQuery, UsersQuery, CurrentUserQuery,
         MapVehiclesQuery, PositionsQuery, MapShipmentsQuery
<1>2. Query[q].of \subseteq Things
  BY DEF Query, Reads, Suspense, TripPlansQuery, TripPlanQuery,
         MyTripPlansQuery, DriversQuery, ShipmentsQuery, ShipmentQuery, ValidationQuery,
         SuggestionsQuery, VehiclesQuery, VehicleQuery, UsersQuery, CurrentUserQuery,
         MapVehiclesQuery, PositionsQuery, MapShipmentsQuery, Things
<1>3. \E a, b, c : Query[q].key \in {<<a>>, <<a, b>>, <<a, b, c>>}
  BY <1>1
<1>4. IsPrefix(<<>>, Query[q].key) /\ IsPrefix(Query[q].key, Query[q].key)
  BY <1>3, PrefixEnds
<1>5. QED
  BY <1>2, <1>4

\* The queries of which ReadYourWrites speaks, and the ones of them that may be
\* fresh and then are not fetched.
Promised == DOMAIN Query \ {"validation", "suggestions"}

LEMMA SuspenseQueries ==
  ASSUME NEW q \in Promised, Query[q].suspense
  PROVE  q \in {"shipment", "vehicle", "users"}
BY DEF Promised, Query, Reads, Suspense, TripPlansQuery, TripPlanQuery, MyTripPlansQuery,
       DriversQuery, ShipmentsQuery, ShipmentQuery, ValidationQuery, SuggestionsQuery,
       VehiclesQuery, VehicleQuery, UsersQuery, CurrentUserQuery, MapVehiclesQuery,
       PositionsQuery, MapShipmentsQuery

\* What a mutation writes and which keys it invalidates.
Keys(op) == op.again \cup op.settled

Written(op, writes, keys) == op.writes = writes /\ keys \subseteq Keys(op)

\* The mutations of the trip pages.
LEMMA TripWrites ==
  /\ Written(DeleteTrips, {"tripList"}, {<<"tripPlans">>})
  /\ Written(AssignTrip, {"trip"}, {<<"tripPlan", "id">>, <<"tripPlans">>})
  /\ Written(ShareTrip, {"share"}, {<<"tripPlan", "id">>})
  /\ Written(UpdateStatusInList, {"trip"}, {<<"myTripPlans">>})
  /\ Written(UpdateStatus, {"trip"}, {<<"tripPlan", "id">>, <<"myTripPlans">>})
BY DEF Written, Keys, Op, DeleteTrips, AssignTrip, ShareTrip, UpdateStatusInList, UpdateStatus

\* Of the shipment pages.
LEMMA ShipmentWrites ==
  /\ Written(DeleteShipments, {"shipmentList"}, {<<"shipments">>})
  /\ Written(UploadShipment, {"shipmentList"}, {<<"shipments">>})
  /\ Written(Reparse, {"load"}, {<<"shipments">>, <<"shipment", "id">>})
  /\ Written(RemoveShipment, {"shipmentList"}, {<<"shipments">>})
  /\ Written(SaveShipment, {"load"}, {<<"shipments">>, <<"shipment", "id">>})
  /\ Written(PlanTrip, {"planning", "tripList"}, {<<"shipments">>, <<"shipment", "id">>})
BY DEF Written, Keys, Op, DeleteShipments, UploadShipment, Reparse, RemoveShipment,
       SaveShipment, PlanTrip

\* Of the fleet pages.
LEMMA FleetWrites ==
  /\ Written(DeleteVehicles, {"vehicleList"}, {<<"vehicles">>})
  /\ Written(NewVehicle, {"vehicleList"}, {<<"vehicles">>})
  /\ Written(EditVehicle, {"vehicle"}, {<<"vehicles">>})
  /\ Written(DeleteVehicle, {"vehicleList"}, {<<>>})
BY DEF Written, Keys, Op, Everything, DeleteVehicles, NewVehicle, EditVehicle, DeleteVehicle

\* Of the administration and the settings.
LEMMA AccountWrites ==
  /\ Written(AddUser, {"userList"}, {<<"users">>})
  /\ Written(EditUser, {"userList"}, {<<"users">>})
  /\ Written(DeleteUser, {"userList"}, {<<>>})
  /\ Written(UserInformation, {"me"}, {<<>>})
BY DEF Written, Keys, Op, Everything, AddUser, EditUser, DeleteUser, UserInformation

\* The queries a page may observe.
OnPage(p) ==
  {PageQueries(p)[i] : i \in DOMAIN PageQueries(p)} \cup SideQueries(p) \cup {"suggestions"}

\* It observes no other.
LEMMA ObservedOnPage ==
  ASSUME NEW p, NEW open, NEW known
  PROVE  Observed(p, open, known) \subseteq Kept \cap OnPage(p)
BY DEF Observed, OnPage

\* Those of the pages that have mutations.
LEMMA PagesObserve ==
  ASSUME NEW q \in Promised
  PROVE  /\ q \in OnPage("trips") => q \in {"tripPlans", "currentUser"}
         /\ q \in OnPage("trip") => q \in {"tripPlan", "drivers", "currentUser"}
         /\ q \in OnPage("myTrips") => q \in {"myTripPlans", "currentUser"}
         /\ q \in OnPage("myTrip") => q \in {"tripPlan", "currentUser"}
         /\ q \in OnPage("shipments") => q \in {"shipments", "currentUser"}
         /\ q \in OnPage("shipment") => q \in {"shipment", "currentUser"}
         /\ q \in OnPage("fleet") => q \in {"vehicles", "currentUser"}
         /\ q \in OnPage("newVehicle") => q \in {"vehicles", "currentUser"}
         /\ q \in OnPage("vehicle") => q \in {"vehicle", "currentUser"}
         /\ q \in OnPage("editVehicle") => q \in {"vehicle", "currentUser"}
         /\ q \in OnPage("admin") => q \in {"users", "currentUser"}
         /\ q \in OnPage("settings") => q = "currentUser"
BY DEF OnPage, PageQueries, SideQueries, Promised

\* When a query is under one of the keys.
LEMMA UnderKey ==
  ASSUME NEW q \in DOMAIN Query, NEW keys,
         \/ Query[q].key \in keys
         \/ <<>> \in keys
         \/ q = "vehicle" /\ <<"vehicles">> \in keys
  PROVE  Under(keys, q)
<1>1. CASE Query[q].key \in keys \/ <<>> \in keys
  BY <1>1, QueryShape DEF Under
<1>2. CASE q = "vehicle" /\ <<"vehicles">> \in keys
  <2>1. Query["vehicle"].key = <<"vehicles", "id">>
    BY QueryRows DEF Read
  <2>2. QED
    BY <1>2, <2>1, PrefixFirst DEF Under
<1>3. QED
  BY <1>1, <1>2

\* Of the promised queries, whatever a mutation changes on the page it is made
\* on, or in what may be fresh elsewhere, is under a key it invalidates.
LEMMA Covered ==
  ASSUME NEW n \in DOMAIN Mutation, NEW q \in Promised,
         NEW t \in Mutation[n].writes \cap Query[q].of,
         q \in OnPage(Mutation[n].page) \/ Query[q].suspense
  PROVE  Under(Keys(Mutation[n]), q)
<1> DEFINE op == Mutation[n]
<1> USE DEF Row, Written, Read
<1>1. q \in DOMAIN Query
  BY DEF Promised
<1>2. q \in OnPage(op.page) \/ q \in {"shipment", "vehicle", "users"}
  BY SuspenseQueries
<1>3. CASE op = DeleteTrips
  <2>1. q = "tripPlans"
    BY <1>2, <1>3, TripRows, TripWrites, PagesObserve, QueryRows
  <2>2. QED
    BY <1>1, <1>3, <2>1, TripWrites, QueryRows, UnderKey
<1>4. CASE op \in {AssignTrip, ShareTrip, UpdateStatus}
  <2>1. q = "tripPlan"
    BY <1>2, <1>4, TripRows, TripWrites, PagesObserve, QueryRows
  <2>2. QED
    BY <1>1, <1>4, <2>1, TripWrites, QueryRows, UnderKey
<1>5. CASE op = UpdateStatusInList
  <2>1. q = "myTripPlans"
    BY <1>2, <1>5, TripRows, TripWrites, PagesObserve, QueryRows
  <2>2. QED
    BY <1>1, <1>5, <2>1, TripWrites, QueryRows, UnderKey
<1>6. CASE op \in {DeleteShipments, UploadShipment}
  <2>1. q = "shipments"
    BY <1>2, <1>6, ShipmentRows, ShipmentWrites, PagesObserve, QueryRows
  <2>2. QED
    BY <1>1, <1>6, <2>1, ShipmentWrites, QueryRows, UnderKey
<1>7. CASE op \in {Reparse, SaveShipment, PlanTrip}
  <2>1. q = "shipment"
    BY <1>2, <1>7, ShipmentRows, ShipmentWrites, PagesObserve, QueryRows
  <2>2. QED
    BY <1>1, <1>7, <2>1, ShipmentWrites, QueryRows, UnderKey
<1>8. CASE op = RemoveShipment
  BY <1>2, <1>8, ShipmentRows, ShipmentWrites, PagesObserve, QueryRows
<1>9. CASE op \in {DeleteVehicles, NewVehicle}
  <2>1. q = "vehicles"
    BY <1>2, <1>9, FleetRows, FleetWrites, PagesObserve, QueryRows
  <2>2. QED
    BY <1>1, <1>9, <2>1, FleetWrites, QueryRows, UnderKey
<1>10. CASE op = EditVehicle
  <2>1. q = "vehicle"
    BY <1>2, <1>10, FleetRows, FleetWrites, PagesObserve, QueryRows
  <2>2. QED
    BY <1>1, <1>10, <2>1, FleetWrites, UnderKey
<1>11. CASE op \in {AddUser, EditUser}
  <2>1. q = "users"
    BY <1>2, <1>11, AccountRows, AccountWrites, PagesObserve, QueryRows
  <2>2. QED
    BY <1>1, <1>11, <2>1, AccountWrites, QueryRows, UnderKey
<1>12. CASE op \in {DeleteVehicle, DeleteUser, UserInformation}
  BY <1>1, <1>12, FleetWrites, AccountWrites, UnderKey
<1>13. QED
  BY <1>3, <1>4, <1>5, <1>6, <1>7, <1>8, <1>9, <1>10, <1>11, <1>12, MutationNamed

(***************************************************************************)
(* The cache.                                                              *)
(***************************************************************************)

\* A version of what a query reads is as late as what the user was told of.
Due(q, version) == \A t \in Query[q].of : version[t] >= due[q][t]

CacheShape ==
  /\ Kept \subseteq DOMAIN Query
  /\ stored \in [Things -> Nat]
  /\ seen = [q \in Kept |-> seen[q]]
  /\ fetch = [q \in Kept |-> fetch[q]]

\* What the user was told of is stored; an answer on its way is late enough,
\* and so is what is fresh and will not be fetched when it gets on the screen.
QueryInv(q) ==
  /\ \A t \in Query[q].of : due[q][t] \in Nat /\ due[q][t] <= stored[t]
  /\ fetch[q] \notin {Idle, Asked} => Due(q, fetch[q])
  /\ q \in fresh => Query[q].suspense /\ Due(q, seen[q])
  /\ Shows(q)

CacheInv == CacheShape /\ \A q \in Kept \cap Promised : QueryInv(q)

\* After a render a query that is on screen and idle was idle before, and it
\* was on screen already or is fresh.
LEMMA Rendered ==
  ASSUME scope' = scope, NEW fetching, Render(page', dialog', seen', fetching, fresh'),
         NEW q \in Kept
  PROVE  /\ fetch'[q] \in {fetching[q], Asked}
         /\ fetch'[q] = Idle => fetching[q] = Idle
         /\ fetch'[q] = Idle /\ q \in Here' => q \in Here \/ q \in fresh'
<1>1. fetch'[q] = IF /\ q \in Started(page', dialog', seen')
                     /\ fetching[q] = Idle /\ ~(q \in fresh')
                  THEN Asked ELSE fetching[q]
  BY DEF Render
<1>2. Here' = Observed(page', dialog', seen')
  BY DEF Here, Observed, Kept
<1>3. q = "currentUser" => q \in Here
  BY DEF Here, Observed, SideQueries
<1>4. q \in Here' /\ q \notin Here => q \in Started(page', dialog', seen')
  BY <1>2, <1>3 DEF Started
<1>5. QED
  BY <1>1, <1>4, DeskAssumption

\* A render keeps the cache as late as it has to be, if what was fetched, what
\* is fresh and what stays on screen are.
LEMMA RenderKeeps ==
  ASSUME CacheInv, scope' = scope, stored' = stored, seen' = [q \in Kept |-> seen'[q]],
         NEW fetching, Render(page', dialog', seen', fetching, fresh'),
         \A q \in Kept \cap Promised :
           /\ \A t \in Query[q].of : due'[q][t] \in Nat /\ due'[q][t] <= stored[t]
           /\ fetching[q] \notin {Idle, Asked} => Due(q, fetching[q])'
           /\ q \in fresh' => Query[q].suspense /\ Due(q, seen[q])'
           /\ q \in Here /\ fetching[q] = Idle /\ q \notin failed' /\ seen'[q] # None =>
                Due(q, seen[q])'
  PROVE  CacheInv'
<1>1. CacheShape'
  BY DEF CacheInv, CacheShape, Kept, Render
<1>2. ASSUME NEW q \in Kept \cap Promised PROVE QueryInv(q)'
  <2>1. /\ fetch'[q] \in {fetching[q], Asked}
        /\ fetch'[q] = Idle => fetching[q] = Idle
        /\ fetch'[q] = Idle /\ q \in Here' => q \in Here \/ q \in fresh'
    BY Rendered
  <2>2. (fetch[q] \notin {Idle, Asked} => Due(q, fetch[q]))'
    BY <2>1 DEF Due
  <2>3. Shows(q)'
    BY <2>1 DEF Shows, Due
  <2>4. QED
    BY <2>2, <2>3 DEF QueryInv
<1>3. QED
  BY <1>1, <1>2 DEF CacheInv, Kept

\* The user moves between pages and dialogs; nothing he was told of changes.
LEMMA MoveStep ==
  ASSUME CacheInv, Render(page', dialog', seen, fetch, fresh),
         UNCHANGED <<scope, stored, failed, due>>
  PROVE  CacheInv'
<1>1. PICK fetching : fetching = fetch
  OBVIOUS
<1>2. seen' = seen /\ fresh' = fresh
  BY DEF Render
<1>3. Render(page', dialog', seen', fetching, fresh')
  BY <1>1, <1>2
<1>4. ASSUME NEW q \in Kept \cap Promised
      PROVE  /\ \A t \in Query[q].of : due'[q][t] \in Nat /\ due'[q][t] <= stored[t]
             /\ fetching[q] \notin {Idle, Asked} => Due(q, fetching[q])'
             /\ q \in fresh' => Query[q].suspense /\ Due(q, seen[q])'
             /\ q \in Here /\ fetching[q] = Idle /\ q \notin failed' /\ seen'[q] # None =>
                  Due(q, seen[q])'
  BY <1>1, <1>2 DEF CacheInv, QueryInv, Due, Shows
<1>5. seen' = [q \in Kept |-> seen'[q]]
  BY <1>2 DEF CacheInv, CacheShape
<1>6. QED
  BY <1>3, <1>4, <1>5, RenderKeeps

\* The backend writes: what is stored only gets later.
LEMMA WriteStep ==
  ASSUME CacheInv, NEW ts, Write(ts),
         UNCHANGED <<scope, page, dialog, seen, fetch, fresh, failed, due>>
  PROVE  CacheInv'
<1>1. /\ stored' \in [Things -> Nat]
      /\ \A t \in Things : stored'[t] \in Nat /\ stored[t] \in Nat /\ stored[t] <= stored'[t]
  BY DEF CacheInv, CacheShape, Write
<1>2. CacheShape'
  BY <1>1 DEF CacheInv, CacheShape, Kept
<1>3. ASSUME NEW q \in Kept \cap Promised PROVE QueryInv(q)'
  <2>1. Query[q].of \subseteq Things
    BY QueryShape DEF Promised
  <2>2. \A t \in Query[q].of : due'[q][t] \in Nat /\ due'[q][t] <= stored'[t]
    BY <1>1, <2>1 DEF CacheInv, QueryInv
  <2>3. Here' = Here
    BY DEF Here, Observed, Kept
  <2>4. QED
    BY <2>2, <2>3 DEF CacheInv, QueryInv, Due, Shows
<1>4. QED
  BY <1>2, <1>3 DEF CacheInv, Kept

\* It reads: the answer has everything stored by now.
LEMMA ReadStep ==
  ASSUME CacheInv, NEW r \in Kept, BackendReads(r)
  PROVE  CacheInv'
<1>1. UNCHANGED <<scope, page, dialog, stored, seen, fresh, failed, due>>
  BY DEF BackendReads
<1>2. fetch' = [q \in Kept |-> IF q = r THEN [t \in Query[r].of |-> stored[t]] ELSE fetch[q]]
  BY DEF BackendReads, CacheInv, CacheShape
<1>3. CacheShape'
  BY <1>1, <1>2 DEF CacheInv, CacheShape, Kept
<1>4. ASSUME NEW q \in Kept \cap Promised PROVE QueryInv(q)'
  <2>1. Here' = Here
    BY <1>1 DEF Here, Observed, Kept
  <2>2. CASE q # r
    BY <1>1, <1>2, <2>1, <2>2 DEF CacheInv, QueryInv, Due, Shows
  <2>3. CASE q = r
    <3>1. Query[q].of \subseteq Things
      BY QueryShape DEF Promised
    <3>2. fetch'[q] = [t \in Query[q].of |-> stored[t]]
      BY <1>2, <2>3
    <3>3. fetch'[q] \in [Query[q].of -> Nat]
      BY <3>1, <3>2 DEF CacheInv, CacheShape
    <3>4. fetch'[q] # Idle
      BY <3>3, DeskAssumption DEF Promised
    <3>5. Due(q, fetch[q])'
      BY <1>1, <3>1, <3>2 DEF CacheInv, CacheShape, QueryInv, Due
    <3>6. QED
      BY <1>1, <3>4, <3>5 DEF CacheInv, QueryInv, Due, Shows
  <2>4. QED
    BY <2>2, <2>3
<1>5. QED
  BY <1>1, <1>3, <1>4 DEF CacheInv, Kept

\* The answer arrives.
LEMMA AnswerStep ==
  ASSUME CacheInv, NEW r \in Kept, FetchAnswers(r)
  PROVE  CacheInv'
<1>1. PICK fetching : fetching = [fetch EXCEPT ![r] = Idle]
  OBVIOUS
<1>2. /\ seen' = [seen EXCEPT ![r] = fetch[r]]
      /\ fresh' = IF Query[r].suspense THEN fresh \cup {r} ELSE fresh
      /\ failed' = failed \ {r}
      /\ UNCHANGED <<scope, stored, due>>
      /\ fetch[r] \notin {Idle, Asked}
  BY DEF FetchAnswers, Render
<1>3. Render(page', dialog', seen', fetching, fresh')
  BY <1>1, <1>2 DEF FetchAnswers, Render
<1>4. /\ fetching = [q \in Kept |-> IF q = r THEN Idle ELSE fetch[q]]
      /\ seen' = [q \in Kept |-> IF q = r THEN fetch[r] ELSE seen[q]]
  BY <1>1, <1>2 DEF CacheInv, CacheShape
<1>5. ASSUME NEW q \in Kept \cap Promised
      PROVE  /\ \A t \in Query[q].of : due'[q][t] \in Nat /\ due'[q][t] <= stored[t]
             /\ fetching[q] \notin {Idle, Asked} => Due(q, fetching[q])'
             /\ q \in fresh' => Query[q].suspense /\ Due(q, seen[q])'
             /\ q \in Here /\ fetching[q] = Idle /\ q \notin failed' /\ seen'[q] # None =>
                  Due(q, seen[q])'
  <2>1. CASE q = r
    BY <1>2, <1>4, <2>1 DEF CacheInv, QueryInv, Due
  <2>2. CASE q # r
    BY <1>2, <1>4, <2>2 DEF CacheInv, QueryInv, Due, Shows
  <2>3. QED
    BY <2>1, <2>2
<1>6. seen' = [q \in Kept |-> seen'[q]]
  BY <1>4
<1>7. QED
  BY <1>2, <1>3, <1>5, <1>6, RenderKeeps

\* A fetch fails or a second passes: nothing arrives.
LEMMA NothingArrives ==
  ASSUME CacheInv, NEW r \in Kept, FetchFails(r) \/ Ages(r)
  PROVE  CacheInv'
<1>1. /\ UNCHANGED <<scope, page, dialog, stored, seen, due>>
      /\ fresh' \subseteq fresh
  BY DEF FetchFails, Ages
<1>2. /\ fetch' = [q \in Kept |-> fetch'[q]]
      /\ \A q \in Kept : \/ fetch'[q] = fetch[q] /\ (q \in failed' <=> q \in failed)
                         \/ fetch'[q] = Idle /\ q \in failed'
  BY DEF CacheInv, CacheShape, FetchFails, Ages
<1>3. CacheShape'
  BY <1>1, <1>2 DEF CacheInv, CacheShape, Kept
<1>4. Here' = Here
  BY <1>1 DEF Here, Observed, Kept
<1>5. ASSUME NEW q \in Kept \cap Promised PROVE QueryInv(q)'
  BY <1>1, <1>2, <1>4 DEF CacheInv, QueryInv, Due, Shows
<1>6. QED
  BY <1>1, <1>3, <1>5 DEF CacheInv, Kept

\* The window gets the focus: fetches only begin.
LEMMA RefocusStep ==
  ASSUME CacheInv, Refocus
  PROVE  CacheInv'
<1>1. UNCHANGED <<scope, page, dialog, stored, seen, fresh, failed, due>>
  BY DEF Refocus
<1>2. /\ fetch' = [q \in Kept |-> fetch'[q]]
      /\ \A q \in Kept : fetch'[q] \in {fetch[q], Asked}
  BY DEF Refocus
<1>3. CacheShape'
  BY <1>1, <1>2 DEF CacheInv, CacheShape, Kept
<1>4. Here' = Here
  BY <1>1 DEF Here, Observed, Kept
<1>5. ASSUME NEW q \in Kept \cap Promised PROVE QueryInv(q)'
  BY <1>1, <1>2, <1>4, DeskAssumption DEF CacheInv, QueryInv, Due, Shows
<1>6. QED
  BY <1>1, <1>3, <1>5 DEF CacheInv, Kept

\* A mutation ends in failure: keys are invalidated, and nothing was told.
LEMMA FailureStep ==
  ASSUME CacheInv, NEW c \in calls, Fails(c)
  PROVE  CacheInv'
<1>1. PICK keys : keys = Mutation[c.op].settled
  OBVIOUS
<1>2. PICK fetching : fetching = Refetched(keys)
  OBVIOUS
<1>3. /\ seen' = seen
      /\ fresh' = NoLongerFresh(keys)
      /\ UNCHANGED <<scope, stored, failed, due>>
  BY <1>1 DEF Fails, Render
<1>4. Render(page', dialog', seen', fetching, fresh')
  BY <1>1, <1>2, <1>3 DEF Fails, Render
<1>5. ASSUME NEW q \in Kept \cap Promised
      PROVE  /\ \A t \in Query[q].of : due'[q][t] \in Nat /\ due'[q][t] <= stored[t]
             /\ fetching[q] \notin {Idle, Asked} => Due(q, fetching[q])'
             /\ q \in fresh' => Query[q].suspense /\ Due(q, seen[q])'
             /\ q \in Here /\ fetching[q] = Idle /\ q \notin failed' /\ seen'[q] # None =>
                  Due(q, seen[q])'
  BY <1>2, <1>3, DeskAssumption
     DEF CacheInv, QueryInv, Due, Shows, Refetched, NoLongerFresh
<1>6. seen' = [q \in Kept |-> seen'[q]]
  BY <1>3 DEF CacheInv, CacheShape
<1>7. QED
  BY <1>3, <1>4, <1>5, <1>6, RenderKeeps

\* A query that comes to owe what a mutation wrote is fetched at once or, being
\* off screen and idle, when it gets on the screen; a request of before the
\* write has been given up.
LEMMA OwedIsFetched ==
  ASSUME CacheInv, NEW n \in DOMAIN Mutation, NEW q \in Kept \cap Promised,
         NEW t \in Mutation[n].writes \cap Query[q].of, Owes(q, Mutation[n])
  PROVE  /\ q \notin NoLongerFresh(Keys(Mutation[n]))
         /\ IF q \in Here THEN Refetched(Keys(Mutation[n]))[q] = Asked
                          ELSE Refetched(Keys(Mutation[n]))[q] = Idle
<1>1. q \in NoLongerFresh(Keys(Mutation[n])) =>
        Query[q].suspense /\ ~Under(Keys(Mutation[n]), q)
  BY DEF CacheInv, QueryInv, NoLongerFresh
<1>2. q \notin NoLongerFresh(Keys(Mutation[n]))
  BY <1>1, Covered
<1>3. CASE q \in Here
  <2>1. page = Mutation[n].page /\ (seen[q] # None \/ fetch[q] = Idle)
    BY <1>3 DEF Owes
  <2>2. q \in OnPage(Mutation[n].page)
    <3>1. PICK known : known = seen
      OBVIOUS
    <3>2. PICK p, open : p = page /\ open = dialog
      OBVIOUS
    <3>3. q \in OnPage(p)
      BY <1>3, <3>1, <3>2, ObservedOnPage DEF Here
    <3>4. QED
      BY <2>1, <3>2, <3>3
  <2>3. Under(Keys(Mutation[n]), q)
    BY <2>2, Covered
  <2>4. QED
    BY <1>2, <1>3, <2>1, <2>3 DEF Refetched
<1>4. CASE q \notin Here
  BY <1>2, <1>4 DEF Owes, Refetched
<1>5. QED
  BY <1>3, <1>4

\* A mutation succeeds: what it wrote is owed and fetched.
LEMMA SuccessStep ==
  ASSUME CacheInv, NEW c \in calls, c.op \in DOMAIN Mutation, Succeeds(c)
  PROVE  CacheInv'
<1>1. PICK n \in DOMAIN Mutation : n = c.op
  OBVIOUS
<1>2. PICK fetching : fetching = Refetched(Keys(Mutation[n]))
  OBVIOUS
<1>3. /\ seen' = seen
      /\ fresh' = NoLongerFresh(Keys(Mutation[n]))
      /\ UNCHANGED <<scope, stored, failed>>
  BY <1>1 DEF Succeeds, Render, Keys
<1>4. Render(page', dialog', seen', fetching, fresh')
  BY <1>1, <1>2, <1>3 DEF Succeeds, Render, Keys
<1>5. due' = [q \in Kept |-> [t \in Query[q].of |->
                IF t \in Mutation[n].writes /\ Owes(q, Mutation[n])
                THEN stored[t] ELSE due[q][t]]]
  BY <1>1 DEF Succeeds
<1>6. ASSUME NEW q \in Kept \cap Promised
      PROVE  /\ \A t \in Query[q].of : due'[q][t] \in Nat /\ due'[q][t] <= stored[t]
             /\ fetching[q] \notin {Idle, Asked} => Due(q, fetching[q])'
             /\ q \in fresh' => Query[q].suspense /\ Due(q, seen[q])'
             /\ q \in Here /\ fetching[q] = Idle /\ q \notin failed' /\ seen'[q] # None =>
                  Due(q, seen[q])'
  <2>1. Query[q].of \subseteq Things
    BY QueryShape DEF Promised
  <2>2. CASE \E t \in Mutation[n].writes \cap Query[q].of : Owes(q, Mutation[n])
    <3>1. \A t \in Query[q].of : due'[q][t] \in Nat /\ due'[q][t] <= stored[t]
      BY <1>5, <2>1 DEF CacheInv, CacheShape, QueryInv
    <3>2. q \notin fresh' /\ fetching[q] \in {Idle, Asked} /\ (q \in Here => fetching[q] = Asked)
      BY <1>2, <1>3, <2>2, OwedIsFetched
    <3>3. QED
      BY <3>1, <3>2, DeskAssumption
  <2>3. CASE ~\E t \in Mutation[n].writes \cap Query[q].of : Owes(q, Mutation[n])
    <3>1. \A t \in Query[q].of : due'[q][t] = due[q][t]
      BY <1>5, <2>3
    <3>2. fetching[q] \in {fetch[q], Asked}
      BY <1>2 DEF Refetched
    <3>3. fresh' \subseteq fresh
      BY <1>3 DEF NoLongerFresh
    <3>4. QED
      BY <1>3, <3>1, <3>2, <3>3, DeskAssumption DEF CacheInv, QueryInv, Due, Shows
  <2>4. QED
    BY <2>2, <2>3
<1>7. seen' = [q \in Kept |-> seen'[q]]
  BY <1>3 DEF CacheInv, CacheShape
<1>8. QED
  BY <1>3, <1>4, <1>6, <1>7, RenderKeeps

\* What leaves the cache alone keeps it.
LEMMA SameCache ==
  ASSUME CacheInv,
         UNCHANGED <<scope, page, dialog, stored, seen, fetch, fresh, failed, due>>
  PROVE  CacheInv'
<1>1. CacheShape'
  BY DEF CacheInv, CacheShape, Kept
<1>2. Here' = Here
  BY DEF Here, Observed, Kept
<1>3. ASSUME NEW q \in Kept \cap Promised PROVE QueryInv(q)'
  BY <1>2 DEF CacheInv, QueryInv, Due, Shows
<1>4. QED
  BY <1>1, <1>3 DEF CacheInv, Kept

\* At first nothing was told, nothing has come and nothing is fresh.
LEMMA InitCache ==
  ASSUME Init
  PROVE  CacheInv
<1>1. CacheShape
  BY DeskAssumption DEF Init, CacheShape, Kept
<1>2. ASSUME NEW q \in Kept \cap Promised PROVE QueryInv(q)
  <2>1. Query[q].of \subseteq Things
    BY QueryShape DEF Promised
  <2>2. /\ \A t \in Query[q].of : due[q][t] = 0 /\ stored[t] = 0
        /\ fetch[q] \in {Idle, Asked} /\ fresh = {} /\ seen[q] = None
    BY <2>1 DEF Init
  <2>3. QED
    BY <2>2 DEF QueryInv, Shows
<1>3. QED
  BY <1>1, <1>2 DEF CacheInv

\* The cache is as late as it has to be after every step.
LEMMA CacheInvHolds == Spec => []CacheInv
<1>1. DeskInv /\ CacheInv /\ [Next]_vars => CacheInv'
  <2> SUFFICES ASSUME DeskInv, CacheInv, [Next]_vars PROVE CacheInv'
    OBVIOUS
  <2>1. ASSUME NEW p \in Layout, Open(p) PROVE CacheInv'
    <3>1. Render(page', dialog', seen, fetch, fresh)
      BY <2>1 DEF Open, Render
    <3>2. QED
      BY <2>1, <3>1, MoveStep DEF Open
  <2>2. CASE OpenPlanDialog \/ ClosePlanDialog
    <3>1. Render(page', dialog', seen, fetch, fresh)
      BY <2>2 DEF OpenPlanDialog, ClosePlanDialog, Render
    <3>2. QED
      BY <2>2, <3>1, MoveStep DEF OpenPlanDialog, ClosePlanDialog
  <2>3. CASE Refocus
    BY <2>3, RefocusStep
  <2>4. ASSUME NEW n \in DOMAIN Mutation, Submit(n) PROVE CacheInv'
    BY <2>4, SameCache DEF Submit, cache
  <2>5. ASSUME NEW c \in calls, BackendWrites(c) PROVE CacheInv'
    <3>1. PICK ts : ts = Mutation[c.op].writes
      OBVIOUS
    <3>2. QED
      BY <2>5, <3>1, WriteStep DEF BackendWrites, cache
  <2>6. ASSUME NEW c \in calls, Succeeds(c) PROVE CacheInv'
    BY <2>6, SuccessStep DEF DeskInv
  <2>7. ASSUME NEW c \in calls, Fails(c) PROVE CacheInv'
    BY <2>7, FailureStep
  <2>8. ASSUME NEW t, OthersWrite(t) PROVE CacheInv'
    BY <2>8, WriteStep DEF OthersWrite, cache
  <2>9. ASSUME NEW q \in Kept, BackendReads(q) \/ FetchAnswers(q) \/ FetchFails(q) \/ Ages(q)
        PROVE CacheInv'
    BY <2>9, ReadStep, AnswerStep, NothingArrives
  <2>10. CASE UNCHANGED vars
    BY <2>10, SameCache DEF vars, cache
  <2>11. QED
    BY <2>1, <2>2, <2>3, <2>4, <2>5, <2>6, <2>7, <2>8, <2>9, <2>10 DEF Next
<1>2. QED
  BY <1>1, InitCache, DeskInvHolds, PTL DEF Spec

\* Whatever is fetched, written, failed and left meanwhile, by however many
\* mutations at once, a quiet page shows what the user has been told is done.
THEOREM OwnWritesAlwaysRead == Spec => []ReadYourWrites
<1>1. CacheInv => ReadYourWrites
  BY DEF CacheInv, CacheShape, QueryInv, ReadYourWrites, Promised
<1>2. QED
  BY <1>1, CacheInvHolds, PTL
=============================================================================
