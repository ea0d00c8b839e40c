--------------------------------- MODULE Api ---------------------------------
(* The operations of the generated client (frontend/src/client/sdk.gen.ts):   *)
(* for each, whether its request is declared to carry the bearer token.       *)

Carrying(ops) == [name : ops, secured : {TRUE}]
Public(ops) == [name : ops, secured : {FALSE}]

LoginService ==
  Public({"loginAccessToken", "recoverPassword", "resetPassword"}) \cup
  Carrying({"testToken", "recoverPasswordHtmlContent"})

UsersService ==
  Public({"registerUser"}) \cup
  Carrying({"readUsers", "createUser", "deleteUserMe", "readUserMe", "updateUserMe",
            "updatePasswordMe", "deleteUser", "readUserById", "updateUser"})

UtilsService == Public({"healthCheck"}) \cup Carrying({"testEmail"})

ItemsService ==
  Carrying({"readItems", "createItem", "deleteItem", "readItem", "updateItem"})

VehiclesService ==
  Carrying({"listVehicles", "createVehicle", "listLatestVehiclePositions",
            "deleteVehicle", "getVehicle", "updateVehicle", "getVehiclePosition",
            "recordVehiclePosition"})

FuelService ==
  Carrying({"importPumppriceFuel", "importPumppriceMobile",
            "enqueueImportPumppriceMobile", "getImportPumppriceMobileTask"})

FuelOptimizationService ==
  Carrying({"optimizationCalculateFuelOptimization",
            "optimizationExplainFuelOptimization"})

GeocodingService == Public({"search"})
RoutingService == Public({"calculateRoute"})
MapService == Public({"getAllFuelStations", "routeOverview"})

TripPlansService ==
  Public({"plansReadSharedTripPlan"}) \cup
  Carrying({"plansListTripPlans", "plansCreateTripPlan", "plansListMyTripPlans",
            "plansDeleteTripPlan", "plansReadTripPlan", "plansRefineTripPlan",
            "plansAssignTripPlan", "plansUpdateTripPlanStatus",
            "plansShareTripPlan", "plansExportTripPlan"})

DriversService ==
  Carrying({"listDrivers", "readOwnProfile", "updateOwnProfile", "readDriver",
            "updateDriverProfile"})

ShipmentsService ==
  Carrying({"uploadShipmentDocument", "listShipments", "deleteShipment", "getShipment",
            "updateShipment", "reparseShipment", "validateShipment",
            "downloadShipmentDocument", "suggestVehicles", "planShipment"})

\* Its createUser: the name is taken by the users service.
PrivateService == Public({"createUser (private)"})

Operations ==
  UNION {LoginService, UsersService, UtilsService, ItemsService, VehiclesService,
         FuelService, FuelOptimizationService, GeocodingService, RoutingService,
         MapService, TripPlansService, DriversService, ShipmentsService,
         PrivateService}

SecuredOperations == {o.name : o \in {x \in Operations : x.secured}}
Secured(op) == op \in SecuredOperations
=============================================================================
