------------------------------- MODULE MCDesk --------------------------------
EXTENDS Desk

CONSTANTS boss, admin, dispatcher, driver

MCUsers == {boss, admin, dispatcher, driver}
MCRole == [u \in MCUsers |-> CASE u = admin -> "admin" [] u = driver -> "driver"
                               [] OTHER -> "dispatcher"]
MCSuperuser == [u \in MCUsers |-> u = boss]

Scope(users, pages, mutations, queries) ==
  [users |-> users, pages |-> pages, mutations |-> mutations, queries |-> queries,
   atOnce |-> 1]
AtOnce(n, s) == [s EXCEPT !.atOnce = n]

MCScopes ==
  {Scope({dispatcher}, {"trips", "trip"}, {"deleteTrips", "assignTrip"}, {"tripPlans", "tripPlan"}),
   AtOnce(2, Scope({admin}, {"trip"}, {"assignTrip", "shareTrip"}, {"tripPlan"})),
   Scope({admin}, {"trip"}, {"shareTrip"}, {"tripPlan", "drivers"}),
   AtOnce(2, Scope({driver}, {"myTrips", "myTrip"}, {"updateStatusInList", "updateStatus"},
                   {"myTripPlans", "tripPlan"})),
   Scope({dispatcher}, {"shipments", "shipment", "trip"},
         {"deleteShipments", "uploadShipment", "removeShipment", "saveShipment"},
         {"shipments", "shipment"}),
   Scope({dispatcher}, {"shipment", "trips", "trip"}, {"planTrip"}, {"shipment", "tripPlans"}),
   Scope({admin}, {"shipment", "map", "shipments"}, {"uploadShipment"},
         {"mapShipments", "suggestions"}),
   Scope({admin}, {"shipment", "shipments", "trip"}, {"reparse", "planTrip"},
         {"shipment", "validation"}),
   Scope({boss}, {"fleet", "vehicle", "editVehicle"},
         {"deleteVehicles", "editVehicle", "deleteVehicle"}, {"vehicles", "vehicle"}),
   Scope({boss}, {"map", "newVehicle", "fleet"}, {"newVehicle"}, {"mapVehicles", "vehicles"}),
   Scope({boss}, {"map", "settings"}, {}, {"positions"}),
   Scope({boss}, {"admin", "settings"},
         {"addUser", "editUser", "deleteUser", "userInformation"}, {"users", "currentUser"}),
   Scope(MCUsers, Layout, DOMAIN Mutation, {})}

=============================================================================
