----------------------------- MODULE Navigation ------------------------------
(* The pages of the frontend (routes/, routeTree.gen.ts), who may stay on each *)
(* and which of them the sidebar offers.                                       *)

CONSTANTS
  Users,      \* accounts
  Role,       \* role of each
  Superuser   \* is_superuser of each

Entry == {"login", "signup", "recoverPassword", "resetPassword"}
Layout == {"home", "map", "howItWorks", "settings", "trips", "trip", "myTrips",
           "myTrip", "shipments", "shipment", "fleet", "vehicle", "newVehicle",
           "editVehicle", "admin"}
Pages == Entry \cup Layout \cup {"shared"}

UsesAuthEverywhere == {"login", "signup", "home", "settings", "trips", "shipment",
                       "fleet", "vehicle", "admin", "shared"}

\* Pages whose components subscribe to the current user; the sidebar, on every
\* page of the layout, does too.
UsesAuth == {"login", "signup", "home", "settings", "trips", "shipment", "fleet",
             "vehicle", "admin"}
ObservingPages == UsesAuth

Observing == UsesAuth \cup Layout

Dispatches(u) == Superuser[u] \/ Role[u] = "dispatcher"

\* Where `beforeLoad` of each page sends a user who may not stay.  The vehicle
\* page asks who the user is and lets everyone stay.
Guarded == Layout \ {"home", "map", "howItWorks", "settings"}
LandingElsewhere(p, u) ==
  CASE p \in {"trips", "trip"} -> IF Role[u] = "driver" THEN "myTrips" ELSE p
    [] p \in {"myTrips", "myTrip"} -> IF Role[u] # "driver" THEN "trips" ELSE p
    [] p \in {"shipments", "shipment"} -> IF Role[u] = "driver" THEN "home" ELSE p
    [] p \in {"fleet", "editVehicle"} -> IF Dispatches(u) THEN p ELSE "admin"
    [] p = "newVehicle" -> IF Superuser[u] THEN p ELSE "fleet"
    [] p = "admin" -> IF Superuser[u] THEN p ELSE "fleet"
    [] OTHER -> p

Landing(p, u) ==
  CASE p \in {"trips", "trip"} -> IF Role[u] = "driver" THEN "myTrips" ELSE p
    [] p \in {"myTrips", "myTrip"} -> IF Role[u] # "driver" THEN "trips" ELSE p
    [] p \in {"shipments", "shipment"} -> IF Role[u] = "driver" THEN "home" ELSE p
    [] p \in {"fleet", "editVehicle"} -> IF Dispatches(u) THEN p ELSE "home"
    [] p = "newVehicle" -> IF Superuser[u] THEN p ELSE "fleet"
    [] p = "admin" -> IF Superuser[u] THEN p ELSE "home"
    [] OTHER -> p

MenuWithTrips(u) ==
  {"home", "map", "howItWorks", "trips", "shipments"}
    \cup (IF Role[u] = "driver" THEN {"myTrips"} ELSE {})
    \cup (IF Dispatches(u) THEN {"fleet"} ELSE {})
    \cup (IF Superuser[u] THEN {"admin"} ELSE {})

\* The sidebar of a user the tab has loaded.
Menu(u) ==
  {"home", "map", "howItWorks"}
    \cup (IF Role[u] = "driver" THEN {"myTrips"} ELSE {"trips", "shipments"})
    \cup (IF Dispatches(u) THEN {"fleet"} ELSE {})
    \cup (IF Superuser[u] THEN {"admin"} ELSE {})
=============================================================================
