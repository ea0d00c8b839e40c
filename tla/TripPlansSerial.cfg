CONSTANTS
  Trips = {t1, t2, t3}
  Shipments = {s1}
  Vehicles = {v1}
  Drivers = {d1}
  Routes = {g1}
  Errors = {e1}
  Tokens = {}
  Requests = {r1}
  Endpoints = {"create", "plan", "assign", "status", "delete",
               "update_shipment", "delete_shipment"}
  Retirable = {}
  Legacy = {t3}
  Faults = FALSE
  None = None
SPECIFICATION Spec
CHECK_DEADLOCK FALSE
SYMMETRY TripSymmetry
INVARIANT QueueAgreesWithTrips
PROPERTY OnlyPlanReopens
