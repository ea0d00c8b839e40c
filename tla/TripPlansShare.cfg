CONSTANTS
  Trips = {t1, t2}
  Shipments = {}
  Vehicles = {v1}
  Drivers = {d1}
  Routes = {g1}
  Errors = {e1}
  Tokens = {k1, k2, k3}
  Requests = {r1, r2}
  Endpoints = {"create", "assign", "share", "delete", "delete_vehicle"}
  Retirable = {v1}
  Legacy = {}
  Faults = FALSE
  None = None
SPECIFICATION Spec
CHECK_DEADLOCK FALSE
SYMMETRY Symmetry
PROPERTIES DeadTokenStaysDead LinksImplemented
