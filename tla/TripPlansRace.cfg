CONSTANTS
  Trips = {t1}
  Shipments = {s1}
  Vehicles = {v1}
  Drivers = {d1}
  Routes = {g1, g2}
  Errors = {e1}
  Tokens = {}
  Requests = {r1, r2}
  Endpoints = {"create", "refine", "assign", "status", "delete"}
  Retirable = {}
  Legacy = {}
  Faults = TRUE
  None = None
SPECIFICATION Spec
CHECK_DEADLOCK FALSE
SYMMETRY RequestSymmetry
INVARIANTS CompletedIsRecorded RefinedHasRoute
