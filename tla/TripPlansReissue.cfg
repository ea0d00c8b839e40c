CONSTANTS
  Trips = {t1}
  Shipments = {}
  Vehicles = {v1}
  Drivers = {d1}
  Routes = {g1}
  Errors = {e1}
  Tokens = {k1, k2, k3}
  Requests = {r1, r2}
  Endpoints = {"create", "share"}
  Retirable = {}
  Legacy = {}
  Faults = FALSE
  None = None
SPECIFICATION Spec
CHECK_DEADLOCK FALSE
PROPERTY ReissueKeepsToken
