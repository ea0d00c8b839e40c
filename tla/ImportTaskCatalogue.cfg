CONSTANTS
  Tasks = {t1}
  Workers = {w1, w2}
  Requests = {r1}
  Prices = {1, 2}
  MaxRetries = 1
  MaxCrashes = 1
  Orphan = Orphan
  Api = Api
  None = None
SPECIFICATION Spec
CHECK_DEADLOCK FALSE
SYMMETRY WorkerSymmetry
INVARIANTS OnlyRequestsOverlap RowIsOneImport
PROPERTY ImportsMoveForward
