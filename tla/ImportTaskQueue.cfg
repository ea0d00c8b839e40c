CONSTANTS
  Tasks = {t1, t2}
  Workers = {w1, w2}
  Requests = {}
  Prices = {1}
  MaxRetries = 1
  MaxCrashes = 1
  Orphan = Orphan
  Api = Api
  None = None
SPECIFICATION FairSpec
CHECK_DEADLOCK FALSE
INVARIANTS RunsNeverOverlap AcceptedIsNotLost
PROPERTY Settles
